------------------------------ MODULE FormsProofs ------------------------------
(* Proofs about Forms and Composer, for any lists of names, any texts and items, and *)
(* any number of inputs and saves.                                                   *)
EXTENDS Forms, SequenceTheorems, WellFoundedInduction, TLAPS

-----------------------------------------------------------------------------
(* Numbers and texts *)

LEMMA LeastOf ==
  ASSUME NEW S \in SUBSET Nat, S # {}
  PROVE  \E n \in S : \A k \in S : n <= k
<1>1. PICK n \in S : \A k \in S : <<k, n>> \notin OpToRel(<, Nat)
  BY NatLessThanWellFounded, WFMin
<1>2. ASSUME NEW k \in S PROVE n <= k
  <2>1. n \in Nat /\ k \in Nat
    OBVIOUS
  <2>2. k < n => <<k, n>> \in OpToRel(<, Nat)
    BY <2>1 DEF OpToRel
  <2>3. ~(k < n)
    BY <1>1, <2>2
  <2> QED BY <2>1, <2>3
<1> QED BY <1>2

\* Induction, for a set of numbers.
LEMMA Upwards ==
  ASSUME NEW S \in SUBSET Nat, 0 \in S, \A n \in S : n + 1 \in S
  PROVE  S = Nat
<1> SUFFICES ASSUME Nat \ S # {} PROVE FALSE
  OBVIOUS
<1>1. PICK n \in Nat \ S : \A k \in Nat \ S : n <= k
  BY LeastOf
<1>2. n # 0 /\ n - 1 \in Nat /\ n - 1 \notin Nat \ S
  BY <1>1
<1> QED BY <1>2

LEMMA MinOf ==
  ASSUME NEW S \in SUBSET Nat, S # {}
  PROVE  Min(S) \in S /\ \A k \in S : Min(S) <= k
BY LeastOf DEF Min

LEMMA GreatestOf ==
  ASSUME NEW S \in SUBSET Nat, NEW top \in Nat, \A k \in S : k <= top, S # {}
  PROVE  \E n \in S : \A k \in S : k <= n
<1> DEFINE T == {top - k : k \in S}
<1>1. T \subseteq Nat /\ T # {}
  <2>1. \A k \in S : top - k \in Nat
    OBVIOUS
  <2> QED BY <2>1
<1> HIDE DEF T
<1>2. PICK m \in T : \A k \in T : m <= k
  BY <1>1, LeastOf
<1>3. \E n \in S : m = top - n /\ \A k \in S : m <= top - k
  BY <1>2 DEF T
<1> QED BY <1>3

LEMMA MaxOf ==
  ASSUME NEW S \in SUBSET Nat, NEW top \in Nat, \A k \in S : k <= top, S # {}
  PROVE  Max(S) \in S /\ \A k \in S : k <= Max(S)
BY GreatestOf DEF Max

\* A stretch of a text is a text.
LEMMA Stretch ==
  ASSUME NEW t \in Text, NEW m \in Nat \ {0}, NEW n \in Int, n <= Len(t)
  PROVE  /\ SubSeq(t, m, n) \in Text
         /\ Len(SubSeq(t, m, n)) = IF m <= n THEN n - m + 1 ELSE 0
         /\ \A k \in 1..Len(SubSeq(t, m, n)) : SubSeq(t, m, n)[k] = t[m + k - 1]
BY DEF Text

LEMMA Joined ==
  ASSUME NEW t \in Text, NEW u \in Text
  PROVE  /\ t \o u \in Text /\ Len(t \o u) = Len(t) + Len(u)
         /\ \A k \in 1..Len(t) : (t \o u)[k] = t[k]
         /\ \A k \in 1..Len(u) : (t \o u)[Len(t) + k] = u[k]
BY DEF Text

Wrap(c, t, d) == <<c>> \o t \o <<d>>

LEMMA Wrapped ==
  ASSUME NEW c \in Chars, NEW t \in Text, NEW d \in Chars
  PROVE  /\ Wrap(c, t, d) \in Text /\ Len(Wrap(c, t, d)) = Len(t) + 2
         /\ Wrap(c, t, d)[1] = c /\ Wrap(c, t, d)[Len(t) + 2] = d
         /\ \A k \in 1..Len(t) : Wrap(c, t, d)[k + 1] = t[k]
<1>1. <<c>> \in Text /\ <<d>> \in Text /\ Len(<<c>>) = 1 /\ Len(<<d>>) = 1 /\ <<c>>[1] = c /\ <<d>>[1] = d
      /\ Len(t) \in Nat
  BY DEF Text
<1> DEFINE a == <<c>>  b == <<d>>
<1> HIDE DEF a, b
<1>2. a \in Text /\ b \in Text /\ Len(a) = 1 /\ Len(b) = 1 /\ a[1] = c /\ b[1] = d
  BY <1>1 DEF a, b
<1> DEFINE u == a \o t
<1> HIDE DEF u
<1>3. /\ u \in Text /\ Len(u) = Len(a) + Len(t)
      /\ \A k \in 1..Len(a) : u[k] = a[k]
      /\ \A k \in 1..Len(t) : u[Len(a) + k] = t[k]
  BY <1>2, Joined DEF u
<1> DEFINE v == u \o b
<1> HIDE DEF v
<1>4. /\ v \in Text /\ Len(v) = Len(u) + Len(b)
      /\ \A k \in 1..Len(u) : v[k] = u[k]
      /\ \A k \in 1..Len(b) : v[Len(u) + k] = b[k]
  BY <1>2, <1>3, Joined DEF v
<1>5. Len(u) = Len(t) + 1 /\ Len(v) = Len(t) + 2 /\ u[1] = c
  BY <1>1, <1>2, <1>3, <1>4
<1>6. v[1] = c /\ v[Len(t) + 2] = d
  <2>1. 1 \in 1..Len(u) /\ 1 \in 1..Len(b) /\ Len(u) + 1 = Len(t) + 2
    BY <1>1, <1>2, <1>5
  <2> QED BY <1>2, <1>4, <1>5, <2>1
<1>7. ASSUME NEW k \in 1..Len(t) PROVE v[k + 1] = t[k]
  <2>1. k + 1 \in 1..Len(u) /\ Len(a) + k = k + 1
    BY <1>1, <1>2, <1>5
  <2>2. u[k + 1] = t[k]
    BY <1>3, <2>1
  <2> QED BY <1>4, <2>1, <2>2
<1>8. v = Wrap(c, t, d)
  BY DEF v, u, a, b, Wrap
<1> QED BY <1>4, <1>5, <1>6, <1>7, <1>8

LEMMA UntilIs ==
  ASSUME NEW t \in Text, NEW i \in 1..Len(t) + 1, NEW stops
  PROVE  /\ Until(t, i, stops) \in i..Len(t) + 1
         /\ Until(t, i, stops) <= Len(t) => t[Until(t, i, stops)] \in stops
         /\ \A k \in i..Until(t, i, stops) - 1 : k <= Len(t) /\ t[k] \notin stops
<1> DEFINE S == {k \in i..Len(t) : t[k] \in stops} \cup {Len(t) + 1}  u == Min(S)
<1>1. Len(t) \in Nat
  BY DEF Text
<1>2. S \in SUBSET Nat /\ S # {} /\ S \subseteq i..Len(t) + 1
  BY <1>1
<1>3. u \in S /\ \A k \in S : u <= k
  <2> HIDE DEF S
  <2> QED BY <1>2, MinOf
<1>4. u \in i..Len(t) + 1 /\ (u <= Len(t) => t[u] \in stops)
  BY <1>1, <1>2, <1>3
<1>5. ASSUME NEW k \in i..u - 1 PROVE k <= Len(t) /\ t[k] \notin stops
  BY <1>1, <1>3, <1>4
<1>6. Until(t, i, stops) = u
  BY DEF Until
<1> HIDE DEF u
<1> QED BY <1>4, <1>5, <1>6

\* Where a word ends depends on no more of a text than that word.
LEMMA UntilFirst ==
  ASSUME NEW t \in Text, NEW i \in 1..Len(t) + 1, NEW stops, NEW u \in i..Len(t) + 1,
         u <= Len(t) => t[u] \in stops, \A k \in i..u - 1 : t[k] \notin stops
  PROVE  Until(t, i, stops) = u
<1>1. Len(t) \in Nat
  BY DEF Text
<1>2. /\ Until(t, i, stops) \in i..Len(t) + 1
      /\ Until(t, i, stops) <= Len(t) => t[Until(t, i, stops)] \in stops
      /\ \A k \in i..Until(t, i, stops) - 1 : k <= Len(t) /\ t[k] \notin stops
  BY UntilIs
<1>3. ~(Until(t, i, stops) < u)
  BY <1>1, <1>2
<1>4. ~(u < Until(t, i, stops))
  BY <1>1, <1>2
<1> QED BY <1>1, <1>2, <1>3, <1>4

-----------------------------------------------------------------------------
(* Tokens *)

\* What is read of a text: a token with its sigil among those of the field.
TokenSet(t) == [sigil : Sigils, start : 1..Len(t), name : Text, known : BOOLEAN,
                after : 2..Len(t) + 1]

LEMMA NamesIs == ASSUME NEW s \in Seq(Text) PROVE Names(s) \subseteq Text
BY DEF Names

LEMMA KnownIs == ASSUME NEW g PROVE Known(g) \subseteq Text
BY ListsAssumption, NamesIs DEF Known

\* A name that fits is what stands there, and there is a longest.
LEMMA FittingIs ==
  ASSUME NEW t \in Text, NEW i \in 1..Len(t) + 1, NEW names \in SUBSET Text
  PROVE  \A n \in Fitting(t, i, names) :
           /\ n \in names /\ n \in Text /\ Len(n) >= 1 /\ i + Len(n) - 1 <= Len(t)
           /\ \A k \in 1..Len(n) : n[k] = t[i + k - 1]
           /\ i + Len(n) <= Len(t) => Blank(t, i + Len(n))
<1> SUFFICES ASSUME NEW n \in Fitting(t, i, names)
             PROVE  /\ n \in names /\ n \in Text /\ Len(n) >= 1 /\ i + Len(n) - 1 <= Len(t)
                    /\ \A k \in 1..Len(n) : n[k] = t[i + k - 1]
                    /\ i + Len(n) <= Len(t) => Blank(t, i + Len(n))
  OBVIOUS
<1>1. /\ n \in names /\ n \in Text /\ n # <<>> /\ i + Len(n) - 1 <= Len(t)
      /\ n = SubSeq(t, i, i + Len(n) - 1) /\ ~Inner(t, i + Len(n))
  BY DEF Fitting
<1>2. Len(n) \in Nat /\ Len(n) # 0 /\ Len(t) \in Nat
  BY <1>1 DEF Text
<1>3. \A k \in 1..Len(n) : SubSeq(t, i, i + Len(n) - 1)[k] = t[i + k - 1]
  <2>1. Len(SubSeq(t, i, i + Len(n) - 1)) = Len(n)
    BY <1>1
  <2> QED BY <1>1, <1>2, <2>1, Stretch
<1> QED BY <1>1, <1>2, <1>3 DEF Inner

\* What fits is determined by the names and the place alone.
LEMMA FitsWhere ==
  ASSUME NEW t \in Text, NEW i \in 1..Len(t) + 1, NEW names \in SUBSET Text,
         NEW n \in names, Len(n) >= 1, i + Len(n) - 1 <= Len(t),
         \A k \in 1..Len(n) : n[k] = t[i + k - 1],
         i + Len(n) <= Len(t) => Blank(t, i + Len(n))
  PROVE  n \in Fitting(t, i, names)
<1>1. Len(n) \in Nat /\ Len(t) \in Nat /\ n \in Seq(Chars) /\ t \in Seq(Chars) /\ n \in Text
  BY DEF Text
<1> DEFINE s == SubSeq(t, i, i + Len(n) - 1)
<1>2. s \in Text /\ Len(s) = Len(n) /\ \A k \in 1..Len(n) : s[k] = t[i + k - 1]
  BY <1>1, Stretch
<1>3. n = s
  <2>1. s \in Seq(Chars) /\ Len(n) = Len(s) /\ \A k \in 1..Len(n) : n[k] = s[k]
    BY <1>2 DEF Text
  <2> HIDE DEF s
  <2> QED BY <1>1, <2>1, SeqEqual
<1>4. n # <<>>
  BY <1>1
<1> QED BY <1>1, <1>3, <1>4 DEF Fitting, Inner

LEMMA LongestIs ==
  ASSUME NEW t \in Text, NEW i \in 1..Len(t) + 1, NEW names \in SUBSET Text,
         Fitting(t, i, names) # {}
  PROVE  LET n == Longest(Fitting(t, i, names)) IN
         n \in Fitting(t, i, names) /\ \A o \in Fitting(t, i, names) : Len(o) <= Len(n)
<1> DEFINE F == Fitting(t, i, names)  S == {Len(n) : n \in F}
<1>1. \A n \in F : Len(n) \in Nat /\ Len(n) <= Len(t)
  BY FittingIs DEF Text
<1>2. Len(t) \in Nat
  BY DEF Text
<1> HIDE DEF F
<1>3. S \in SUBSET Nat /\ S # {} /\ \A k \in S : k <= Len(t)
  BY <1>1 DEF F
<1>4. PICK m \in S : \A k \in S : k <= m
  <2> HIDE DEF S
  <2> QED BY <1>2, <1>3, GreatestOf
<1>5. \E n \in F : \A o \in F : Len(o) <= Len(n)
  BY <1>4
<1> QED BY <1>5 DEF Longest, F

LEMMA ReadIs ==
  ASSUME NEW t \in Text, NEW i \in 1..Len(t) + 1
  PROVE  \/ ReadName(t, i) = None
         \/ /\ ReadName(t, i) \in [name : Text, quoted : BOOLEAN, after : Nat]
            /\ ReadName(t, i).after \in i + 1..Len(t) + 1
<1>1. Len(t) \in Nat
  BY DEF Text
<1>2. CASE i <= Len(t) /\ t[i] = Mark
  <2>0. i <= Len(t)
    BY <1>2, Zenon
  <2> DEFINE u == Until(t, i + 1, {Mark})
  <2>1. u \in i + 1..Len(t) + 1
    <3>1. i + 1 \in 1..Len(t) + 1
      BY <1>1, <2>0
    <3> QED BY <3>1, UntilIs
  <2>2. ReadName(t, i) = Quoted(t, i + 1, u)
    BY <1>2 DEF ReadName
  <2> HIDE DEF u
  <2>3. CASE u # i + 1
    <3>1. SubSeq(t, i + 1, u - 1) \in Text
      BY <1>1, <2>1, Stretch
    <3>2. Min({u, Len(t)}) \in {u, Len(t)} /\ Min({u, Len(t)}) <= u /\ Min({u, Len(t)}) <= Len(t)
      <4>1. {u, Len(t)} \in SUBSET Nat /\ {u, Len(t)} # {}
        BY <1>1, <2>1
      <4> QED BY <4>1, MinOf
    <3>3. ReadName(t, i) = [name |-> SubSeq(t, i + 1, u - 1), quoted |-> TRUE,
                            after |-> Min({u, Len(t)}) + 1]
      BY <2>2, <2>3 DEF Quoted
    <3>4. Min({u, Len(t)}) + 1 \in i + 1..Len(t) + 1
      BY <1>1, <2>0, <2>1, <3>2
    <3>5. Min({u, Len(t)}) + 1 \in Nat
      BY <1>1, <3>4
    <3> QED BY <3>1, <3>3, <3>4, <3>5
  <2> QED BY <2>2, <2>3 DEF Quoted
<1>3. CASE ~(i <= Len(t) /\ t[i] = Mark)
  <2> DEFINE u == Until(t, i, Sigils \cup {" ", Mark})
  <2>1. u \in i..Len(t) + 1
    BY UntilIs
  <2>2. ReadName(t, i) = Word(t, i, u)
    BY <1>3 DEF ReadName
  <2> HIDE DEF u
  <2>3. CASE u # i
    <3>1. SubSeq(t, i, u - 1) \in Text
      BY <1>1, <2>1, Stretch
    <3> QED BY <1>1, <2>1, <2>2, <2>3, <3>1 DEF Word
  <2> QED BY <2>2, <2>3 DEF Word
<1> QED BY <1>2, <1>3

LEMMA FoundIs ==
  ASSUME NEW t \in Text, NEW i \in 1..Len(t), NEW on \in SUBSET Sigils
  PROVE  \/ Found(t, i, on) = <<>>
         \/ \E k \in TokenSet(t) : /\ Found(t, i, on) = <<k>> /\ k.sigil = t[i] /\ k.start = i
                                   /\ k.after > i /\ k.sigil \in on
<1> SUFFICES ASSUME t[i] \in on, Starts(t, i)
             PROVE  \/ Resolve(t, i, t[i]) = <<>>
                    \/ \E k \in TokenSet(t) : /\ Resolve(t, i, t[i]) = <<k>> /\ k.sigil = t[i]
                                              /\ k.start = i /\ k.after > i
  BY DEF Found
<1> DEFINE g == t[i]  read == ReadName(t, i + 1)  fits == Fitting(t, i + 1, Known(g))
<1>1. Len(t) \in Nat /\ g \in Sigils /\ i + 1 \in 1..Len(t) + 1
  BY DEF Text
<1>2. Resolve(t, i, g) = Resolved(g, i, read, fits)
  BY DEF Resolve
<1>3. \/ read = None
      \/ /\ read \in [name : Text, quoted : BOOLEAN, after : Nat]
         /\ read.after \in i + 2..Len(t) + 1
  BY <1>1, ReadIs
<1>4. fits # {} => /\ Longest(fits) \in Text /\ Len(Longest(fits)) >= 1
                   /\ i + 1 + Len(Longest(fits)) - 1 <= Len(t)
  BY <1>1, LongestIs, FittingIs, KnownIs
<1> HIDE DEF g, read, fits
<1>5. CASE read = None
  BY <1>2, <1>5 DEF Resolved, g
<1>6. CASE read # None /\ (read.quoted \/ fits = {})
  <2> DEFINE k == Token(g, i, read.name, read.quoted /\ read.name \in Known(g), read.after)
  <2>1. Resolve(t, i, g) = <<k>>
    BY <1>2, <1>6 DEF Resolved
  <2>2. read.quoted \in BOOLEAN /\ read.name \in Text /\ read.after \in i + 2..Len(t) + 1
    BY <1>3, <1>6
  <2>3. (read.quoted /\ read.name \in Known(g)) \in BOOLEAN
    BY <2>2
  <2>4. k \in TokenSet(t) /\ k.sigil = g /\ k.start = i /\ k.after > i
    BY <1>1, <2>2, <2>3 DEF Token, TokenSet
  <2> QED BY <2>1, <2>4 DEF g
<1>7. CASE read # None /\ ~read.quoted /\ fits # {}
  <2> DEFINE n == Longest(fits)  k == Existing1(g, i, n)
  <2>1. Resolve(t, i, g) = <<k>>
    BY <1>2, <1>7 DEF Resolved
  <2>2. Len(n) \in Nat /\ n \in Text /\ Len(n) >= 1 /\ i + Len(n) <= Len(t)
    BY <1>1, <1>4, <1>7 DEF Text
  <2> HIDE DEF n
  <2>3. k \in TokenSet(t) /\ k.sigil = g /\ k.start = i /\ k.after > i
    BY <1>1, <2>2 DEF Existing1, Token, TokenSet
  <2> QED BY <2>1, <2>3 DEF g
<1> QED BY <1>5, <1>6, <1>7 DEF g

\* A scan is a recursive function: what it is at a position depends on what it is behind it.
Here(t, on, taken, i)   == Found(t, i, on \ taken)
Onward(t, on, taken, i) == After(Here(t, on, taken, i), i)
Takes(t, on, taken, i)  == taken \cup Only(Here(t, on, taken, i))
Visit(t, on, G, i) ==
  [taken \in SUBSET Sigils |->
     IF i > Len(t) THEN <<>>
     ELSE Here(t, on, taken, i) \o G[Onward(t, on, taken, i)][Takes(t, on, taken, i)]]
Scans(t, on, G) == G = [i \in 1..Len(t) + 1 |-> Visit(t, on, G, i)]
ScanOf(t, on)   == CHOOSE G : Scans(t, on, G)

LEMMA TokensAre ==
  ASSUME NEW t, NEW on
  PROVE  Tokens(t, on) = ScanOf(t, on)[1][{}]
BY DEF Tokens, ScanOf, Scans, Visit, Here, Onward, Takes

LEMMA Ahead ==
  ASSUME NEW t \in Text, NEW on \in SUBSET Sigils, NEW i \in 1..Len(t), NEW taken \in SUBSET Sigils
  PROVE  /\ Onward(t, on, taken, i) \in i + 1..Len(t) + 1
         /\ Takes(t, on, taken, i) \in SUBSET Sigils
         /\ \/ Here(t, on, taken, i) = <<>> /\ Onward(t, on, taken, i) = i + 1
               /\ Takes(t, on, taken, i) = taken
            \/ \E k \in TokenSet(t) :
                 /\ Here(t, on, taken, i) = <<k>> /\ Onward(t, on, taken, i) = k.after
                 /\ Takes(t, on, taken, i) = taken \cup ({k.sigil} \ {"!"})
                 /\ k.sigil \in on \ taken /\ k.sigil = t[i] /\ k.start = i
<1> DEFINE found == Here(t, on, taken, i)
<1>1. Len(t) \in Nat /\ on \ taken \in SUBSET Sigils
  BY DEF Text
<1>2. \/ found = <<>>
      \/ \E k \in TokenSet(t) : /\ found = <<k>> /\ k.sigil = t[i] /\ k.start = i /\ k.after > i
                                /\ k.sigil \in on \ taken
  BY <1>1, FoundIs DEF Here
<1>3. /\ Onward(t, on, taken, i) = After(found, i)
      /\ Takes(t, on, taken, i) = taken \cup Only(found)
  BY DEF Onward, Takes
<1>4. CASE found = <<>>
  <2>1. After(found, i) = i + 1 /\ Only(found) = {}
    BY <1>4 DEF After, Only
  <2> QED BY <1>1, <1>3, <1>4, <2>1
<1>5. ASSUME NEW k \in TokenSet(t), found = <<k>>, k.sigil = t[i], k.start = i, k.after > i,
             k.sigil \in on \ taken
      PROVE  /\ After(found, i) \in i + 1..Len(t) + 1 /\ taken \cup Only(found) \in SUBSET Sigils
             /\ After(found, i) = k.after /\ Only(found) = {k.sigil} \ {"!"}
  <2>1. found[1] = k /\ found # <<>>
    BY <1>5
  <2>2. k.after \in 2..Len(t) + 1 /\ k.sigil \in Sigils
    BY DEF TokenSet
  <2>3. After(found, i) = k.after /\ Only(found) = {k.sigil} \ {"!"}
    BY <2>1 DEF After, Only
  <2> QED BY <1>1, <1>5, <2>2, <2>3
<1> HIDE DEF found
<1>6. CASE \E k \in TokenSet(t) : /\ found = <<k>> /\ k.sigil = t[i] /\ k.start = i /\ k.after > i
                                 /\ k.sigil \in on \ taken
  <2>1. PICK k \in TokenSet(t) : /\ found = <<k>> /\ k.sigil = t[i] /\ k.start = i /\ k.after > i
                                /\ k.sigil \in on \ taken
    BY <1>6
  <2>2. /\ After(found, i) \in i + 1..Len(t) + 1 /\ taken \cup Only(found) \in SUBSET Sigils
        /\ After(found, i) = k.after /\ Only(found) = {k.sigil} \ {"!"}
    BY <1>5, <2>1
  <2> QED BY <1>3, <2>1, <2>2 DEF found
<1> QED BY <1>2, <1>4, <1>6 DEF found

LEMMA HereIs ==
  ASSUME NEW t \in Text, NEW on \in SUBSET Sigils, NEW i \in 1..Len(t), NEW taken \in SUBSET Sigils
  PROVE  /\ Here(t, on, taken, i) \in Seq(TokenSet(t))
         /\ \A k \in 1..Len(Here(t, on, taken, i)) : Here(t, on, taken, i)[k].sigil \in on
<1> DEFINE found == Here(t, on, taken, i)
<1>1. CASE found = <<>>
  BY <1>1
<1>2. CASE found # <<>>
  <2>0. \/ Here(t, on, taken, i) = <<>> /\ Onward(t, on, taken, i) = i + 1
           /\ Takes(t, on, taken, i) = taken
        \/ \E k \in TokenSet(t) :
             /\ Here(t, on, taken, i) = <<k>> /\ Onward(t, on, taken, i) = k.after
             /\ Takes(t, on, taken, i) = taken \cup ({k.sigil} \ {"!"})
             /\ k.sigil \in on \ taken /\ k.sigil = t[i] /\ k.start = i
    BY Ahead
  <2>1. PICK k \in TokenSet(t) : found = <<k>> /\ k.sigil \in on \ taken
    BY <1>2, <2>0
  <2> HIDE DEF found
  <2>2. found \in Seq(TokenSet(t)) /\ \A j \in 1..Len(found) : found[j].sigil \in on
    BY <2>1
  <2> QED BY <2>2 DEF found
<1> QED BY <1>1, <1>2

\* Such a function exists: it is built from the end of the text.
LEMMA ScanExists ==
  ASSUME NEW t \in Text, NEW on \in SUBSET Sigils
  PROVE  Scans(t, on, ScanOf(t, on))
<1> DEFINE end == Len(t) + 1
           Upto(G, m) == /\ G = [i \in 1..end |-> G[i]]
                         /\ \A i \in 1..end : i > end - m => G[i] = Visit(t, on, G, i)
           S == {m \in Nat : m <= end => \E G : Upto(G, m)}
<1>1. end \in Nat /\ end = Len(t) + 1 /\ end - 1 = Len(t)
  BY DEF Text
<1> HIDE DEF end
<1>2. 0 \in S
  <2>1. Upto([i \in 1..end |-> <<>>], 0)
    BY <1>1
  <2> QED BY <2>1
<1>3. ASSUME NEW m \in S PROVE m + 1 \in S
  <2> SUFFICES ASSUME m + 1 <= end PROVE \E G : Upto(G, m + 1)
    OBVIOUS
  <2>1. m \in Nat /\ m <= end
    BY <1>1
  <2>2. PICK G : Upto(G, m)
    BY <2>1
  <2> DEFINE at == end - m  H == [i \in 1..end |-> IF i = at THEN Visit(t, on, G, at) ELSE G[i]]
  <2>3. at \in 1..end
    BY <1>1, <2>1
  <2>4. \A i \in 1..end : H[i] = IF i = at THEN Visit(t, on, G, at) ELSE G[i]
    OBVIOUS
  <2>5. H = [i \in 1..end |-> H[i]]
    OBVIOUS
  <2> HIDE DEF H
  <2>6. ASSUME NEW i \in 1..end, i >= at PROVE Visit(t, on, H, i) = Visit(t, on, G, i)
    <3>1. ASSUME NEW taken \in SUBSET Sigils, i <= Len(t)
          PROVE  H[Onward(t, on, taken, i)] = G[Onward(t, on, taken, i)]
      <4>1. i \in 1..Len(t)
        BY <1>1, <3>1
      <4>2. Onward(t, on, taken, i) \in i + 1..Len(t) + 1
        BY <4>1, Ahead
      <4> DEFINE next == Onward(t, on, taken, i)
      <4>3. next \in 1..end /\ next # at
        <5> HIDE DEF next
        <5>1. next \in i + 1..Len(t) + 1
          BY <4>2 DEF next
        <5> QED BY <1>1, <2>3, <2>6, <4>1, <5>1
      <4> HIDE DEF next
      <4>4. H[next] = G[next]
        BY <2>4, <4>3
      <4> QED BY <4>4 DEF next
    <3>2. i > Len(t) \/ i <= Len(t)
      BY <1>1
    <3> QED BY <3>1, <3>2 DEF Visit
  <2>7. ASSUME NEW i \in 1..end, i > end - (m + 1) PROVE H[i] = Visit(t, on, H, i)
    <3>1. i >= at
      BY <1>1, <2>1, <2>7
    <3>2. H[i] = Visit(t, on, G, i)
      <4>1. CASE i = at
        BY <2>4, <4>1
      <4>2. CASE i # at
        <5>1. i > end - m
          BY <1>1, <2>1, <3>1, <4>2
        <5> QED BY <2>2, <2>4, <4>2, <5>1
      <4> QED BY <4>1, <4>2
    <3> QED BY <2>6, <3>1, <3>2
  <2>8. Upto(H, m + 1)
    BY <2>5, <2>7
  <2> QED BY <2>8
<1>4. S = Nat
  <2> HIDE DEF S
  <2>1. S \in SUBSET Nat
    BY DEF S
  <2> QED BY <1>2, <1>3, <2>1, Upwards
<1>5. PICK G : Upto(G, end)
  BY <1>1, <1>4
<1>6. \A i \in 1..end : G[i] = Visit(t, on, G, i)
  BY <1>1, <1>5
<1>7. Scans(t, on, G)
  BY <1>1, <1>5, <1>6 DEF Scans
<1> QED BY <1>7 DEF ScanOf

\* The tokens from a position on.
LEMMA ScanStep ==
  ASSUME NEW t \in Text, NEW on \in SUBSET Sigils,
         NEW i \in 1..Len(t) + 1, NEW taken \in SUBSET Sigils
  PROVE  ScanOf(t, on)[i][taken] =
           IF i > Len(t) THEN <<>>
           ELSE Here(t, on, taken, i)
                \o ScanOf(t, on)[Onward(t, on, taken, i)][Takes(t, on, taken, i)]
<1>1. ScanOf(t, on) = [j \in 1..Len(t) + 1 |-> Visit(t, on, ScanOf(t, on), j)]
  BY ScanExists DEF Scans
<1> DEFINE G == ScanOf(t, on)
<1>2. G[i] = Visit(t, on, G, i)
  <2> HIDE DEF G
  <2>1. G = [j \in 1..Len(t) + 1 |-> Visit(t, on, G, j)]
    BY <1>1 DEF G
  <2> QED BY <2>1
<1> QED BY <1>2 DEF Visit

LEMMA ScanIs ==
  ASSUME NEW t \in Text, NEW on \in SUBSET Sigils
  PROVE  \A i \in 1..Len(t) + 1, taken \in SUBSET Sigils :
           /\ ScanOf(t, on)[i][taken] \in Seq(TokenSet(t))
           /\ \A k \in 1..Len(ScanOf(t, on)[i][taken]) : ScanOf(t, on)[i][taken][k].sigil \in on
<1> DEFINE G == ScanOf(t, on)
           Good(s) == s \in Seq(TokenSet(t)) /\ \A k \in 1..Len(s) : s[k].sigil \in on
           S == {m \in Nat : \A i \in 1..Len(t) + 1 : i + m >= Len(t) + 1 =>
                               \A taken \in SUBSET Sigils : Good(G[i][taken])}
<1>1. Len(t) \in Nat
  BY DEF Text
<1>2. 0 \in S
  <2> SUFFICES ASSUME NEW i \in 1..Len(t) + 1, i >= Len(t) + 1, NEW taken \in SUBSET Sigils
               PROVE  Good(G[i][taken])
    BY <1>1
  <2>1. G[i][taken] = <<>>
    BY <1>1, ScanStep
  <2> QED BY <2>1
<1>3. ASSUME NEW m \in S PROVE m + 1 \in S
  <2> SUFFICES ASSUME NEW i \in 1..Len(t) + 1, i + (m + 1) >= Len(t) + 1, NEW taken \in SUBSET Sigils
               PROVE  Good(G[i][taken])
    BY <1>1
  <2>1. CASE i > Len(t)
    <3>1. G[i][taken] = <<>>
      BY <2>1, ScanStep
    <3> QED BY <3>1
  <2>2. CASE i <= Len(t)
    <3> DEFINE found == Here(t, on, taken, i)  next == Onward(t, on, taken, i)
               more == Takes(t, on, taken, i)
    <3>0. i \in 1..Len(t)
      BY <1>1, <2>2
    <3>1. G[i][taken] = found \o G[next][more]
      <4>1. ~(i > Len(t))
        BY <1>1, <2>2
      <4>2. ScanOf(t, on)[i][taken] =
              IF i > Len(t) THEN <<>>
              ELSE Here(t, on, taken, i)
                   \o ScanOf(t, on)[Onward(t, on, taken, i)][Takes(t, on, taken, i)]
        BY ScanStep
      <4> QED BY <4>1, <4>2
    <3>2. next \in i + 1..Len(t) + 1 /\ more \in SUBSET Sigils
      BY <3>0, Ahead
    <3>3. found \in Seq(TokenSet(t)) /\ \A k \in 1..Len(found) : found[k].sigil \in on
      BY <3>0, HereIs
    <3>4. Good(G[next][more])
      <4>1. next \in 1..Len(t) + 1 /\ next + m >= Len(t) + 1
        BY <1>1, <3>0, <3>2
      <4> HIDE DEF found, next, more, G, Good
      <4> QED BY <3>2, <4>1
    <3> HIDE DEF found, next, more, G
    <3>5. found \o G[next][more] \in Seq(TokenSet(t))
      BY <3>3, <3>4
    <3>6. \A k \in 1..Len(found \o G[next][more]) : (found \o G[next][more])[k].sigil \in on
      BY <3>3, <3>4
    <3> QED BY <3>1, <3>5, <3>6
  <2> QED BY <1>1, <2>1, <2>2
<1>4. S = Nat
  <2> HIDE DEF S
  <2>1. S \in SUBSET Nat
    BY DEF S
  <2> QED BY <1>2, <1>3, <2>1, Upwards
<1>5. Len(t) + 1 \in S
  BY <1>1, <1>4
<1> HIDE DEF G
<1>6. \A i \in 1..Len(t) + 1, taken \in SUBSET Sigils : Good(G[i][taken])
  BY <1>1, <1>5
<1> QED BY <1>6 DEF G

LEMMA TokensTyped ==
  ASSUME NEW t \in Text, NEW on \in SUBSET Sigils
  PROVE  /\ Tokens(t, on) \in Seq(TokenSet(t))
         /\ \A k \in 1..Len(Tokens(t, on)) : Tokens(t, on)[k].sigil \in on
<1>1. 1 \in 1..Len(t) + 1 /\ {} \in SUBSET Sigils
  BY DEF Text
<1> QED BY <1>1, ScanIs, TokensAre

\* A field that reads no sigils has no tokens.
LEMMA NoTokens ==
  ASSUME NEW t \in Text
  PROVE  Tokens(t, {}) = <<>>
<1>1. Tokens(t, {}) \in Seq(TokenSet(t)) /\ \A k \in 1..Len(Tokens(t, {})) : FALSE
  BY TokensTyped
<1> QED BY <1>1

-----------------------------------------------------------------------------
(* What is left of a text *)

Leaves(t, free, G, i) ==
  IF i = 0 THEN <<>>
  ELSE IF i \notin free \/ (Blank(t, i) /\ (G[i-1] = <<>> \/ Last(G[i-1]) = " "))
       THEN G[i-1]
       ELSE Append(G[i-1], t[i])
Lefts(t, free, G) == G = [i \in 0..Len(t) |-> Leaves(t, free, G, i)]
LeftOf(t, free)   == CHOOSE G : Lefts(t, free, G)

LEMMA CollapseIs ==
  ASSUME NEW t, NEW free
  PROVE  Collapse(t, free) = LeftOf(t, free)[Len(t)]
BY DEF Collapse, LeftOf, Lefts, Leaves

LEMMA LeftExists ==
  ASSUME NEW t \in Text, NEW free
  PROVE  Lefts(t, free, LeftOf(t, free))
<1> DEFINE end == Len(t)
           Upto(G, m) == /\ G = [i \in 0..end |-> G[i]]
                         /\ \A i \in 0..end : i <= m => G[i] = Leaves(t, free, G, i)
           S == {m \in Nat : m <= end => \E G : Upto(G, m)}
<1>1. end \in Nat
  BY DEF Text
<1> HIDE DEF end
<1>2. 0 \in S
  <2> DEFINE G == [i \in 0..end |-> <<>>]
  <2>1. G = [i \in 0..end |-> G[i]]
    OBVIOUS
  <2>2. ASSUME NEW i \in 0..end, i <= 0 PROVE G[i] = Leaves(t, free, G, i)
    <3>1. i = 0 /\ G[i] = <<>>
      BY <1>1, <2>2
    <3> HIDE DEF G
    <3> QED BY <3>1 DEF Leaves
  <2>3. Upto(G, 0)
    BY <2>1, <2>2
  <2> QED BY <2>3
<1>3. ASSUME NEW m \in S PROVE m + 1 \in S
  <2> SUFFICES ASSUME m + 1 <= end PROVE \E G : Upto(G, m + 1)
    OBVIOUS
  <2>1. m \in Nat /\ m <= end
    BY <1>1
  <2>2. PICK G : Upto(G, m)
    BY <2>1
  <2> DEFINE at == m + 1  H == [i \in 0..end |-> IF i = at THEN Leaves(t, free, G, at) ELSE G[i]]
  <2>3. at \in 1..end
    BY <1>1, <2>1
  <2>4. \A i \in 0..end : H[i] = IF i = at THEN Leaves(t, free, G, at) ELSE G[i]
    OBVIOUS
  <2>5. H = [i \in 0..end |-> H[i]]
    OBVIOUS
  <2> HIDE DEF H
  <2>6. ASSUME NEW i \in 0..end, i <= at PROVE Leaves(t, free, H, i) = Leaves(t, free, G, i)
    <3>1. CASE i = 0
      BY <3>1 DEF Leaves
    <3>2. CASE i # 0
      <4>1. i - 1 \in 0..end /\ i - 1 # at
        BY <1>1, <2>3, <2>6, <3>2
      <4>2. H[i - 1] = G[i - 1]
        BY <2>4, <4>1
      <4> QED BY <4>2 DEF Leaves
    <3> QED BY <3>1, <3>2
  <2>7. ASSUME NEW i \in 0..end, i <= m + 1 PROVE H[i] = Leaves(t, free, H, i)
    <3>1. H[i] = Leaves(t, free, G, i)
      <4>1. CASE i = at
        BY <2>4, <4>1
      <4>2. CASE i # at
        <5>1. i <= m
          BY <2>1, <2>7, <4>2
        <5> QED BY <2>2, <2>4, <4>2, <5>1
      <4> QED BY <4>1, <4>2
    <3> QED BY <2>6, <2>7, <3>1
  <2>8. Upto(H, m + 1)
    BY <2>5, <2>7
  <2> QED BY <2>8
<1>4. S = Nat
  <2> HIDE DEF S
  <2>1. S \in SUBSET Nat
    BY DEF S
  <2> QED BY <1>2, <1>3, <2>1, Upwards
<1>5. PICK G : Upto(G, end)
  BY <1>1, <1>4
<1>6. \A i \in 0..end : G[i] = Leaves(t, free, G, i)
  BY <1>1, <1>5
<1>7. Lefts(t, free, G)
  BY <1>1, <1>5, <1>6 DEF Lefts, end
<1> QED BY <1>7 DEF LeftOf

LEMMA LeftStep ==
  ASSUME NEW t \in Text, NEW free, NEW i \in 0..Len(t)
  PROVE  LeftOf(t, free)[i] = Leaves(t, free, LeftOf(t, free), i)
<1> DEFINE G == LeftOf(t, free)
<1>1. G = [j \in 0..Len(t) |-> Leaves(t, free, G, j)]
  BY LeftExists DEF Lefts
<1> HIDE DEF G
<1>2. G[i] = Leaves(t, free, G, i)
  BY <1>1
<1> QED BY <1>2 DEF G

LEMMA CollapseTyped ==
  ASSUME NEW t \in Text, NEW free
  PROVE  Collapse(t, free) \in Text
<1> DEFINE G == LeftOf(t, free)  S == {m \in Nat : m <= Len(t) => G[m] \in Text}
<1>1. Len(t) \in Nat
  BY DEF Text
<1>2. 0 \in S
  <2>1. G[0] = Leaves(t, free, G, 0)
    BY <1>1, LeftStep
  <2> HIDE DEF G
  <2>2. G[0] = <<>>
    BY <2>1 DEF Leaves
  <2>3. <<>> \in Text
    BY DEF Text
  <2> QED BY <2>2, <2>3
<1>3. ASSUME NEW m \in S PROVE m + 1 \in S
  <2> SUFFICES ASSUME m + 1 <= Len(t) PROVE G[m + 1] \in Text
    OBVIOUS
  <2>1. m \in Nat /\ m <= Len(t) /\ m + 1 \in 0..Len(t) /\ m + 1 # 0 /\ (m + 1) - 1 = m
    BY <1>1
  <2>2. G[m] \in Text
    BY <2>1
  <2>3. G[m + 1] = Leaves(t, free, G, m + 1)
    BY <2>1, LeftStep
  <2> HIDE DEF G
  <2>4. G[m + 1] \in {G[m], Append(G[m], t[m + 1])}
    BY <2>1, <2>3 DEF Leaves
  <2>5. t[m + 1] \in Chars
    BY <1>1, <2>1 DEF Text
  <2>6. Append(G[m], t[m + 1]) \in Text
    BY <2>2, <2>5 DEF Text
  <2> QED BY <2>2, <2>4, <2>6
<1>4. S = Nat
  <2> HIDE DEF S
  <2>1. S \in SUBSET Nat
    BY DEF S
  <2> QED BY <1>2, <1>3, <2>1, Upwards
<1>5. G[Len(t)] \in Text
  BY <1>1, <1>4
<1> QED BY <1>5, CollapseIs

LEMMA TrimmedTyped ==
  ASSUME NEW q \in Text
  PROVE  Trimmed(q) \in Text
<1> DEFINE ink == {k \in 1..Len(q) : ~Blank(q, k)}
<1>1. Len(q) \in Nat
  BY DEF Text
<1>2. CASE ink = {}
  BY <1>2 DEF Trimmed, Text
<1>3. CASE ink # {}
  <2>1. ink \in SUBSET Nat /\ \A k \in ink : k <= Len(q) /\ k >= 1
    BY <1>1
  <2>2. Trimmed(q) = SubSeq(q, Min(ink), Max(ink))
    BY <1>3 DEF Trimmed
  <2> HIDE DEF ink
  <2>3. Min(ink) \in ink /\ Max(ink) \in ink
    BY <1>1, <1>3, <2>1, MinOf, MaxOf
  <2>4. Min(ink) \in Nat \ {0} /\ Max(ink) \in Int /\ Max(ink) <= Len(q)
    <3> DEFINE a == Min(ink)  b == Max(ink)
    <3>1. a \in Nat /\ a >= 1 /\ b \in Nat /\ b <= Len(q)
      <4> HIDE DEF a, b
      <4>1. a \in ink /\ b \in ink
        BY <2>3 DEF a, b
      <4> QED BY <2>1, <4>1
    <3> HIDE DEF a, b
    <3>2. a \in Nat \ {0} /\ b \in Int /\ b <= Len(q)
      BY <3>1
    <3> QED BY <3>2 DEF a, b
  <2> QED BY <2>2, <2>4, Stretch
<1> QED BY <1>2, <1>3

\* A plain name has no blanks to trim.
LEMMA TrimmedPlain ==
  ASSUME NEW q \in Text, Plain(q)
  PROVE  Trimmed(q) = q
<1> DEFINE ink == {k \in 1..Len(q) : ~Blank(q, k)}
<1>1. Len(q) \in Nat /\ Len(q) > 0 /\ q \in Seq(Chars)
  BY DEF Text, Plain
<1>2. 1 \in ink /\ Len(q) \in ink
  BY <1>1 DEF Plain
<1>3. ink \in SUBSET Nat /\ \A k \in ink : 1 <= k /\ k <= Len(q)
  BY <1>1
<1>4. Trimmed(q) = SubSeq(q, Min(ink), Max(ink))
  BY <1>2 DEF Trimmed
<1> HIDE DEF ink
<1>5. Min(ink) = 1
  <2>1. Min(ink) \in ink /\ Min(ink) <= 1
    BY <1>2, <1>3, MinOf
  <2> DEFINE a == Min(ink)
  <2> HIDE DEF a
  <2>2. a \in ink /\ a <= 1
    BY <2>1 DEF a
  <2>3. a = 1
    BY <1>3, <2>2
  <2> QED BY <2>3 DEF a
<1>6. Max(ink) = Len(q)
  <2>1. Max(ink) \in ink /\ Len(q) <= Max(ink)
    BY <1>1, <1>2, <1>3, MaxOf
  <2> DEFINE b == Max(ink)
  <2> HIDE DEF b
  <2>2. b \in ink /\ Len(q) <= b
    BY <2>1 DEF b
  <2>3. b = Len(q)
    BY <1>1, <1>3, <2>2
  <2> QED BY <2>3 DEF b
<1>7. SubSeq(q, 1, Len(q)) = q
  BY <1>1
<1> QED BY <1>4, <1>5, <1>6, <1>7

\* What a name and tags are stored as.
LEMMA NameOfTyped == ASSUME NEW q \in Text, NEW f PROVE NameOf(q, f) \in Text
<1>1. Trimmed(q) \in Text
  BY TrimmedTyped
<1>2. ASSUME NEW t \in Text, NEW g PROVE Bared(t, g) \in Text
  BY DEF Bared, Text
<1> QED BY <1>1, <1>2 DEF NameOf

LEMMA NameOfPlain == ASSUME NEW q \in Text, Plain(q), NEW f PROVE NameOf(q, f) = q
<1>1. Trimmed(q) = q
  BY TrimmedPlain
<1>2. q[1] # "@" /\ q[1] # "#"
  BY DEF Plain, Sigils
<1> QED BY <1>1, <1>2 DEF NameOf, Bared

LEMMA TagNamesTyped == ASSUME NEW ts \in SUBSET Text PROVE TagNames(ts) \in SUBSET Text
BY TrimmedTyped DEF TagNames

LEMMA TagNamesPlain ==
  ASSUME NEW ts \in SUBSET Text, \A t \in ts : Plain(t)
  PROVE  TagNames(ts) = ts
<1>1. \A t \in ts : Trimmed(t) = t /\ t # <<>>
  <2>1. ASSUME NEW t \in ts PROVE Trimmed(t) = t /\ t # <<>>
    <3>1. t \in Text /\ Plain(t) /\ Len(t) > 0
      BY DEF Plain
    <3> QED BY <3>1, TrimmedPlain
  <2> QED BY <2>1
<1> QED BY <1>1 DEF TagNames

LEMMA DescriptionTyped ==
  ASSUME NEW t \in Text, NEW tokens
  PROVE  Description(t, tokens) \in Text
BY CollapseTyped, TrimmedTyped DEF Description

\* The names that are read.
LEMMA FirstIs ==
  ASSUME NEW t \in Text, NEW tokens \in Seq(TokenSet(t)), NEW g
  PROVE  First(tokens, g) = None \/ First(tokens, g) \in TokenSet(t)
<1> DEFINE its == {k \in 1..Len(tokens) : tokens[k].sigil = g}
<1>1. CASE its = {}
  BY <1>1 DEF First
<1>2. CASE its # {}
  <2>1. its \in SUBSET Nat
    OBVIOUS
  <2>2. First(tokens, g) = tokens[Min(its)]
    BY <1>2 DEF First
  <2>3. Min(its) \in its
    <3> HIDE DEF its
    <3> QED BY <1>2, <2>1, MinOf
  <2>4. tokens[Min(its)] \in TokenSet(t)
    BY <2>3
  <2> QED BY <2>2, <2>4
<1> QED BY <1>1, <1>2

LEMMA TagsTyped ==
  ASSUME NEW t \in Text, NEW tokens \in Seq(TokenSet(t))
  PROVE  TagsOf(tokens) \in SUBSET Text
<1>1. \A k \in 1..Len(tokens) : tokens[k].name \in Text
  <2>1. \A k \in 1..Len(tokens) : tokens[k] \in TokenSet(t)
    OBVIOUS
  <2> QED BY <2>1 DEF TokenSet
<1> QED BY <1>1 DEF TagsOf

LEMMA NoTokensFirst == \A g : First(<<>>, g) = None
BY DEF First

-----------------------------------------------------------------------------
(* Items and fields *)

Name    == Text \cup {None}
Picks   == [context : Name, newContext : Name, newProject : Name, project : Name \cup {Unset}]
Entries == {None} \cup [field : Dates, day : Day]

\* A show-from that is not later than the due date.
InTime(c) == c.due # None /\ c.showFrom # None => c.showFrom <= c.due

LEMMA NameOfList == Names(Contexts) \subseteq Text /\ Names(Projects) \subseteq Text /\ Contexts[1] \in Text
<1>1. Contexts \in Seq(Text) /\ Projects \in Seq(Text) /\ Len(Contexts) > 0
  BY ListsAssumption, NamesAssumption
<1> QED BY <1>1, NamesIs

LEMMA NoItemTyped == NoItem \in Item /\ Sound(NoItem)
<1>1. <<>> \in Text
  BY DEF Text
<1> QED BY <1>1 DEF NoItem, Item, Sound, Fields, Day

LEMMA PicksTyped ==
  ASSUME NEW item \in Item
  PROVE  PicksOf(item) \in Picks /\ PicksOf(item).newContext = None /\ PicksOf(item).newProject = None
BY DEF PicksOf, Picks, Item, Name

LEMMA CtlTyped ==
  ASSUME NEW item \in Item
  PROVE  /\ CtlOf(item) \in Fillings
         /\ CtlOf(item).due = item.due /\ CtlOf(item).showFrom = item.showFrom
BY DEF CtlOf, Fillings, Item, Fields

LEMMA OpeningTyped ==
  ASSUME NEW item \in Item
  PROVE  /\ Opening(item) \in Item /\ Opening(item).due = item.due
         /\ Opening(item).context = item.context /\ Opening(item).project = item.project
<1>1. Description(item.description, <<>>) \in Text
  BY DescriptionTyped DEF Item
<1>2. CtlOf(item) \in Fillings /\ CtlOf(item).due = item.due
  BY CtlTyped
<1> HIDE DEF CtlOf
<1> QED BY <1>1, <1>2 DEF Opening, Item, Fields, Fillings

\* The dates of a form, whichever of them is set.
LEMMA ClampedIs ==
  ASSUME NEW due \in Day, NEW showFrom \in Day
  PROVE  /\ Clamped(due, showFrom) \in Day
         /\ due # None /\ Clamped(due, showFrom) # None => Clamped(due, showFrom) <= due
         /\ Clamped(due, showFrom) = None <=> showFrom = None
         /\ (due = None \/ showFrom = None \/ showFrom <= due) => Clamped(due, showFrom) = showFrom
BY MarkersAssumption DEF Clamped, Day

LEMMA SetDateIs ==
  ASSUME ctl \in Fillings, InTime(ctl), NEW f \in Dates, NEW d \in Day
  PROVE  /\ SetDate(f, d) \in Fillings /\ InTime(SetDate(f, d))
         /\ SetDate(f, d).due = None /\ SetDate(f, d).showFrom # None =>
              \/ ctl.due = None /\ ctl.showFrom # None
              \/ f = "showFrom" /\ ctl.due = None
<1>1. /\ ctl.due \in Day /\ ctl.showFrom \in Day /\ ctl.tags \in SUBSET Text
      /\ ctl.period \in {"weekly", "monthly"} /\ ctl.weekdays \in SUBSET Int
      /\ ctl.startFrom \in Day /\ ctl.endDate \in Day
      /\ ctl = [tags |-> ctl.tags, due |-> ctl.due, showFrom |-> ctl.showFrom, period |-> ctl.period,
                weekdays |-> ctl.weekdays, startFrom |-> ctl.startFrom, endDate |-> ctl.endDate]
  BY DEF Fillings
<1>2. None \notin Int /\ Lead \in Nat /\ None \in Day
  BY MarkersAssumption, DaysAssumption DEF Day
<1>3. CASE f \in {"startFrom", "endDate"}
  <2>1. SetDate(f, d) = [ctl EXCEPT ![f] = d]
    BY <1>3 DEF SetDate
  <2>2. [ctl EXCEPT ![f] = d] \in Fillings
    <3>1. CASE f = "startFrom"
      BY <1>1, <3>1 DEF Fillings
    <3>2. CASE f = "endDate"
      BY <1>1, <3>2 DEF Fillings
    <3> QED BY <1>3, <3>1, <3>2
  <2>3. SetDate(f, d).due = ctl.due /\ SetDate(f, d).showFrom = ctl.showFrom
    BY <1>1, <1>3, <2>1 DEF Fillings
  <2> QED BY <2>1, <2>2, <2>3 DEF InTime
<1>4. CASE f = "showFrom"
  <2>1. SetDate(f, d) = [ctl EXCEPT !.showFrom = Clamped(ctl.due, d)]
    BY <1>4 DEF SetDate
  <2>2. /\ Clamped(ctl.due, d) \in Day
        /\ ctl.due # None /\ Clamped(ctl.due, d) # None => Clamped(ctl.due, d) <= ctl.due
    BY <1>1, ClampedIs
  <2> HIDE DEF Clamped
  <2>3. SetDate(f, d) \in Fillings
    BY <1>1, <2>1, <2>2 DEF Fillings
  <2>4. SetDate(f, d).due = ctl.due /\ SetDate(f, d).showFrom = Clamped(ctl.due, d)
    BY <1>1, <2>1 DEF Fillings
  <2> QED BY <1>4, <2>2, <2>3, <2>4 DEF InTime
<1>5. CASE f = "due" /\ d = None
  <2>1. SetDate(f, d) = [ctl EXCEPT !.due = None, !.showFrom = None]
    BY <1>5 DEF SetDate
  <2>2. SetDate(f, d) \in Fillings /\ SetDate(f, d).due = None /\ SetDate(f, d).showFrom = None
    BY <1>1, <1>2, <2>1 DEF Fillings
  <2> QED BY <2>2 DEF InTime
<1>6. CASE f = "due" /\ d # None
  <2> DEFINE s == IF ctl.showFrom # None THEN Shifted(ctl.due, d, ctl.showFrom)
                  ELSE d - (IF loaded THEN Lead ELSE 0)
  <2>1. SetDate(f, d) = [ctl EXCEPT !.due = d, !.showFrom = Clamped(d, s)]
    BY <1>1, <1>6 DEF SetDate
  <2>2. s \in Day /\ d \in Int
    <3>1. d \in Int /\ d \in Day
      BY <1>6 DEF Day
    <3>2. CASE ctl.showFrom # None
      <4>1. ctl.showFrom \in Int
        BY <1>1, <3>2 DEF Day
      <4>2. ctl.due = None \/ ctl.due \in Int
        BY <1>1 DEF Day
      <4> QED BY <3>1, <3>2, <4>1, <4>2 DEF Shifted, Day
    <3>3. CASE ctl.showFrom = None
      BY <1>2, <3>1, <3>3 DEF Day
    <3> QED BY <3>1, <3>2, <3>3
  <2> HIDE DEF s
  <2>3. Clamped(d, s) \in Day /\ (Clamped(d, s) # None => Clamped(d, s) <= d)
    BY <1>6, <2>2, ClampedIs
  <2> HIDE DEF Clamped
  <2>4. SetDate(f, d) \in Fillings /\ SetDate(f, d).due = d /\ SetDate(f, d).showFrom = Clamped(d, s)
    BY <1>1, <2>1, <2>3 DEF Fillings
  <2> QED BY <1>6, <2>3, <2>4 DEF InTime
<1> QED BY <1>3, <1>4, <1>5, <1>6 DEF Dates

\* What the server makes of an item.
LEMMA DatedIs ==
  ASSUME NEW item \in Item
  PROVE  /\ Dated(item) \in Item /\ Sound(Dated(item))
         /\ \A f \in Fields \ {"showFrom"} : Dated(item)[f] = item[f]
         /\ Dated(item).showFrom =
              Clamped(item.due, IF item.due # None /\ item.showFrom = None
                                THEN item.due - Lead ELSE item.showFrom)
<1> DEFINE s == IF item.due # None /\ item.showFrom = None THEN item.due - Lead ELSE item.showFrom
<1>1. Dated(item) = [item EXCEPT !.showFrom = Clamped(item.due, s)]
  BY DEF Dated, Item
<1>2. item.due \in Day /\ s \in Day /\ (item.due # None => s # None /\ item.due \in Int)
  BY MarkersAssumption, DaysAssumption DEF Item, Day
<1> HIDE DEF s
<1>3. /\ Clamped(item.due, s) \in Day /\ (item.due # None => Clamped(item.due, s) # None)
      /\ item.due # None /\ Clamped(item.due, s) # None => Clamped(item.due, s) <= item.due
  BY <1>2, ClampedIs
<1> HIDE DEF Clamped
<1>4. Dated(item) \in Item /\ Dated(item).due = item.due /\ Dated(item).showFrom = Clamped(item.due, s)
  BY <1>1, <1>3 DEF Item
<1>5. \A f \in Fields \ {"showFrom"} : Dated(item)[f] = item[f]
  BY <1>1 DEF Item, Fields
<1>6. Sound(Dated(item))
  BY <1>3, <1>4 DEF Sound
<1> QED BY <1>4, <1>5, <1>6 DEF s

LEMMA PutIs ==
  ASSUME NEW item \in Item, NEW req, NEW shown \in Item, DOMAIN req \subseteq Fields,
         \A f \in DOMAIN req : req[f] = shown[f]
  PROVE  /\ Put(item, req) \in Item
         /\ \A f \in Fields : Put(item, req)[f] = IF f \in DOMAIN req THEN shown[f] ELSE item[f]
<1> DEFINE p == Put(item, req)
<1>1. p = [f \in Fields |-> IF f \in DOMAIN req THEN req[f] ELSE item[f]]
  BY DEF Put
<1> HIDE DEF p
<1>2. \A f \in Fields : p[f] = IF f \in DOMAIN req THEN shown[f] ELSE item[f]
  BY <1>1
<1>3. \A f \in Fields : p[f] \in {shown[f], item[f]}
  BY <1>2
<1>4. p = [f \in Fields |-> p[f]]
  BY <1>1
<1>5. p \in Item
  <2>1. /\ shown.description \in Text /\ shown.context \in Name /\ shown.project \in Name
        /\ shown.tags \in SUBSET Text /\ shown.due \in Day /\ shown.showFrom \in Day
        /\ shown.period \in {"weekly", "monthly"} /\ shown.weekdays \in SUBSET Int
        /\ shown.startFrom \in Day /\ shown.endDate \in Day
    BY DEF Item, Name
  <2>2. /\ item.description \in Text /\ item.context \in Name /\ item.project \in Name
        /\ item.tags \in SUBSET Text /\ item.due \in Day /\ item.showFrom \in Day
        /\ item.period \in {"weekly", "monthly"} /\ item.weekdays \in SUBSET Int
        /\ item.startFrom \in Day /\ item.endDate \in Day
    BY DEF Item, Name
  <2>3. /\ p.description \in Text /\ p.context \in Name /\ p.project \in Name
        /\ p.tags \in SUBSET Text /\ p.due \in Day /\ p.showFrom \in Day
        /\ p.period \in {"weekly", "monthly"} /\ p.weekdays \in SUBSET Int
        /\ p.startFrom \in Day /\ p.endDate \in Day
    BY <1>3, <2>1, <2>2 DEF Fields
  <2> QED BY <1>4, <2>3 DEF Item, Name, Fields
<1> QED BY <1>2, <1>5 DEF p

-----------------------------------------------------------------------------
(* The invariant *)

\* What an edited action is shown with: a show-from without a due date was so from the
\* start, and a name that is made is not the one the item had.
Marked ==
  /\ kind \in {"edit", "defer"} =>
       /\ entry # None /\ entry.field = "showFrom" => ctl.due # None
       /\ ctl.due = None /\ ctl.showFrom # None => opened.due = None
  /\ Editing => /\ picks.newContext # None => picks.newContext # opened.context
                /\ picks.newProject # None => picks.newProject # opened.project

\* A save under way: what it sends is what was shown, and what it leaves out is as it was.
Saved(w) == w \in [n : Nat, req : {w.req}, made : {w.made}, pc : {"sent", "ok", "failed"}, heard : BOOLEAN,
                   shown : Item, opened : Item, base : Item]
Asked(w) ==
  /\ DOMAIN w.req \subseteq Parts /\ \A f \in DOMAIN w.req : w.req[f] = w.shown[f]
  /\ \A f \in w.made : f \in {"context", "project"} /\ w.shown[f] \in Text
  /\ InTime(w.shown)
  /\ kind \in {"edit", "defer"} =>
       /\ \A f \in Parts : f \notin DOMAIN w.req => w.shown[f] = w.base[f]
       /\ \A f \in DOMAIN w.req : \/ w.shown[f] # w.base[f]
                                  \/ f \in {"context", "project"} /\ w.shown[f] # w.opened[f]
       /\ \A f \in w.made : w.shown[f] # w.opened[f]
       /\ w.shown.due = None /\ w.shown.showFrom # None => w.opened.due = None
  /\ kind \notin {"edit", "defer"} =>
       \A f \in Parts : f \notin DOMAIN w.req => f = "weekdays" /\ w.shown.period # "weekly"

WorldOK  == /\ kind \in Kinds /\ loaded \in BOOLEAN /\ remembered \in Names(Contexts) \cup {None}
            /\ todo \in Item /\ Sound(todo)
FormOK   == /\ open \in BOOLEAN /\ text \in Text /\ picks \in Picks /\ ctl \in Fillings /\ InTime(ctl)
            /\ entry \in Entries /\ opened \in Item /\ Marked
LineOK   == menu \in BOOLEAN /\ caret \in 0..(IF kind = "line" THEN Len(text) ELSE 0)
ServerOK == /\ stored \in Item /\ Sound(stored) /\ saves \in 0..(IF Editing THEN MaxEdits ELSE MaxAdds)
            /\ \A w \in sent : Saved(w) /\ Asked(w) /\ w.n \in 1..saves /\ kind # "line"
            /\ \A v, w \in sent : v.n = w.n => v = w
MovesOK  == moves \in 0..MaxMoves

IInv == WorldOK /\ FormOK /\ LineOK /\ ServerOK /\ MovesOK

LEMMA Typed == IInv => TypeOK
BY DEF IInv, WorldOK, FormOK, LineOK, ServerOK, MovesOK, TypeOK, InTime

LEMMA Initially == Init => IInv
<1> SUFFICES ASSUME Init PROVE IInv
  OBVIOUS
<1>1. /\ kind \in Kinds /\ open = TRUE /\ menu = FALSE /\ caret = 0 /\ entry = None /\ loaded = FALSE
      /\ text = todo.description /\ picks = PicksOf(todo) /\ ctl = CtlOf(todo)
      /\ remembered = None /\ stored = todo /\ sent = {} /\ moves = 0 /\ saves = 0
      /\ opened = Opening(todo)
  BY DEF Init
<1>2. todo \in Item /\ Sound(todo)
  <2>1. todo \in Actions \cup Patterns \cup {NoItem}
    BY DEF Init
  <2> QED BY <2>1, ItemsAssumption, NoItemTyped
<1>3. WorldOK
  BY <1>1, <1>2 DEF WorldOK
<1>4. FormOK
  <2>1. picks \in Picks /\ picks.newContext = None /\ picks.newProject = None
    BY <1>1, <1>2, PicksTyped
  <2>2. ctl \in Fillings /\ ctl.due = todo.due /\ ctl.showFrom = todo.showFrom
    BY <1>1, <1>2, CtlTyped
  <2>3. opened \in Item /\ opened.due = todo.due
    BY <1>1, <1>2, OpeningTyped
  <2>4. text \in Text
    BY <1>1, <1>2 DEF Item
  <2>5. InTime(ctl)
    BY <1>2, <2>2 DEF InTime, Sound
  <2>6. entry \in Entries /\ Marked
    BY <1>1, <2>1, <2>2, <2>3 DEF Entries, Marked
  <2> QED BY <1>1, <2>1, <2>2, <2>3, <2>4, <2>5, <2>6 DEF FormOK
<1>5. LineOK
  <2>1. Len(text) \in Nat
    BY <1>4 DEF FormOK, Text
  <2> DEFINE last == IF kind = "line" THEN Len(text) ELSE 0
  <2>2. last \in Nat
    BY <2>1
  <2> HIDE DEF last
  <2>3. 0 \in 0..last
    BY <2>2
  <2> QED BY <1>1, <2>3 DEF LineOK, last
<1>6. ServerOK /\ MovesOK
  BY <1>1, <1>2, BoundsAssumption DEF ServerOK, MovesOK
<1> QED BY <1>3, <1>4, <1>5, <1>6 DEF IInv

-----------------------------------------------------------------------------
(* What is left alone *)

LEMMA SameWorld == ASSUME WorldOK, UNCHANGED world PROVE WorldOK'
BY DEF WorldOK, world

LEMMA SameForm == ASSUME FormOK, UNCHANGED <<kind, form>> PROVE FormOK'
BY DEF FormOK, form, fields, Marked, Entries, Dates, Pattern, Editing

LEMMA SameLine == ASSUME LineOK, UNCHANGED <<kind, line>>, kind # "line" \/ text' = text PROVE LineOK'
BY DEF LineOK, line

LEMMA AskedStill == ASSUME NEW w, Asked(w), kind' = kind PROVE Asked(w)'
<1>1. Parts' = Parts
  BY DEF Parts, Dates, Pattern
<1> QED BY <1>1 DEF Asked

LEMMA SameServer == ASSUME ServerOK, UNCHANGED <<kind, server>> PROVE ServerOK'
<1>1. \A w \in sent : Asked(w)'
  BY AskedStill DEF ServerOK
<1>2. stored' = stored /\ saves' = saves /\ sent' = sent /\ Editing' = Editing
  BY DEF server, Editing
<1>3. \A w : Saved(w)' <=> Saved(w)
  BY DEF Saved
<1> QED BY <1>1, <1>2, <1>3 DEF ServerOK

-----------------------------------------------------------------------------
(* The line *)

\* Whatever is typed, the rest of the form stays.
LEMMA OnTheLine ==
  ASSUME IInv, OnLine, text' \in Text, caret' \in 0..Len(text'), menu' \in BOOLEAN
  PROVE  IInv'
<1>1. kind = "line" /\ UNCHANGED <<world, open, picks, ctl, entry, opened, server, moves>>
  BY DEF OnLine
<1>2. kind' = kind
  BY <1>1 DEF world
<1>3. WorldOK' /\ ServerOK' /\ MovesOK'
  BY <1>1, <1>2, SameWorld, SameServer DEF IInv, MovesOK
<1>4. FormOK'
  BY <1>1, <1>2 DEF IInv, FormOK, Marked, Entries, Dates, Pattern, Editing
<1>5. LineOK'
  BY <1>1, <1>2 DEF LineOK
<1> QED BY <1>3, <1>4, <1>5 DEF IInv

\* The token under the caret.
LEMMA ActiveIs ==
  ASSUME IInv, kind = "line", NEW token \in Active
  PROVE  /\ token \in [sigil : Sigils, start : 1..caret, quoted : BOOLEAN, query : Text]
         /\ token.sigil = text[token.start] /\ Starts(text, token.start)
         /\ ~Taken(text, token, On)
         /\ Behind(text, token) \in token.start + 1..Len(text) + 2
<1>1. text \in Text /\ Len(text) \in Nat /\ caret \in 0..Len(text) /\ On = Sigils
  BY DEF IInv, FormOK, LineOK, Text, On, Editing
<1> DEFINE starts == {k \in 1..caret : text[k] \in On}  i == Max(starts)
<1>2. token = ActiveToken(text, caret, On) /\ token # None /\ ~Taken(text, token, On)
  BY DEF Active, Offering
<1>3. starts # {} /\ Starts(text, i) /\ token = TokenFrom(text, i, caret)
  BY <1>2 DEF ActiveToken, Nearest
<1>4. i \in 1..caret /\ text[i] \in Sigils
  <2>1. starts \in SUBSET Nat /\ \A k \in starts : k <= caret
    BY <1>1
  <2>2. i \in starts
    <3>0. caret \in Nat /\ starts # {}
      BY <1>1, <1>3
    <3> HIDE DEF starts
    <3>1. Max(starts) \in starts
      BY <2>1, <3>0, MaxOf
    <3> QED BY <3>1 DEF i
  <2> QED BY <1>1, <2>2
<1> HIDE DEF i, starts
<1>5. \/ i < Len(text) /\ token = Query(text, i, i + 2, caret) /\ token.quoted
      \/ token = Query(text, i, i + 1, caret) /\ ~token.quoted
  <2>1. i + 1 # i + 2 /\ i + 1 \in Nat
    BY <1>1, <1>4
  <2>2. CASE i < Len(text) /\ text[i + 1] = Mark
    <3>1. token = Query(text, i, i + 2, caret)
      BY <1>2, <1>3, <2>2, Zenon DEF TokenFrom
    <3>2. token.quoted
      BY <3>1 DEF Query
    <3> QED BY <2>2, <3>1, <3>2, Zenon
  <2>3. CASE ~(i < Len(text) /\ text[i + 1] = Mark)
    <3>1. token = Bare(Query(text, i, i + 1, caret))
      BY <1>3, <2>3, Zenon DEF TokenFrom
    <3>2. token = Query(text, i, i + 1, caret)
      BY <1>2, <3>1 DEF Bare
    <3>3. ~token.quoted
      BY <2>1, <3>2 DEF Query
    <3> QED BY <3>2, <3>3
  <2> QED BY <2>2, <2>3
<1>6. PICK from \in {i + 1, i + 2} : token = Query(text, i, from, caret) /\ (token.quoted <=> from = i + 2)
  <2>1. i + 1 # i + 2
    BY <1>1, <1>4
  <2> QED BY <1>5, <2>1
<1>7. /\ SubSeq(text, from, caret) \in Text
      /\ Len(SubSeq(text, from, caret)) = IF from <= caret THEN caret - from + 1 ELSE 0
  <2>1. from \in Nat \ {0} /\ caret \in Int /\ caret <= Len(text)
    BY <1>1, <1>4
  <2> QED BY <1>1, <2>1, Stretch
<1>8. /\ token.sigil = text[i] /\ token.start = i /\ token.quoted = (from = i + 2)
      /\ token.query = SubSeq(text, from, caret)
      /\ token \in [sigil : Sigils, start : 1..caret, quoted : BOOLEAN, query : Text]
  BY <1>4, <1>6, <1>7 DEF Query
<1>9. Behind(text, token) \in i + 1..Len(text) + 2
  <2> DEFINE b == token.start + Len(token.query) + (IF token.quoted THEN 2 ELSE 1)
  <2>1. b \in i + 1..Len(text) + 2 /\ (b <= Len(text) => b + 1 <= Len(text) + 2)
    <3>1. CASE from = i + 2
      <4>1. b = i + (IF from <= caret THEN caret - from + 1 ELSE 0) + 2
        BY <1>7, <1>8, <3>1
      <4>2. i < Len(text)
        BY <1>1, <1>4, <1>5, <1>6, <3>1
      <4> QED BY <1>1, <1>4, <3>1, <4>1, <4>2
    <3>2. CASE from = i + 1
      <4>0. ~token.quoted
        BY <1>1, <1>4, <1>6, <3>2
      <4>1. b = i + (IF from <= caret THEN caret - from + 1 ELSE 0) + 1
        BY <1>7, <1>8, <4>0
      <4> QED BY <1>1, <1>4, <3>2, <4>1
    <3> QED BY <1>6, <3>1, <3>2
  <2>2. Behind(text, token) = Skip(text, b, token.quoted)
    BY DEF Behind
  <2> HIDE DEF b
  <2>3. Skip(text, b, token.quoted) \in {b, b + 1} /\ (b > Len(text) => Skip(text, b, token.quoted) = b)
    BY <1>1, <2>1 DEF Skip
  <2> QED BY <1>1, <1>4, <2>1, <2>2, <2>3
<1> QED BY <1>2, <1>3, <1>4, <1>8, <1>9

LEMMA OfferedIs ==
  ASSUME NEW token, token.query \in Text, NEW new \in BOOLEAN, NEW name \in Offers(token, new)
  PROVE  /\ name \in Text /\ (new => name # <<>> /\ name \notin Known(token.sigil))
         /\ ~new => name \in Known(token.sigil)
<1>1. CASE ~new
  BY <1>1, KnownIs DEF Offers, Suggested
<1>2. CASE new
  <2> DEFINE q == Trimmed(token.query)
  <2>1. q \in Text /\ Len(q) \in Nat
    BY TrimmedTyped DEF Text
  <2> HIDE DEF q
  <2>2. FirstWord(q) \in Text
    <3> DEFINE u == Until(q, 1, {" "})
    <3>1. u \in 1..Len(q) + 1
      <4>1. 1 \in 1..Len(q) + 1
        BY <2>1
      <4> QED BY <2>1, <4>1, UntilIs
    <3> HIDE DEF u
    <3>2. SubSeq(q, 1, u - 1) \in Text
      BY <2>1, <3>1, Stretch
    <3> QED BY <3>2 DEF FirstWord, u
  <2>3. name = Creatable(token) /\ name # None
    BY <1>2 DEF Offers
  <2>4. Creatable(token) \in {Missing(q, token.sigil), Missing(FirstWord(q), token.sigil)}
    BY DEF Creatable, q
  <2> QED BY <1>2, <2>1, <2>2, <2>3, <2>4 DEF Missing
<1> QED BY <1>1, <1>2

\* What a completion puts into the text.
Inserted(token, name, new) == <<token.sigil>> \o Quote(name, new) \o <<" ">>

LEMMA InsertedIs ==
  ASSUME NEW token, token.sigil \in Sigils, NEW name \in Text, NEW new
  PROVE  /\ Quote(name, new) \in Text /\ Inserted(token, name, new) \in Text
         /\ Len(Inserted(token, name, new)) = Len(Quote(name, new)) + 2
         /\ Inserted(token, name, new)[1] = token.sigil
         /\ Blank(Inserted(token, name, new), Len(Quote(name, new)) + 2)
         /\ \A k \in 1..Len(Quote(name, new)) : Inserted(token, name, new)[k + 1] = Quote(name, new)[k]
<1>1. token.sigil \in Chars /\ Mark \in Chars
  BY CharsAssumption
<1>2. Quote(name, new) \in {name, Wrap(Mark, name, Mark)}
  BY Zenon DEF Quote, Wrap
<1>3. Quote(name, new) \in Text
  BY <1>1, <1>2, Wrapped
<1> DEFINE c == token.sigil  d == " "  z == Quote(name, new)
<1>4. Inserted(token, name, new) = Wrap(c, z, d)
  BY DEF Inserted, Wrap
<1>5. d \in Chars
  BY CharsAssumption
<1>6. c \in Chars /\ z \in Text
  BY <1>1, <1>3
<1> HIDE DEF c, d, z
<1>7. /\ Wrap(c, z, d) \in Text /\ Len(Wrap(c, z, d)) = Len(z) + 2
      /\ Wrap(c, z, d)[1] = c /\ Wrap(c, z, d)[Len(z) + 2] = d
      /\ \A k \in 1..Len(z) : Wrap(c, z, d)[k + 1] = z[k]
  BY <1>5, <1>6, Wrapped
<1> DEFINE w == Wrap(c, z, d)
<1>8. Blank(w, Len(z) + 2)
  <2>1. w[Len(z) + 2] = d
    BY <1>7
  <2> HIDE DEF w
  <2> QED BY <2>1, Zenon DEF Blank, d
<1>9. /\ z \in Text /\ w \in Text /\ Len(w) = Len(z) + 2 /\ w[1] = c /\ Blank(w, Len(z) + 2)
      /\ \A k \in 1..Len(z) : w[k + 1] = z[k]
  BY <1>3, <1>6, <1>7, <1>8
<1>10. Inserted(token, name, new) = w
  BY <1>4
<1> HIDE DEF w
<1> QED BY <1>9, <1>10 DEF z, c

LEMMA AppliedIs ==
  ASSUME IInv, kind = "line", NEW token \in Active, NEW name \in Text, NEW new
  PROVE  /\ Applied(text, token, name, new).text =
                SubSeq(text, 1, token.start - 1) \o Inserted(token, name, new)
                  \o SubSeq(text, Behind(text, token), Len(text))
         /\ Applied(text, token, name, new).caret = token.start - 1 + Len(Inserted(token, name, new))
         /\ SubSeq(text, 1, token.start - 1) \in Text /\ Len(SubSeq(text, 1, token.start - 1)) = token.start - 1
         /\ Inserted(token, name, new) \in Text
         /\ SubSeq(text, Behind(text, token), Len(text)) \in Text
         /\ Applied(text, token, name, new).text \in Text
         /\ Applied(text, token, name, new).caret \in 0..Len(Applied(text, token, name, new).text)
<1> DEFINE q == Inserted(token, name, new)
           s == token.start
           b == Behind(text, token)
           left == SubSeq(text, 1, s - 1)  right == SubSeq(text, b, Len(text))
<1>1. /\ text \in Text /\ Len(text) \in Nat /\ caret \in 0..Len(text)
      /\ token.sigil \in Sigils /\ s \in 1..caret /\ b \in s + 1..Len(text) + 2
  BY ActiveIs DEF IInv, FormOK, LineOK, Text
<1>2. q \in Text
  BY <1>1, InsertedIs
<1>3. left \in Text /\ Len(left) = s - 1 /\ right \in Text
  <2>1. /\ left \in Text /\ Len(left) = IF 1 <= s - 1 THEN (s - 1) - 1 + 1 ELSE 0
    <3>1. text \in Text /\ s - 1 \in Int /\ s - 1 <= Len(text)
      BY <1>1
    <3> HIDE DEF s
    <3> QED BY <3>1, Stretch
  <2>2. right \in Text
    <3>1. b \in Nat \ {0}
      BY <1>1
    <3> HIDE DEF b
    <3> QED BY <1>1, <3>1, Stretch
  <2>3. Len(left) = s - 1
    BY <1>1, <2>1
  <2> QED BY <2>1, <2>2, <2>3
<1>4. /\ Applied(text, token, name, new).text = left \o q \o right
      /\ Applied(text, token, name, new).caret = s - 1 + Len(q)
  BY DEF Applied, Spliced, Inserted
<1> HIDE DEF q, left, right, s, b
<1>5. left \o q \in Text /\ Len(left \o q) = Len(left) + Len(q)
  BY <1>2, <1>3, Joined
<1> DEFINE both == left \o q
<1> HIDE DEF both
<1>6. both \o right \in Text /\ Len(both \o right) = Len(both) + Len(right)
  <2>1. both \in Text
    BY <1>5 DEF both
  <2> QED BY <1>3, <2>1, Joined
<1>7. Len(left) \in Nat /\ Len(q) \in Nat /\ Len(right) \in Nat
  BY <1>2, <1>3 DEF Text
<1>8. s - 1 + Len(q) \in 0..Len(left \o q \o right)
  BY <1>1, <1>3, <1>5, <1>6, <1>7 DEF both
<1> QED BY <1>2, <1>3, <1>4, <1>6, <1>8 DEF q, left, right, s, b, both

LEMMA TypeKeeps == ASSUME IInv, NEW c \in Alphabet, Type(c) PROVE IInv'
<1>1. text \in Text /\ Len(text) \in Nat /\ kind = "line" /\ caret \in 0..Len(text) /\ c \in Chars
  BY InputsAssumption DEF Type, OnLine, IInv, FormOK, LineOK, Text
<1>2. /\ SubSeq(text, 1, caret) \in Text /\ Len(SubSeq(text, 1, caret)) = caret
      /\ SubSeq(text, caret + 1, Len(text)) \in Text
  <2>1. Len(SubSeq(text, 1, caret)) = IF 1 <= caret THEN caret - 1 + 1 ELSE 0
    BY <1>1, Stretch
  <2> QED BY <1>1, <2>1, Stretch
<1> DEFINE a == SubSeq(text, 1, caret)  b == SubSeq(text, caret + 1, Len(text))
<1>3. OnLine /\ text' = a \o <<c>> \o b /\ caret' = caret + 1 /\ menu' = TRUE
  BY DEF Type
<1>4. a \o <<c>> \o b \in Text /\ Len(a \o <<c>> \o b) = caret + 1 + Len(b) /\ Len(b) \in Nat
  <2> HIDE DEF a, b
  <2> USE <1>2 DEF a, b
  <2>1. a \in Text /\ b \in Text /\ Len(a) = caret
    OBVIOUS
  <2> HIDE <1>2 DEF a, b
  <2> QED BY <1>1, <2>1 DEF Text
<1> HIDE DEF a, b
<1>5. text' \in Text /\ caret' \in 0..Len(text') /\ menu' \in BOOLEAN
  BY <1>1, <1>3, <1>4
<1> QED BY <1>3, <1>5, OnTheLine

LEMMA EraseKeeps == ASSUME IInv, Erase PROVE IInv'
<1>1. text \in Text /\ Len(text) \in Nat /\ kind = "line" /\ caret \in 1..Len(text)
  BY DEF Erase, OnLine, IInv, FormOK, LineOK, Text
<1> DEFINE a == SubSeq(text, 1, caret - 1)  b == SubSeq(text, caret + 1, Len(text))
<1>2. a \in Text /\ Len(a) = caret - 1 /\ b \in Text
  <2>1. Len(a) = IF 1 <= caret - 1 THEN (caret - 1) - 1 + 1 ELSE 0
    BY <1>1, Stretch
  <2> QED BY <1>1, <2>1, Stretch
<1>3. OnLine /\ text' = a \o b /\ caret' = caret - 1 /\ menu' = TRUE
  BY DEF Erase
<1> HIDE DEF a, b
<1>4. a \o b \in Text /\ Len(a \o b) = caret - 1 + Len(b) /\ Len(b) \in Nat
  BY <1>2 DEF Text
<1>5. text' \in Text /\ caret' \in 0..Len(text') /\ menu' \in BOOLEAN
  BY <1>1, <1>3, <1>4
<1> QED BY <1>3, <1>5, OnTheLine

LEMMA CaretKeeps ==
  ASSUME IInv, Focus \/ Hide \/ \E c \in 0..Len(text) : MoveCaret(c)
  PROVE  IInv'
<1>1. text \in Text /\ kind = "line" /\ caret \in 0..Len(text) /\ menu \in BOOLEAN
  BY DEF Focus, Hide, MoveCaret, OnLine, IInv, FormOK, LineOK
<1>2. OnLine /\ text' = text /\ caret' \in 0..Len(text) /\ menu' \in BOOLEAN
  BY <1>1 DEF Focus, Hide, MoveCaret
<1> QED BY <1>1, <1>2, OnTheLine

LEMMA CompleteKeeps == ASSUME IInv, Complete PROVE IInv'
<1>1. PICK token \in Active, new \in BOOLEAN : \E name \in Offers(token, new) : Choose(token, name, new)
  BY DEF Complete
<1>2. PICK name \in Offers(token, new) : Choose(token, name, new)
  BY <1>1
<1>3. kind = "line" /\ OnLine /\ menu' = FALSE
  BY <1>2 DEF Choose, OnLine, Settle
<1>4. name \in Text
  BY <1>3, ActiveIs, OfferedIs
<1> DEFINE next == Applied(text, token, name, new)
<1>5. next.text \in Text /\ next.caret \in 0..Len(next.text)
  BY <1>3, <1>4, AppliedIs
<1>6. text' = next.text /\ caret' = next.caret
  BY <1>2 DEF Choose, Settle
<1> HIDE DEF next
<1> QED BY <1>3, <1>5, <1>6, OnTheLine

-----------------------------------------------------------------------------
(* The other fields *)

LEMMA FormKeeps ==
  ASSUME IInv, kind # "line", UNCHANGED <<kind, todo, remembered, open, opened, line, server>>,
         loaded' \in BOOLEAN, moves' \in 0..MaxMoves,
         text' \in Text, picks' \in Picks, ctl' \in Fillings, InTime(ctl'), entry' \in Entries, Marked'
  PROVE  IInv'
<1>1. WorldOK'
  BY DEF IInv, WorldOK
<1>2. FormOK'
  BY DEF IInv, FormOK, Entries, Dates, Pattern
<1>3. LineOK'
  BY SameLine DEF IInv
<1>4. ServerOK'
  BY SameServer DEF IInv
<1> QED BY <1>1, <1>2, <1>3, <1>4 DEF IInv, MovesOK

\* An input, when what it leaves of the marks holds.
LEMMA InputKeeps ==
  ASSUME IInv, Input, text' \in Text, picks' \in Picks, ctl' \in Fillings, InTime(ctl'),
         entry' \in Entries, Marked'
  PROVE  IInv'
<1>1. /\ kind # "line" /\ moves < MaxMoves /\ moves' = moves + 1
      /\ UNCHANGED <<kind, loaded, todo, remembered, open, opened, line, server>>
  BY DEF Input, world
<1>2. loaded' \in BOOLEAN /\ moves' \in 0..MaxMoves
  BY <1>1, BoundsAssumption DEF IInv, WorldOK, MovesOK
<1> QED BY <1>1, <1>2, FormKeeps

\* An item's text has no sigils that are read.
LEMMA EditedText == ASSUME IInv, Editing PROVE Listed(First(Read, "@")) /\ Listed(First(Read, "#"))
<1>1. Read = <<>>
  BY NoTokens DEF Read, On, IInv, FormOK
<1> QED BY <1>1, NoTokensFirst DEF Listed

LEMMA TextKeeps == ASSUME IInv, NEW p \in Phrases \cup Words, Rephrase(p) PROVE IInv'
<1>1. Input /\ text' = p /\ entry' = None /\ UNCHANGED <<kind, opened, picks, ctl>>
  BY DEF Rephrase, OnForm, Input, world
<1>2. p \in Text
  BY InputsAssumption
<1>3. picks \in Picks /\ ctl \in Fillings /\ InTime(ctl) /\ Marked
  BY DEF IInv, FormOK
<1>4. Marked' /\ entry' \in Entries /\ InTime(ctl')
  BY <1>1, <1>3 DEF Marked, Editing, Entries, InTime
<1> QED BY <1>1, <1>2, <1>3, <1>4, InputKeeps

LEMMA PickKeeps ==
  ASSUME IInv, NEW new \in Picks, Pick(new),
         Editing => /\ new.newContext # None => new.newContext # opened.context
                    /\ new.newProject # None => new.newProject # opened.project
  PROVE  IInv'
<1>1. Input /\ picks' = new /\ entry' = None /\ UNCHANGED <<kind, opened, text, ctl>>
  BY DEF Pick, OnForm, Input, world
<1>2. text \in Text /\ ctl \in Fillings /\ InTime(ctl) /\ Marked
  BY DEF IInv, FormOK
<1>3. Marked' /\ entry' \in Entries /\ InTime(ctl')
  BY <1>1, <1>2 DEF Marked, Editing, Entries, InTime
<1> QED BY <1>1, <1>2, <1>3, InputKeeps

LEMMA PicksKeep ==
  ASSUME IInv, \/ \E c \in Names(Contexts) : PickContext(c)
               \/ \E p \in Names(Projects) \cup {None} : PickProject(p)
               \/ \E n \in NewNames : NameContext(n) \/ NameProject(n)
  PROVE  IInv'
<1>1. picks \in Picks /\ Marked
  BY DEF IInv, FormOK
<1>2. /\ picks.context \in Name /\ picks.newContext \in Name /\ picks.newProject \in Name
      /\ picks.project \in Name \cup {Unset}
      /\ picks = [context |-> picks.context, newContext |-> picks.newContext,
                  newProject |-> picks.newProject, project |-> picks.project]
  BY <1>1 DEF Picks
<1>3. ASSUME NEW c \in Names(Contexts), PickContext(c) PROVE IInv'
  <2> DEFINE new == [picks EXCEPT !.context = c, !.newContext = None]
  <2>1. c \in Name
    BY NameOfList DEF Name
  <2>2. new \in Picks /\ new.newContext = None /\ new.newProject = picks.newProject
    BY <1>1, <2>1 DEF Picks, Name
  <2>3. Pick(new)
    BY <1>3 DEF PickContext
  <2> HIDE DEF new
  <2> QED BY <1>1, <2>2, <2>3, PickKeeps DEF Marked
<1>4. ASSUME NEW p \in Names(Projects) \cup {None}, PickProject(p) PROVE IInv'
  <2> DEFINE new == [picks EXCEPT !.project = p, !.newProject = None]
  <2>1. p \in Name
    BY NameOfList DEF Name
  <2>2. new \in Picks /\ new.newProject = None /\ new.newContext = picks.newContext
    BY <1>1, <2>1 DEF Picks, Name
  <2>3. Pick(new)
    BY <1>4 DEF PickProject
  <2> HIDE DEF new
  <2> QED BY <1>1, <2>2, <2>3, PickKeeps DEF Marked
<1>5. ASSUME NEW n \in NewNames, NameContext(n) PROVE IInv'
  <2> DEFINE new == [picks EXCEPT !.context = None, !.newContext = n]
  <2>1. n \in Name
    BY InputsAssumption DEF Name
  <2>2. new \in Picks /\ new.newContext = n /\ new.newProject = picks.newProject
    BY <1>1, <2>1 DEF Picks, Name
  <2>3. Pick(new) /\ IsNew(n, First(Read, "@"), Names(Contexts), opened.context)
    BY <1>5 DEF NameContext
  <2>4. Editing => n # opened.context
    BY <2>3, EditedText DEF IsNew
  <2> HIDE DEF new
  <2> QED BY <1>1, <2>2, <2>3, <2>4, PickKeeps DEF Marked
<1>6. ASSUME NEW n \in NewNames, NameProject(n) PROVE IInv'
  <2> DEFINE new == [picks EXCEPT !.project = Unset, !.newProject = n]
  <2>1. n \in Name
    BY InputsAssumption DEF Name
  <2>2. new \in Picks /\ new.newProject = n /\ new.newContext = picks.newContext
    BY <1>1, <2>1 DEF Picks, Name
  <2>3. Pick(new) /\ IsNew(n, First(Read, "#"), Names(Projects), opened.project)
    BY <1>6 DEF NameProject
  <2>4. Editing => n # opened.project
    BY <2>3, EditedText DEF IsNew
  <2> HIDE DEF new
  <2> QED BY <1>1, <2>2, <2>3, <2>4, PickKeeps DEF Marked
<1> QED BY <1>3, <1>4, <1>5, <1>6

LEMMA FillKeeps ==
  ASSUME IInv, NEW new \in Fillings, Fill(new), InTime(new),
         new.due = None /\ new.showFrom # None => ctl.due = None /\ ctl.showFrom # None
  PROVE  IInv'
<1>1. Input /\ ctl' = new /\ entry' = None /\ UNCHANGED <<kind, opened, text, picks>>
  BY DEF Fill, OnForm, Input, world
<1>2. text \in Text /\ picks \in Picks /\ Marked
  BY DEF IInv, FormOK
<1>3. Marked' /\ entry' \in Entries /\ InTime(ctl')
  BY <1>1, <1>2 DEF Marked, Editing, Entries, InTime
<1> QED BY <1>1, <1>2, <1>3, InputKeeps

LEMMA FillsKeep ==
  ASSUME IInv, \/ \E l \in SUBSET Labels : SetTags(l)
               \/ \E p \in {"weekly", "monthly"} : SetPeriod(p)
               \/ \E d \in Weekdays : ToggleDay(d)
  PROVE  IInv'
<1>1. ctl \in Fillings /\ InTime(ctl)
  BY DEF IInv, FormOK
<1>2. ASSUME NEW l \in SUBSET Labels, SetTags(l) PROVE IInv'
  <2> DEFINE new == [ctl EXCEPT !.tags = l]
  <2>1. l \in SUBSET Text
    BY InputsAssumption
  <2>2. new \in Fillings /\ new.due = ctl.due /\ new.showFrom = ctl.showFrom /\ Fill(new)
    BY <1>1, <1>2, <2>1 DEF Fillings, SetTags
  <2> HIDE DEF new
  <2> QED BY <1>1, <2>2, FillKeeps DEF InTime
<1>3. ASSUME NEW p \in {"weekly", "monthly"}, SetPeriod(p) PROVE IInv'
  <2> DEFINE new == [ctl EXCEPT !.period = p]
  <2>1. new \in Fillings /\ new.due = ctl.due /\ new.showFrom = ctl.showFrom /\ Fill(new)
    BY <1>1, <1>3 DEF Fillings, SetPeriod
  <2> HIDE DEF new
  <2> QED BY <1>1, <2>1, FillKeeps DEF InTime
<1>4. ASSUME NEW d \in Weekdays, ToggleDay(d) PROVE IInv'
  <2> DEFINE days == IF d \in ctl.weekdays THEN ctl.weekdays \ {d} ELSE ctl.weekdays \cup {d}
             new == [ctl EXCEPT !.weekdays = days]
  <2>1. Fill(new)
    BY <1>1, <1>4 DEF ToggleDay, Fillings
  <2>2. days \in SUBSET Int
    BY <1>1, InputsAssumption DEF Fillings
  <2> HIDE DEF days
  <2>3. new \in Fillings /\ new.due = ctl.due /\ new.showFrom = ctl.showFrom
    BY <1>1, <2>2 DEF Fillings
  <2> HIDE DEF new
  <2> QED BY <1>1, <2>1, <2>3, FillKeeps DEF InTime
<1> QED BY <1>2, <1>3, <1>4

LEMMA DaysKeep ==
  ASSUME IInv, \/ \E f \in Dates, d \in Days : ChooseDay(f, d)
               \/ \E f \in Dates : ClearDay(f)
  PROVE  IInv'
<1>1. ctl \in Fillings /\ InTime(ctl)
  BY DEF IInv, FormOK
<1>2. ASSUME NEW f \in Dates, NEW d \in Day, Fill(SetDate(f, d)), f = "showFrom" => ctl.due # None \/ ctl.showFrom # None
      PROVE  IInv'
  <2> DEFINE new == SetDate(f, d)
  <2>1. /\ new \in Fillings /\ InTime(new)
        /\ new.due = None /\ new.showFrom # None =>
             \/ ctl.due = None /\ ctl.showFrom # None
             \/ f = "showFrom" /\ ctl.due = None
    BY <1>1, SetDateIs
  <2> HIDE DEF new
  <2> QED BY <1>2, <2>1, FillKeeps DEF new
<1>3. ASSUME NEW f \in Dates, NEW d \in Days, ChooseDay(f, d) PROVE IInv'
  <2>1. d \in Day /\ Fill(SetDate(f, d)) /\ (f = "showFrom" => ctl.due # None)
    BY <1>3, DaysAssumption DEF ChooseDay, Enabled, Day
  <2> QED BY <1>2, <2>1
<1>4. ASSUME NEW f \in Dates, ClearDay(f) PROVE IInv'
  <2>1. None \in Day /\ Fill(SetDate(f, None)) /\ ctl[f] # None
    BY <1>4 DEF ClearDay, Day
  <2> QED BY <1>2, <2>1
<1> QED BY <1>3, <1>4

LEMMA TypedDays ==
  ASSUME IInv, \/ \E f \in Dates, d \in Days : TypeDay(f, d)
               \/ \E f \in Dates : TypeDay(f, None)
  PROVE  IInv'
<1>1. PICK f \in Dates, d \in Days \cup {None} : TypeDay(f, d)
  OBVIOUS
<1>2. /\ Input /\ entry' = [field |-> f, day |-> d] /\ (f = "showFrom" => ctl.due # None)
      /\ UNCHANGED <<kind, opened, text, picks, ctl>>
  BY <1>1 DEF TypeDay, Enabled, Input, world
<1>3. d \in Day
  BY DaysAssumption DEF Day
<1>4. text \in Text /\ picks \in Picks /\ ctl \in Fillings /\ InTime(ctl) /\ Marked
  BY DEF IInv, FormOK
<1>5. Marked' /\ entry' \in Entries /\ InTime(ctl')
  BY <1>2, <1>3, <1>4 DEF Marked, Editing, Entries, InTime
<1> QED BY <1>2, <1>4, <1>5, InputKeeps

\* The date that was typed is set, or goes.
LEMMA CommittedIs ==
  ASSUME IInv
  PROVE  /\ Committed \in Fillings /\ InTime(Committed)
         /\ kind \in {"edit", "defer"} /\ Committed.due = None /\ Committed.showFrom # None =>
              opened.due = None
<1>1. ctl \in Fillings /\ InTime(ctl) /\ entry \in Entries /\ Marked
  BY DEF IInv, FormOK
<1>2. CASE Committed = ctl
  BY <1>1, <1>2 DEF Marked
<1>3. CASE Committed # ctl
  <2>1. entry # None /\ Committed = SetDate(entry.field, entry.day)
    BY <1>3 DEF Committed
  <2>2. entry.field \in Dates /\ entry.day \in Day
    BY <1>1, <2>1 DEF Entries
  <2> DEFINE new == SetDate(entry.field, entry.day)
  <2>3. /\ new \in Fillings /\ InTime(new)
        /\ new.due = None /\ new.showFrom # None =>
             \/ ctl.due = None /\ ctl.showFrom # None
             \/ entry.field = "showFrom" /\ ctl.due = None
    BY <1>1, <2>2, SetDateIs
  <2> HIDE DEF new
  <2>4. kind \in {"edit", "defer"} /\ new.due = None /\ new.showFrom # None => opened.due = None
    BY <1>1, <2>1, <2>3 DEF Marked
  <2> QED BY <2>1, <2>3, <2>4 DEF new
<1> QED BY <1>2, <1>3

LEMMA CommitKeeps == ASSUME IInv, CommitDay PROVE IInv'
<1>1. /\ entry # None /\ ctl' = Committed /\ entry' = None /\ moves' = moves
      /\ UNCHANGED <<kind, loaded, todo, remembered, open, opened, line, text, picks, server>>
  BY DEF CommitDay, world
<1>2. text \in Text /\ picks \in Picks /\ Marked
  BY DEF IInv, FormOK
<1>3. Marked' /\ entry' \in Entries /\ InTime(ctl') /\ ctl' \in Fillings
  BY <1>1, <1>2, CommittedIs DEF Marked, Editing, Entries, InTime
<1>4. WorldOK' /\ ServerOK' /\ MovesOK'
  BY <1>1, SameServer DEF IInv, WorldOK, MovesOK
<1>5. FormOK'
  BY <1>1, <1>2, <1>3 DEF IInv, FormOK, Entries, Dates, Pattern
<1>6. LineOK'
  BY <1>1, SameLine DEF IInv
<1> QED BY <1>4, <1>5, <1>6 DEF IInv

LEMMA LoadKeeps == ASSUME IInv, LoadPreferences PROVE IInv'
<1>1. /\ kind # "line" /\ loaded' = TRUE /\ moves' = moves
      /\ UNCHANGED <<kind, remembered, todo, open, opened, text, picks, ctl, entry, line, server>>
  BY DEF LoadPreferences, form, fields
<1>2. text \in Text /\ picks \in Picks /\ ctl \in Fillings /\ InTime(ctl) /\ entry \in Entries /\ Marked
  BY DEF IInv, FormOK
<1>3. Marked' /\ InTime(ctl') /\ moves' \in 0..MaxMoves
  BY <1>1, <1>2 DEF Marked, Editing, InTime, IInv, MovesOK
<1> QED BY <1>1, <1>2, <1>3, FormKeeps

-----------------------------------------------------------------------------
(* What the form shows *)

LEMMA NamedIs ==
  ASSUME NEW t \in Text, NEW w, w = None \/ w \in TokenSet(t), NEW named \in Name, NEW other \in Name
  PROVE  /\ Named(w, named, other) \in Name
         /\ w = None => Named(w, named, other) = IF named # None THEN named ELSE other
<1>1. w # None => w.name \in Text
  BY DEF TokenSet
<1> QED BY <1>1 DEF Named, NewOr, Existing, Or, Name

LEMMA DefaultsTyped == ASSUME IInv PROVE DefaultContext \in Name /\ DefaultProject \in Name
<1>1. picks.context \in Name /\ picks.project \in Name \cup {Unset} /\ remembered \in Name
  BY NameOfList DEF IInv, FormOK, WorldOK, Picks, Name
<1>2. Contexts[1] \in Name /\ Page \in Name
  BY NameOfList, NamesAssumption DEF Name
<1> QED BY <1>1, <1>2 DEF DefaultContext, DefaultProject, Or, Name

LEMMA ShownIs ==
  ASSUME IInv
  PROVE  /\ Shown \in Item /\ InTime(Shown)
         /\ \A f \in {"due", "showFrom", "period", "weekdays", "startFrom", "endDate"} : Shown[f] = ctl[f]
         /\ Editing => /\ picks.newContext # None => Shown.context = picks.newContext
                       /\ picks.newProject # None => Shown.project = picks.newProject
                       /\ Made("context") => picks.newContext # None
                       /\ Made("project") => picks.newProject # None
         /\ \A f \in Parts : Made(f) => f \in {"context", "project"} /\ Shown[f] \in Text
<1>1. text \in Text /\ picks \in Picks /\ ctl \in Fillings /\ InTime(ctl) /\ On \in SUBSET Sigils
  BY DEF IInv, FormOK, On, Sigils
<1>2. Read \in Seq(TokenSet(text))
  BY <1>1, TokensTyped DEF Read
<1>3. picks.newContext \in Name /\ picks.newProject \in Name
  BY <1>1 DEF Picks
<1> DEFINE a == First(Read, "@")  b == First(Read, "#")
<1>4. (a = None \/ a \in TokenSet(text)) /\ (b = None \/ b \in TokenSet(text))
  BY <1>1, <1>2, FirstIs
<1>5. Editing => a = None /\ b = None
  <2> SUFFICES ASSUME Editing PROVE a = None /\ b = None
    OBVIOUS
  <2>1. Read = <<>>
    BY <1>1, NoTokens DEF Read, On
  <2> QED BY <2>1, NoTokensFirst
<1> HIDE DEF a, b
<1> DEFINE c == Named(a, picks.newContext, DefaultContext)  p == Named(b, picks.newProject, DefaultProject)
<1>6. /\ c \in Name /\ (a = None => c = IF picks.newContext # None THEN picks.newContext ELSE DefaultContext)
      /\ p \in Name /\ (b = None => p = IF picks.newProject # None THEN picks.newProject ELSE DefaultProject)
  BY <1>1, <1>3, <1>4, DefaultsTyped, NamedIs
<1>7. Description(text, Read) \in Text /\ TagsOf(Read) \in SUBSET Text
  BY <1>1, <1>2, DescriptionTyped, TagsTyped
<1>8. Shown = [description |-> Description(text, Read), context |-> c, project |-> p,
               tags |-> TagsOf(Read) \cup ctl.tags,
               due |-> ctl.due, showFrom |-> ctl.showFrom, period |-> ctl.period,
               weekdays |-> ctl.weekdays, startFrom |-> ctl.startFrom, endDate |-> ctl.endDate]
  BY DEF Shown, Reading, a, b
<1> HIDE DEF c, p
<1>9. Shown \in Item
  BY <1>1, <1>6, <1>7, <1>8 DEF Item, Fillings, Name
<1>10. /\ \A f \in {"due", "showFrom", "period", "weekdays", "startFrom", "endDate"} : Shown[f] = ctl[f]
       /\ Shown.context = c /\ Shown.project = p
  BY <1>8
<1>11. InTime(Shown)
  BY <1>1, <1>10 DEF InTime
<1>12. /\ Editing /\ Made("context") => picks.newContext # None
       /\ Editing /\ Made("project") => picks.newProject # None
  BY <1>5 DEF Made, NewOr, a, b
<1>13. ASSUME NEW f, Made(f) PROVE f \in {"context", "project"} /\ Shown[f] \in Text
  <2>1. \/ f = "context" /\ NewOr(a, picks.newContext) # None
        \/ f = "project" /\ NewOr(b, picks.newProject) # None
    BY <1>13 DEF Made, a, b
  <2>2. /\ NewOr(a, picks.newContext) # None => c # None
        /\ NewOr(b, picks.newProject) # None => p # None
    BY DEF c, p, Named, Or
  <2> QED BY <1>6, <1>10, <2>1, <2>2 DEF Name
<1> QED BY <1>5, <1>6, <1>9, <1>10, <1>11, <1>12, <1>13

LEMMA PartsAre ==
  /\ Parts \subseteq Fields
  /\ "due" \in Parts <=> ~Pattern
  /\ "showFrom" \in Parts <=> ~Pattern
BY DEF Parts, Dates, Fields, Pattern

-----------------------------------------------------------------------------
(* A save *)

\* A save that is made now: what it sends is what the form shows.
LEMMA RequestIs ==
  ASSUME IInv, NEW w, w.req = Request(Shown), w.made = {f \in DOMAIN w.req : Made(f)},
         w.shown = Shown, w.opened = opened, w.base = todo
  PROVE  Asked(w)
<1> DEFINE these == IF kind \in {"edit", "defer"} THEN {f \in Parts : Made(f) \/ Shown[f] # todo[f]}
                    ELSE {f \in Parts : OfWeek(f)}
<1>1. w.req = [f \in these |-> Shown[f]]
  BY DEF Request, Changes, Whole, Sends
<1>2. DOMAIN w.req = these /\ \A f \in these : w.req[f] = Shown[f]
  BY <1>1
<1>3. these \subseteq Parts
  OBVIOUS
<1>4. /\ InTime(Shown) /\ Shown.due = ctl.due /\ Shown.showFrom = ctl.showFrom /\ Shown.period = ctl.period
      /\ Editing => /\ picks.newContext # None => Shown.context = picks.newContext
                    /\ picks.newProject # None => Shown.project = picks.newProject
  BY ShownIs
<1>5. Marked
  BY DEF IInv, FormOK
<1>8. \A f \in w.made : f \in {"context", "project"} /\ w.shown[f] \in Text
  BY <1>2, <1>3, ShownIs
<1>9. Editing => /\ Made("context") => picks.newContext # None
                 /\ Made("project") => picks.newProject # None
  BY ShownIs
<1>6. CASE kind \in {"edit", "defer"}
  <2>1. \A f \in Parts : f \notin these => Shown[f] = todo[f]
    BY <1>6
  <2>2. \A f \in these : \/ Shown[f] # todo[f]
                         \/ f \in {"context", "project"} /\ Shown[f] # opened[f]
    BY <1>4, <1>5, <1>6, <1>9 DEF Made, Marked, Editing
  <2>3. Shown.due = None /\ Shown.showFrom # None => opened.due = None
    BY <1>4, <1>5, <1>6 DEF Marked
  <2>4. \A f \in w.made : Shown[f] # opened[f]
    BY <1>4, <1>5, <1>6, <1>9 DEF Made, Marked, Editing
  <2> HIDE DEF these
  <2> QED BY <1>2, <1>3, <1>4, <1>6, <1>8, <2>1, <2>2, <2>3, <2>4 DEF Asked
<1>7. CASE kind \notin {"edit", "defer"}
  <2>1. \A f \in Parts : f \notin these => f = "weekdays" /\ Shown.period # "weekly"
    BY <1>4, <1>7 DEF OfWeek
  <2> HIDE DEF these
  <2> QED BY <1>2, <1>3, <1>4, <1>7, <1>8, <2>1 DEF Asked
<1> QED BY <1>6, <1>7

\* The saves that are under way stay as they were asked.
LEMMA UnheardKeeps ==
  ASSUME ServerOK, kind' = kind
  PROVE  /\ \A v \in Unheard : Saved(v)' /\ Asked(v)' /\ v.n \in 1..saves
         /\ \A v, w \in Unheard : v.n = w.n => v = w
<1>1. \A w \in sent : Saved(w) /\ Asked(w) /\ Asked(w)' /\ w.n \in 1..saves
  BY AskedStill DEF ServerOK
<1>2. ASSUME NEW w \in sent
      PROVE  LET v == [w EXCEPT !.heard = FALSE] IN Saved(v)' /\ Asked(v)' /\ v.n = w.n
  <2> DEFINE v == [w EXCEPT !.heard = FALSE]
  <2>1. /\ v \in [n : Nat, req : {w.req}, made : {w.made}, pc : {"sent", "ok", "failed"}, heard : BOOLEAN,
                  shown : Item, opened : Item, base : Item]
        /\ v.n = w.n /\ v.req = w.req /\ v.made = w.made /\ v.shown = w.shown /\ v.opened = w.opened /\ v.base = w.base
    BY <1>1 DEF Saved
  <2> HIDE DEF v
  <2>2. Saved(v)' /\ Asked(v)'
    BY <1>1, <2>1 DEF Saved, Asked
  <2> QED BY <2>1, <2>2 DEF v
<1>3. \A v \in Unheard : \E w \in sent : v = [w EXCEPT !.heard = FALSE]
  BY DEF Unheard
<1>4. \A v \in Unheard : Saved(v)' /\ Asked(v)' /\ v.n \in 1..saves
  BY <1>1, <1>2, <1>3
<1>5. ASSUME NEW v \in Unheard, NEW w \in Unheard, v.n = w.n PROVE v = w
  <2>1. PICK v1 \in sent : v = [v1 EXCEPT !.heard = FALSE]
    BY <1>3
  <2>2. PICK w1 \in sent : w = [w1 EXCEPT !.heard = FALSE]
    BY <1>3
  <2>3. v1.n = w1.n
    BY <1>2, <1>5, <2>1, <2>2
  <2>4. v1 = w1
    BY <2>3 DEF ServerOK
  <2> QED BY <2>1, <2>2, <2>4
<1> QED BY <1>4, <1>5

\* The form as an item has it.
LEMMA ShowKeeps ==
  ASSUME IInv, NEW item \in Item, Sound(item), Show(item), kind' = kind, open' \in BOOLEAN
  PROVE  FormOK'
<1>1. /\ text' = item.description /\ picks' = PicksOf(item) /\ ctl' = CtlOf(item)
      /\ entry' = None /\ opened' = Opening(item)
  BY DEF Show
<1>2. picks' \in Picks /\ picks'.newContext = None /\ picks'.newProject = None
  BY <1>1, PicksTyped
<1>3. ctl' \in Fillings /\ ctl'.due = item.due /\ ctl'.showFrom = item.showFrom
  BY <1>1, CtlTyped
<1>4. opened' \in Item /\ opened'.due = item.due
  BY <1>1, OpeningTyped
<1>5. text' \in Text
  BY <1>1 DEF Item
<1>6. InTime(ctl')
  BY <1>3 DEF InTime, Sound
<1>7. entry' \in Entries' /\ Marked'
  BY <1>1, <1>2, <1>3, <1>4 DEF Entries, Marked
<1>8. InTime(ctl)'
  BY <1>6 DEF InTime
<1> QED BY <1>2, <1>3, <1>4, <1>5, <1>7, <1>8 DEF FormOK

LEMMA CloseKeeps == ASSUME IInv, Close, kind' = kind PROVE FormOK'
BY ShowKeeps, NoItemTyped DEF Close

\* What is typed is set, and the form stays.
LEMMA SetKeeps ==
  ASSUME IInv, ctl' = Committed, entry' = None, UNCHANGED <<kind, open, text, picks, opened>>
  PROVE  FormOK'
<1>1. FormOK
  BY DEF IInv
<1>2. ctl' \in Fillings /\ InTime(ctl') /\ Marked'
  BY <1>1, CommittedIs DEF FormOK, Marked, Editing
<1>3. entry' \in Entries'
  BY DEF Entries
<1>4. InTime(ctl)'
  BY <1>2 DEF InTime
<1> QED BY <1>1, <1>2, <1>3, <1>4 DEF FormOK

LEMMA SubmitKeeps == ASSUME IInv, Submit PROVE IInv'
<1>1. /\ kind # "line" /\ open /\ saves < (IF Editing THEN MaxEdits ELSE MaxAdds)
      /\ SaveOf(Shown, Request(Shown)) /\ UNCHANGED <<world, line, stored, moves>>
  BY DEF Submit
<1>2. kind' = kind /\ Editing' = Editing
  BY <1>1 DEF world, Editing
<1>3. WorldOK' /\ LineOK' /\ MovesOK'
  BY <1>1, <1>2, SameWorld, SameLine DEF IInv, MovesOK
<1>4. FormOK'
  <2>1. \/ Close
        \/ ctl' = Committed /\ entry' = None /\ UNCHANGED <<open, text, picks, opened>>
    BY <1>1 DEF SaveOf
  <2> QED BY <1>2, <2>1, CloseKeeps, SetKeeps
<1>5. ServerOK'
  <2> DEFINE limit == IF Editing THEN MaxEdits ELSE MaxAdds
  <2>0. saves \in 0..limit /\ saves < limit /\ limit \in Nat /\ stored' \in Item /\ Sound(stored')
    BY <1>1, BoundsAssumption DEF IInv, ServerOK
  <2>1. CASE UNCHANGED <<sent, saves>>
    BY <1>1, <1>2, <2>1, SameServer DEF IInv, server
  <2>2. CASE /\ saves' = saves + 1
             /\ sent' = Unheard \cup {[n |-> saves', req |-> Request(Shown), pc |-> "sent", heard |-> TRUE,
                                       made |-> {f \in DOMAIN Request(Shown) : Made(f)}, shown |-> Shown, opened |-> opened, base |-> todo]}
    <3>0. PICK new : new = [n |-> saves + 1, req |-> Request(Shown), pc |-> "sent", heard |-> TRUE,
                            made |-> {f \in DOMAIN Request(Shown) : Made(f)}, shown |-> Shown, opened |-> opened, base |-> todo]
      OBVIOUS
    <3>1. sent' = Unheard \cup {new} /\ saves' = saves + 1 /\ saves' \in 0..limit /\ saves + 1 \in Nat
      BY <2>0, <2>2, <3>0
    <3>2. /\ new.n = saves + 1 /\ new.req = Request(Shown) /\ new.shown = Shown /\ new.opened = opened
          /\ new.base = todo /\ new.made = {f \in DOMAIN new.req : Made(f)}
      BY <3>0
    <3>3. Saved(new)'
      <4>1. Shown \in Item /\ opened \in Item /\ todo \in Item
        BY ShownIs DEF IInv, FormOK, WorldOK
      <4> QED BY <3>0, <3>1, <4>1 DEF Saved
    <3>4. Asked(new)'
      <4>1. Asked(new)
        BY <3>2, RequestIs
      <4> QED BY <1>2, <4>1, AskedStill
    <3>5. /\ \A v \in Unheard : Saved(v)' /\ Asked(v)' /\ v.n \in 1..saves
          /\ \A v, w \in Unheard : v.n = w.n => v = w
      BY <1>2, UnheardKeeps DEF IInv
    <3>6. \A w \in sent' : Saved(w)' /\ Asked(w)' /\ w.n \in 1..saves' /\ kind' # "line"
      BY <1>1, <1>2, <2>0, <3>1, <3>2, <3>3, <3>4, <3>5
    <3>7. \A v, w \in sent' : v.n = w.n => v = w
      <4>1. \A v \in Unheard : v.n # new.n
        BY <2>0, <3>2, <3>5
      <4> QED BY <3>1, <3>5, <4>1
    <3> QED BY <1>2, <2>0, <3>1, <3>6, <3>7 DEF ServerOK
  <2> QED BY <1>1, <2>1, <2>2 DEF SaveOf
<1> QED BY <1>3, <1>4, <1>5 DEF IInv

-----------------------------------------------------------------------------
(* The server *)

\* What is shown, with the new names and the tags as the server reads them.
Meaning(w) == [w.shown EXCEPT !.context = IF "context" \in w.made THEN NameOf(@, "context") ELSE @,
                             !.project = IF "project" \in w.made THEN NameOf(@, "project") ELSE @,
                             !.tags    = TagNames(@)]
\* Only a name or a tag that is not plain is read as another.
AsShown(w, f, value) ==
  \/ value = w.shown[f]
  \/ f \in w.made /\ ~Plain(w.shown[f]) /\ value = NameOf(w.shown[f], f)
  \/ f = "tags" /\ ~(\A t \in w.shown[f] : Plain(t)) /\ value = TagNames(w.shown[f])

LEMMA MeaningIs ==
  ASSUME NEW w, Saved(w), Asked(w)
  PROVE  /\ Meaning(w) \in Item
         /\ \A f \in Fields \ {"context", "project", "tags"} : Meaning(w)[f] = w.shown[f]
         /\ \A f \in Fields : Meaning(w)[f] = CASE f \in w.made -> NameOf(w.shown[f], f)
                                                [] f = "tags"  -> TagNames(w.shown[f])
                                                [] OTHER       -> w.shown[f]
<1>1. w.shown \in Item /\ \A f \in w.made : f \in {"context", "project"} /\ w.shown[f] \in Text
  BY DEF Saved, Asked
<1> DEFINE c == IF "context" \in w.made THEN NameOf(w.shown.context, "context") ELSE w.shown.context
           p == IF "project" \in w.made THEN NameOf(w.shown.project, "project") ELSE w.shown.project
           g == TagNames(w.shown.tags)
<1>2. c \in Name /\ p \in Name
  BY <1>1, NameOfTyped DEF Item, Name
<1>3. g \in SUBSET Text
  BY <1>1, TagNamesTyped DEF Item
<1>4. Meaning(w) = [w.shown EXCEPT !.context = c, !.project = p, !.tags = g]
  BY <1>1 DEF Meaning, Item
<1>5. /\ "context" \in w.made => c = NameOf(w.shown["context"], "context")
      /\ "project" \in w.made => p = NameOf(w.shown["project"], "project")
      /\ "context" \notin w.made => c = w.shown["context"]
      /\ "project" \notin w.made => p = w.shown["project"]
      /\ g = TagNames(w.shown["tags"])
  OBVIOUS
<1> HIDE DEF c, p, g
<1>6. Meaning(w) \in Item
  BY <1>1, <1>2, <1>3, <1>4 DEF Item, Name
<1>7. /\ Meaning(w)["context"] = c /\ Meaning(w)["project"] = p /\ Meaning(w)["tags"] = g
      /\ \A f \in Fields \ {"context", "project", "tags"} : Meaning(w)[f] = w.shown[f]
  BY <1>1, <1>4 DEF Item, Fields
<1>8. ASSUME NEW f \in Fields
      PROVE  Meaning(w)[f] = CASE f \in w.made -> NameOf(w.shown[f], f)
                              [] f = "tags"  -> TagNames(w.shown[f])
                              [] OTHER       -> w.shown[f]
  <2>1. CASE f = "context"
    BY <1>5, <1>7, <2>1
  <2>2. CASE f = "project"
    BY <1>5, <1>7, <2>2
  <2>3. CASE f = "tags"
    BY <1>1, <1>5, <1>7, <2>3
  <2>4. CASE f \notin {"context", "project", "tags"}
    BY <1>1, <1>7, <2>4
  <2> QED BY <2>1, <2>2, <2>3, <2>4
<1> QED BY <1>6, <1>7, <1>8

LEMMA MeaningAsShown ==
  ASSUME NEW w, Saved(w), Asked(w), NEW f \in Fields
  PROVE  AsShown(w, f, Meaning(w)[f])
<1>1. w.shown \in Item /\ \A g \in w.made : g \in {"context", "project"} /\ w.shown[g] \in Text
  BY DEF Saved, Asked
<1>2. Meaning(w)[f] = CASE f \in w.made -> NameOf(w.shown[f], f)
                       [] f = "tags"  -> TagNames(w.shown[f])
                       [] OTHER       -> w.shown[f]
  BY MeaningIs
<1>3. CASE f \in w.made
  <2>1. w.shown[f] \in Text /\ Meaning(w)[f] = NameOf(w.shown[f], f)
    BY <1>1, <1>2, <1>3
  <2>2. CASE Plain(w.shown[f])
    BY <2>1, <2>2, NameOfPlain DEF AsShown
  <2>3. CASE ~Plain(w.shown[f])
    BY <1>3, <2>1, <2>3 DEF AsShown
  <2> QED BY <2>2, <2>3
<1>4. CASE f \notin w.made /\ f = "tags"
  <2>1. w.shown[f] \in SUBSET Text /\ Meaning(w)[f] = TagNames(w.shown[f])
    BY <1>1, <1>2, <1>4 DEF Item
  <2>2. CASE \A t \in w.shown[f] : Plain(t)
    BY <2>1, <2>2, TagNamesPlain DEF AsShown
  <2>3. CASE ~(\A t \in w.shown[f] : Plain(t))
    BY <1>4, <2>1, <2>3 DEF AsShown
  <2> QED BY <2>2, <2>3
<1>5. CASE f \notin w.made /\ f # "tags"
  BY <1>2, <1>5 DEF AsShown
<1> QED BY <1>3, <1>4, <1>5

\* What an item becomes: the fields that are sent, and a show-from that goes with its due date.
Kept(item, w, f)    == IF f \in DOMAIN w.req THEN Meaning(w)[f] ELSE item[f]
Filled(due, showFrom) == Clamped(due, IF due # None /\ showFrom = None THEN due - Lead ELSE showFrom)

LEMMA AskedIs ==
  ASSUME NEW w, Saved(w), Asked(w)
  PROVE  /\ Meaning(w) \in Item /\ DOMAIN Meant(w) = DOMAIN w.req /\ DOMAIN w.req \subseteq Fields
         /\ \A f \in DOMAIN w.req : Meant(w)[f] = Meaning(w)[f]
         /\ Meaning(w)["due"] = w.shown["due"] /\ Meaning(w)["showFrom"] = w.shown["showFrom"]
<1>1. DOMAIN w.req \subseteq Parts /\ \A f \in DOMAIN w.req : w.req[f] = w.shown[f]
  BY Zenon DEF Asked
<1>2. DOMAIN w.req \subseteq Fields
  BY <1>1, PartsAre
<1>3. DOMAIN Meant(w) = DOMAIN w.req
  BY DEF Meant
<1>4. ASSUME NEW f \in DOMAIN w.req PROVE Meant(w)[f] = Meaning(w)[f]
  <2>1. w.req[f] = w.shown[f] /\ f \in Fields
    BY <1>1, <1>2
  <2>2. Meant(w)[f] = CASE f \in w.made -> NameOf(w.req[f], f)
                        [] f = "tags"   -> TagNames(w.req[f])
                        [] OTHER        -> w.req[f]
    BY DEF Meant
  <2>3. Meaning(w)[f] = CASE f \in w.made -> NameOf(w.shown[f], f)
                         [] f = "tags"  -> TagNames(w.shown[f])
                         [] OTHER       -> w.shown[f]
    BY <2>1, MeaningIs
  <2> QED BY <2>1, <2>2, <2>3
<1>5. Meaning(w) \in Item /\ Meaning(w)["due"] = w.shown["due"] /\ Meaning(w)["showFrom"] = w.shown["showFrom"]
  BY MeaningIs DEF Fields
<1> QED BY <1>2, <1>3, <1>4, <1>5

LEMMA UpdatedIs ==
  ASSUME NEW item \in Item, NEW w, Saved(w), Asked(w)
  PROVE  /\ Updated(item, Meant(w)) \in Item /\ Sound(Updated(item, Meant(w)))
         /\ \A f \in Fields \ {"showFrom"} : Updated(item, Meant(w))[f] = Kept(item, w, f)
         /\ Updated(item, Meant(w)).showFrom =
              Filled(Kept(item, w, "due"),
                     IF "due" \in DOMAIN w.req /\ w.shown.due = None THEN None ELSE Kept(item, w, "showFrom"))
<1>1. /\ Meaning(w) \in Item /\ DOMAIN Meant(w) = DOMAIN w.req /\ DOMAIN w.req \subseteq Fields
      /\ \A f \in DOMAIN w.req : Meant(w)[f] = Meaning(w)[f]
      /\ Meaning(w)["due"] = w.shown["due"]
  BY AskedIs
<1> DEFINE put == Put(item, Meant(w))
           s == IF Clears(Meant(w)) THEN None ELSE put.showFrom
           new == [put EXCEPT !.showFrom = s]
<1>2. put \in Item /\ \A f \in Fields : put[f] = Kept(item, w, f)
  <2>1. DOMAIN Meant(w) \subseteq Fields /\ \A f \in DOMAIN Meant(w) : Meant(w)[f] = Meaning(w)[f]
    BY <1>1
  <2>2. /\ put \in Item
        /\ \A f \in Fields : put[f] = IF f \in DOMAIN Meant(w) THEN Meaning(w)[f] ELSE item[f]
    BY <1>1, <2>1, PutIs
  <2> HIDE DEF put
  <2> QED BY <1>1, <2>2 DEF Kept
<1>3. Clears(Meant(w)) <=> "due" \in DOMAIN w.req /\ w.shown.due = None
  BY <1>1 DEF Clears
<1>4. Updated(item, Meant(w)) = Dated(new)
  BY <1>2 DEF Updated, Item
<1> HIDE DEF put
<1>5. s \in Day
  BY <1>2 DEF Item, Day
<1>6. s = IF "due" \in DOMAIN w.req /\ w.shown.due = None THEN None ELSE Kept(item, w, "showFrom")
  BY <1>2, <1>3 DEF Fields
<1> HIDE DEF s
<1>7. new \in Item /\ new.showFrom = s /\ \A f \in Fields \ {"showFrom"} : new[f] = Kept(item, w, f)
  <2>1. new \in Item /\ new.showFrom = s
    BY <1>2, <1>5 DEF Item
  <2>2. \A f \in Fields \ {"showFrom"} : new[f] = put[f]
    BY <1>2 DEF Item, Fields
  <2> QED BY <1>2, <2>1, <2>2
<1> HIDE DEF new
<1>8. /\ Dated(new) \in Item /\ Sound(Dated(new))
      /\ \A f \in Fields \ {"showFrom"} : Dated(new)[f] = new[f]
      /\ Dated(new).showFrom = Filled(new.due, new.showFrom)
  BY <1>7, DatedIs DEF Filled
<1>9. new.due = Kept(item, w, "due")
  BY <1>7 DEF Fields
<1> QED BY <1>4, <1>6, <1>7, <1>8, <1>9

LEMMA CreatedIs ==
  ASSUME NEW w, Saved(w), Asked(w)
  PROVE  /\ Created(Meant(w)) \in Item /\ Sound(Created(Meant(w)))
         /\ \A f \in DOMAIN w.req \ {"showFrom"} : Created(Meant(w))[f] = Meaning(w)[f]
         /\ "due" \in DOMAIN w.req /\ "showFrom" \in DOMAIN w.req =>
              Created(Meant(w)).showFrom = Filled(w.shown.due, w.shown.showFrom)
<1>1. /\ Meaning(w) \in Item /\ DOMAIN Meant(w) = DOMAIN w.req /\ DOMAIN w.req \subseteq Fields
      /\ \A f \in DOMAIN w.req : Meant(w)[f] = Meaning(w)[f]
      /\ Meaning(w)["due"] = w.shown["due"] /\ Meaning(w)["showFrom"] = w.shown["showFrom"]
  BY AskedIs
<1> DEFINE blank == [NoItem EXCEPT !.weekdays = {}]
           put == Put(blank, Meant(w))
<1>2. blank \in Item
  <2>1. NoItem \in Item
    BY NoItemTyped
  <2> QED BY <2>1 DEF Item
<1> HIDE DEF blank
<1>3. put \in Item /\ \A f \in Fields : put[f] = Kept(blank, w, f)
  <2>1. DOMAIN Meant(w) \subseteq Fields /\ \A f \in DOMAIN Meant(w) : Meant(w)[f] = Meaning(w)[f]
    BY <1>1
  <2>2. /\ put \in Item
        /\ \A f \in Fields : put[f] = IF f \in DOMAIN Meant(w) THEN Meaning(w)[f] ELSE blank[f]
    BY <1>1, <1>2, <2>1, PutIs
  <2> HIDE DEF put
  <2> QED BY <1>1, <2>2 DEF Kept
<1>4. Created(Meant(w)) = Dated(put)
  BY DEF Created, blank
<1> HIDE DEF put
<1>5. /\ Dated(put) \in Item /\ Sound(Dated(put))
      /\ \A f \in Fields \ {"showFrom"} : Dated(put)[f] = put[f]
      /\ Dated(put).showFrom = Filled(put.due, put.showFrom)
  BY <1>3, DatedIs DEF Filled
<1>6. \A f \in DOMAIN w.req : put[f] = Meaning(w)[f]
  BY <1>1, <1>3 DEF Kept
<1> QED BY <1>1, <1>4, <1>5, <1>6

\* A step of the server's that replaces a save by one that asks for the same.
LEMMA AnsweredKeeps ==
  ASSUME IInv, NEW w \in sent, NEW pc \in {"ok", "failed"},
         sent' = (sent \ {w}) \cup {[w EXCEPT !.pc = pc]}, stored' \in Item, Sound(stored'),
         UNCHANGED <<world, form, line, saves, moves>>
  PROVE  IInv'
<1>1. kind' = kind /\ Editing' = Editing
  BY DEF world, Editing
<1>2. WorldOK' /\ FormOK' /\ LineOK' /\ MovesOK'
  BY <1>1, SameWorld, SameForm, SameLine DEF IInv, MovesOK, form, fields
<1>3. /\ \A v \in sent : Saved(v) /\ Saved(v)' /\ Asked(v) /\ Asked(v)' /\ v.n \in 1..saves /\ kind # "line"
      /\ \A u, v \in sent : u.n = v.n => u = v
  BY <1>1, AskedStill DEF IInv, ServerOK, Saved
<1> DEFINE v == [w EXCEPT !.pc = pc]
<1>4. /\ v \in [n : Nat, req : {w.req}, made : {w.made}, pc : {"sent", "ok", "failed"}, heard : BOOLEAN,
                shown : Item, opened : Item, base : Item]
      /\ v.n = w.n /\ v.req = w.req /\ v.made = w.made /\ v.shown = w.shown /\ v.opened = w.opened /\ v.base = w.base
  BY <1>3 DEF Saved
<1>5. sent' = (sent \ {w}) \cup {v}
  OBVIOUS
<1> HIDE DEF v
<1>6. Saved(v)' /\ Asked(v)'
  BY <1>3, <1>4 DEF Saved, Asked
<1>7. /\ \A u \in sent' : Saved(u)' /\ Asked(u)' /\ u.n \in 1..saves /\ kind # "line"
      /\ \A t, u \in sent' : t.n = u.n => t = u
  BY <1>3, <1>4, <1>5, <1>6
<1>8. ServerOK'
  BY <1>1, <1>7 DEF IInv, ServerOK
<1> QED BY <1>2, <1>8 DEF IInv

LEMMA ResultIs ==
  ASSUME IInv, NEW w \in sent
  PROVE  Saved(w) /\ Asked(w) /\ stored \in Item /\ Result(w) \in Item /\ Sound(Result(w))
<1>1. Saved(w) /\ Asked(w) /\ stored \in Item
  BY DEF IInv, ServerOK
<1> QED BY <1>1, UpdatedIs, CreatedIs DEF Result

\* A save that fails half-way differs in the tags alone.
LEMMA CarriedIs ==
  ASSUME IInv, NEW w \in sent, Carried(w)
  PROVE  /\ stored' \in Item /\ Sound(stored')
         /\ \A f \in Fields \ {"tags"} : stored'[f] = Result(w)[f]
         /\ stored' = Result(w) \/ (CarryHalf(w) /\ "tags" \in DOMAIN w.req)
<1>1. stored \in Item /\ Result(w) \in Item /\ Sound(Result(w))
  BY ResultIs
<1>2. CASE Carry(w, "ok") \/ Carry(w, "failed")
  BY <1>1, <1>2 DEF Carry
<1>3. CASE CarryHalf(w)
  <2> DEFINE r == Result(w)
  <2> HIDE DEF r
  <2>1. r \in Item /\ Sound(r)
    BY <1>1 DEF r
  <2>2. PICK left \in {{}, IF Editing THEN stored.tags ELSE {}} : stored' = [r EXCEPT !.tags = left]
    BY <1>3 DEF CarryHalf, r
  <2>3. left \in SUBSET Text
    BY <1>1 DEF Item
  <2>4. [r EXCEPT !.tags = left] \in Item
    BY <2>1, <2>3 DEF Item
  <2>5. \A f \in Fields \ {"tags"} : [r EXCEPT !.tags = left][f] = r[f]
    BY <2>1 DEF Item, Fields
  <2>6. Sound([r EXCEPT !.tags = left])
    BY <2>1 DEF Sound, Item
  <2>7. "tags" \in DOMAIN w.req
    BY <1>3 DEF CarryHalf
  <2> QED BY <1>3, <2>2, <2>4, <2>5, <2>6, <2>7 DEF r
<1> QED BY <1>2, <1>3 DEF Carried

LEMMA CarryKeeps == ASSUME IInv, NEW w \in sent, Carried(w) PROVE IInv'
<1>1. stored' \in Item /\ Sound(stored')
  BY CarriedIs
<1>2. CASE Carry(w, "ok")
  BY <1>1, <1>2, AnsweredKeeps DEF Carry
<1>3. CASE Carry(w, "failed")
  BY <1>1, <1>3, AnsweredKeeps DEF Carry
<1>4. CASE CarryHalf(w)
  BY <1>1, <1>4, AnsweredKeeps DEF CarryHalf
<1> QED BY <1>2, <1>3, <1>4 DEF Carried

LEMMA RefuseKeeps == ASSUME IInv, NEW w \in sent, Refuse(w) PROVE IInv'
<1>1. stored' \in Item /\ Sound(stored')
  BY DEF Refuse, IInv, ServerOK
<1> QED BY <1>1, AnsweredKeeps DEF Refuse

\* An added action empties the form.
LEMMA AddedKeeps ==
  ASSUME IInv, NEW w \in sent, Added(w), kind \notin {"edit", "defer", "rework"}
  PROVE  WorldOK' /\ FormOK' /\ LineOK'
<1>1. /\ remembered' \in Names(Contexts) \cup {None} /\ text' = <<>>
      /\ UNCHANGED <<line, kind, loaded, todo, opened, open>> /\ ~Editing
  BY DEF Added, Editing
<1>2. WorldOK'
  BY <1>1 DEF IInv, WorldOK
<1>3. picks \in Picks /\ ctl \in Fillings /\ InTime(ctl) /\ entry \in Entries
  BY DEF IInv, FormOK
<1>4. picks' \in Picks
  BY <1>3 DEF Added, Picks, Name
<1>5. ctl' \in Fillings /\ InTime(ctl')
  <2>1. ctl' \in {[ctl EXCEPT !.tags = {}], [ctl EXCEPT !.tags = {}, !.due = None, !.showFrom = None]}
    BY DEF Added
  <2>2. [ctl EXCEPT !.tags = {}] \in Fillings /\ InTime([ctl EXCEPT !.tags = {}])
    BY <1>3 DEF Fillings, InTime
  <2>3. /\ [ctl EXCEPT !.tags = {}, !.due = None, !.showFrom = None] \in Fillings
        /\ InTime([ctl EXCEPT !.tags = {}, !.due = None, !.showFrom = None])
    BY <1>3 DEF Fillings, InTime, Day
  <2> QED BY <2>1, <2>2, <2>3
<1>6. entry' \in Entries'
  BY <1>1, <1>3 DEF Added, Entries, Dates, Pattern
<1>7. Marked' /\ text' \in Text
  BY <1>1 DEF Marked, Editing, Text
<1>8. InTime(ctl)'
  BY <1>5 DEF InTime
<1>9. FormOK'
  BY <1>1, <1>4, <1>5, <1>6, <1>7, <1>8 DEF IInv, FormOK
<1>10. LineOK'
  <2>1. kind # "line"
    BY DEF IInv, ServerOK
  <2> QED BY <1>1, <2>1 DEF IInv, LineOK, line
<1> QED BY <1>2, <1>9, <1>10

LEMMA AnswerKeeps == ASSUME IInv, NEW w \in sent, Answer(w) PROVE IInv'
<1>1. sent' = sent \ {w} /\ UNCHANGED <<stored, saves, moves>> /\ kind' = kind /\ Editing' = Editing
  BY DEF Answer, Added, world, Editing
<1>2. ServerOK' /\ MovesOK'
  <2>1. \A v \in sent : Saved(v) /\ Saved(v)' /\ Asked(v) /\ Asked(v)' /\ v.n \in 1..saves /\ kind # "line"
    BY <1>1, AskedStill DEF IInv, ServerOK, Saved
  <2> QED BY <1>1, <2>1 DEF IInv, ServerOK, MovesOK
<1>3. WorldOK' /\ FormOK' /\ LineOK'
  <2>1. CASE UNCHANGED <<world, form, line>>
    BY <1>1, <2>1, SameWorld, SameForm, SameLine DEF IInv, form, fields
  <2>2. CASE Close /\ UNCHANGED <<world, line>>
    <3>1. kind # "line"
      BY DEF IInv, ServerOK
    <3> QED BY <1>1, <2>2, <3>1, CloseKeeps, SameWorld, SameLine DEF IInv
  <2>3. CASE Added(w) /\ kind \notin {"edit", "defer", "rework"}
    BY <2>3, AddedKeeps
  <2> QED BY <2>1, <2>2, <2>3 DEF Answer
<1> QED BY <1>2, <1>3 DEF IInv

LEMMA DismissKeeps == ASSUME IInv, Dismiss PROVE IInv'
<1>1. Editing /\ Close /\ sent' = Unheard /\ UNCHANGED <<world, line, stored, saves, moves>>
      /\ kind' = kind /\ Editing' = Editing /\ kind # "line"
  BY DEF Dismiss, world, Editing
<1>2. WorldOK' /\ FormOK' /\ LineOK' /\ MovesOK'
  BY <1>1, CloseKeeps, SameWorld, SameLine DEF IInv, MovesOK
<1>3. /\ \A v \in sent' : Saved(v)' /\ Asked(v)' /\ v.n \in 1..saves /\ kind # "line"
      /\ \A v, w \in sent' : v.n = w.n => v = w
  BY <1>1, UnheardKeeps DEF IInv
<1> QED BY <1>1, <1>2, <1>3 DEF IInv, ServerOK

LEMMA ReopenKeeps == ASSUME IInv, Reopen PROVE IInv'
<1>1. Editing /\ open' = TRUE /\ Show(todo) /\ UNCHANGED <<world, line, server, moves>>
      /\ kind' = kind /\ kind # "line"
  BY DEF Reopen, world, Editing
<1>2. FormOK'
  BY <1>1, ShowKeeps DEF IInv, WorldOK
<1> QED BY <1>1, <1>2, SameWorld, SameLine, SameServer DEF IInv, MovesOK

\* Another tab, and the list.
LEMMA ElsewhereKeeps ==
  ASSUME IInv, NEW item \in Actions \cup Patterns, Elsewhere(item)
  PROVE  IInv'
<1>1. /\ moves < MaxMoves /\ moves' = moves + 1 /\ stored' = item
      /\ UNCHANGED <<world, form, line, sent, saves>> /\ kind' = kind /\ Editing' = Editing
  BY DEF Elsewhere, world, Editing
<1>2. item \in Item /\ Sound(item)
  BY ItemsAssumption
<1>3. WorldOK' /\ FormOK' /\ LineOK'
  BY <1>1, SameWorld, SameForm, SameLine DEF IInv, form, fields
<1>4. ServerOK'
  <2>1. \A v \in sent : Saved(v)' /\ Asked(v)'
    BY <1>1, AskedStill DEF IInv, ServerOK, Saved
  <2> QED BY <1>1, <1>2, <2>1 DEF IInv, ServerOK
<1>5. MovesOK'
  BY <1>1, BoundsAssumption DEF IInv, MovesOK
<1> QED BY <1>3, <1>4, <1>5 DEF IInv

LEMMA RefetchKeeps == ASSUME IInv, Refetch PROVE IInv'
<1>1. todo' = stored /\ UNCHANGED <<kind, loaded, remembered, form, line, server, moves>>
  BY DEF Refetch
<1>2. WorldOK'
  BY <1>1 DEF IInv, WorldOK, ServerOK
<1> QED BY <1>1, <1>2, SameForm, SameLine, SameServer DEF IInv, MovesOK, form, fields

-----------------------------------------------------------------------------
(* Every step *)

LEMMA StillKeeps == ASSUME IInv, UNCHANGED vars PROVE IInv'
BY SameWorld, SameForm, SameLine, SameServer DEF IInv, MovesOK, vars, world, form, fields

LEMMA NextKeeps == IInv /\ [Next]_vars => IInv'
<1> SUFFICES ASSUME IInv, [Next]_vars PROVE IInv'
  OBVIOUS
<1>1. CASE UNCHANGED vars
  BY <1>1, StillKeeps
<1>2. CASE (\E c \in Alphabet : Type(c)) \/ Erase \/ Focus \/ Hide \/ Complete
           \/ \E c \in 0..Len(text) : MoveCaret(c)
  BY <1>2, TypeKeeps, EraseKeeps, CaretKeeps, CompleteKeeps
<1>3. CASE \E p \in (IF Editing THEN Words ELSE Phrases) : Rephrase(p)
  BY <1>3, TextKeeps
<1>4. CASE \/ \E c \in Names(Contexts) : PickContext(c)
           \/ \E p \in Names(Projects) \cup {None} : PickProject(p)
           \/ \E n \in NewNames : NameContext(n) \/ NameProject(n)
  BY <1>4, PicksKeep
<1>5. CASE \/ \E l \in SUBSET Labels : SetTags(l)
           \/ \E p \in {"weekly", "monthly"} : SetPeriod(p)
           \/ \E d \in Weekdays : ToggleDay(d)
  BY <1>5, FillsKeep
<1>6. CASE \/ \E f \in Dates, d \in Days : ChooseDay(f, d) \/ TypeDay(f, d)
           \/ \E f \in Dates : ClearDay(f) \/ TypeDay(f, None)
  BY <1>6, DaysKeep, TypedDays
<1>7. CASE CommitDay \/ LoadPreferences \/ Submit \/ Dismiss \/ Reopen \/ Refetch
  BY <1>7, CommitKeeps, LoadKeeps, SubmitKeeps, DismissKeeps, ReopenKeeps, RefetchKeeps
<1>8. CASE \E w \in sent : Carried(w) \/ Refuse(w) \/ Answer(w)
  BY <1>8, CarryKeeps, RefuseKeeps, AnswerKeeps
<1>9. CASE \E item \in (IF Pattern THEN Patterns ELSE Actions) : Elsewhere(item)
  BY <1>9, ElsewhereKeeps
<1> QED BY <1>1, <1>2, <1>3, <1>4, <1>5, <1>6, <1>7, <1>8, <1>9 DEF Next

LEMMA Invariant == Spec => []IInv
<1> QED BY Initially, NextKeeps, PTL DEF Spec

\* No form shows an action that hides past the day it is due, and no item is stored that does
\* (DateFields.tsx, todo.go): whatever is typed, picked, sent, refused or changed elsewhere,
\* every field of an item has a value, the caret stays in its line, and saves are told apart.
THEOREM FormsTypeOK == Spec => []TypeOK
<1> QED BY Invariant, Typed, PTL

-----------------------------------------------------------------------------
(* What a save leaves behind *)

\* A show-from that is in time stays; a blank one comes the lead time before the due date.
LEMMA FilledIs ==
  ASSUME NEW due \in Day, NEW s \in Day, due # None /\ s # None => s <= due
  PROVE  Filled(due, s) = IF due # None /\ s = None THEN due - Lead ELSE s
<1>1. CASE due # None /\ s = None
  <2>1. due \in Int /\ due - Lead \in Int /\ due - Lead <= due /\ due - Lead \in Day
    BY <1>1, DaysAssumption DEF Day
  <2>2. Clamped(due, due - Lead) = due - Lead
    BY <2>1, ClampedIs
  <2> QED BY <1>1, <2>2 DEF Filled
<1>2. CASE ~(due # None /\ s = None)
  <2>1. Clamped(due, s) = s
    BY <1>2, ClampedIs
  <2> QED BY <1>2, <2>1 DEF Filled
<1> QED BY <1>1, <1>2

LEMMA SoundIs == ASSUME NEW item \in Item, Sound(item) PROVE Filled(item.due, item.showFrom) = item.showFrom
<1>1. item.due \in Day /\ item.showFrom \in Day
  BY DEF Item
<1>2. (item.due # None => item.showFrom # None /\ item.showFrom <= item.due)
  BY DEF Sound
<1> QED BY <1>1, <1>2, FilledIs

LEMMA ShownFills ==
  ASSUME NEW w, Saved(w), Asked(w)
  PROVE  Filled(w.shown.due, w.shown.showFrom) =
           IF w.shown.due # None /\ w.shown.showFrom = None THEN w.shown.due - Lead ELSE w.shown.showFrom
<1>1. w.shown \in Item /\ InTime(w.shown)
  BY DEF Saved, Asked
<1>2. w.shown.due \in Day /\ w.shown.showFrom \in Day
  BY <1>1 DEF Item
<1> QED BY <1>1, <1>2, FilledIs DEF InTime

\* Something that is new is all that was shown.
LEMMA AddsWhatIsShown ==
  ASSUME NEW w, Saved(w), Asked(w), ~Editing, NEW f \in Parts
  PROVE  \/ AsShown(w, f, Created(Meant(w))[f])
         \/ f = "showFrom" /\ w.shown[f] = None /\ w.shown.due # None
            /\ Created(Meant(w))[f] = w.shown.due - Lead
         \/ f = "weekdays" /\ w.shown.period # "weekly"
<1>1. \A g \in Parts : g \notin DOMAIN w.req => g = "weekdays" /\ w.shown.period # "weekly"
  BY DEF Asked, Editing
<1>2. CASE f \notin DOMAIN w.req
  BY <1>1, <1>2
<1>3. CASE f \in DOMAIN w.req /\ f # "showFrom"
  <2>1. Created(Meant(w))[f] = Meaning(w)[f]
    BY <1>3, CreatedIs
  <2>2. AsShown(w, f, Meaning(w)[f])
    BY MeaningAsShown, PartsAre
  <2> QED BY <2>1, <2>2
<1>4. CASE f \in DOMAIN w.req /\ f = "showFrom"
  <2>1. "due" \in DOMAIN w.req
    BY <1>1, <1>4, PartsAre
  <2>2. Created(Meant(w)).showFrom = Filled(w.shown.due, w.shown.showFrom)
    BY <1>4, <2>1, CreatedIs
  <2> QED BY <1>4, <2>2, ShownFills DEF AsShown
<1> QED BY <1>2, <1>3, <1>4

\* A pattern sends all of it; of an action, what is not sent is as it was shown.
LEMMA EditsWhatIsShown ==
  ASSUME NEW item \in Item, NEW w, Saved(w), Asked(w), Editing,
         \A g \in Parts : w.opened[g] = w.base[g] /\ item[g] = w.base[g], NEW f \in Parts
  PROVE  \/ AsShown(w, f, Updated(item, Meant(w))[f])
         \/ f = "showFrom" /\ w.shown[f] = None /\ w.shown.due # None
            /\ Updated(item, Meant(w))[f] = w.shown.due - Lead
         \/ f = "weekdays" /\ w.shown.period # "weekly"
<1>0. f \in Fields
  BY PartsAre
<1>1. /\ \A g \in Fields \ {"showFrom"} : Updated(item, Meant(w))[g] = Kept(item, w, g)
      /\ Updated(item, Meant(w)).showFrom =
           Filled(Kept(item, w, "due"),
                  IF "due" \in DOMAIN w.req /\ w.shown.due = None THEN None ELSE Kept(item, w, "showFrom"))
  BY UpdatedIs
<1>2. CASE kind \in {"edit", "defer"}
  <2>1. \A g \in Parts : g \notin DOMAIN w.req => Kept(item, w, g) = w.shown[g]
    BY <1>2 DEF Kept, Asked
  <2>2. \A g \in DOMAIN w.req : Kept(item, w, g) = Meaning(w)[g]
    BY DEF Kept
  <2>3. CASE f # "showFrom"
    <3>1. Updated(item, Meant(w))[f] = Kept(item, w, f)
      BY <1>0, <1>1, <2>3
    <3>2. AsShown(w, f, Meaning(w)[f])
      BY <1>0, MeaningAsShown
    <3>3. CASE f \in DOMAIN w.req
      BY <2>2, <3>1, <3>2, <3>3
    <3>4. CASE f \notin DOMAIN w.req
      BY <2>1, <3>1, <3>4 DEF AsShown
    <3> QED BY <3>3, <3>4
  <2>4. CASE f = "showFrom"
    <3>1. "due" \in Parts
      BY <2>4, PartsAre
    <3>2. "due" \in DOMAIN w.req /\ w.shown.due = None => w.shown.showFrom = None
      <4> SUFFICES ASSUME "due" \in DOMAIN w.req, w.shown.due = None, w.shown.showFrom # None PROVE FALSE
        OBVIOUS
      <4>1. w.opened.due = None
        BY <1>2 DEF Asked
      <4>2. w.shown["due"] # w.base["due"]
        BY <1>2 DEF Asked
      <4>3. w.opened["due"] = w.base["due"]
        BY <3>1
      <4> QED BY <4>1, <4>2, <4>3
    <3>3. Kept(item, w, "due") = w.shown.due /\ Kept(item, w, "showFrom") = w.shown.showFrom
      <4>1. Meaning(w)["due"] = w.shown["due"] /\ Meaning(w)["showFrom"] = w.shown["showFrom"]
        BY AskedIs
      <4> QED BY <2>1, <2>2, <2>4, <3>1, <4>1
    <3>4. Updated(item, Meant(w)).showFrom = Filled(w.shown.due, w.shown.showFrom)
      BY <1>1, <3>2, <3>3
    <3> QED BY <2>4, <3>4, ShownFills DEF AsShown
  <2> QED BY <2>3, <2>4
<1>3. CASE kind = "rework"
  <2>1. f # "showFrom"
    BY <1>3, PartsAre DEF Pattern
  <2>2. f \notin DOMAIN w.req => f = "weekdays" /\ w.shown.period # "weekly"
    BY <1>3 DEF Asked
  <2>3. CASE f \in DOMAIN w.req
    <3>1. Updated(item, Meant(w))[f] = Meaning(w)[f]
      BY <1>0, <1>1, <2>1, <2>3 DEF Kept
    <3> QED BY <1>0, <3>1, MeaningAsShown
  <2> QED BY <2>2, <2>3
<1> QED BY <1>2, <1>3 DEF Editing

\* "Instead of snapping to it after a round-trip" (DateFields.tsx:57-60): what a form showed is
\* what is stored, whichever of its fields were sent, when the item is as the form was opened
\* on; names and tags that are not plain are stored bare, and a save that fails half-way loses
\* its tags (resolve.go, todo.go).
THEOREM FormsSaveWhatIsShown == Spec => SavesWhatIsShown
<1>1. ASSUME IInv, NEW w \in sent, Carried(w),
             Editing => \A f \in Parts : w.opened[f] = w.base[f] /\ stored[f] = w.base[f], NEW f \in Parts
      PROVE  \/ AsShown(w, f, stored'[f])
             \/ f = "showFrom" /\ w.shown[f] = None /\ w.shown.due # None
                /\ stored'[f] = w.shown.due - Lead
             \/ f = "weekdays" /\ w.shown.period # "weekly"
             \/ f = "tags" /\ CarryHalf(w)
  <2>1. Saved(w) /\ Asked(w) /\ stored \in Item
    BY <1>1, ResultIs
  <2>2. \/ AsShown(w, f, Result(w)[f])
        \/ f = "showFrom" /\ w.shown[f] = None /\ w.shown.due # None
           /\ Result(w)[f] = w.shown.due - Lead
        \/ f = "weekdays" /\ w.shown.period # "weekly"
    <3>1. CASE Editing
      BY <1>1, <2>1, <3>1, EditsWhatIsShown DEF Result
    <3>2. CASE ~Editing
      BY <1>1, <2>1, <3>2, AddsWhatIsShown DEF Result
    <3> QED BY <3>1, <3>2
  <2>3. stored'[f] = Result(w)[f] \/ (f = "tags" /\ CarryHalf(w))
    <3>1. /\ \A g \in Fields \ {"tags"} : stored'[g] = Result(w)[g]
          /\ stored' = Result(w) \/ CarryHalf(w)
      BY <1>1, CarriedIs
    <3> QED BY <1>1, <3>1, PartsAre
  <2> QED BY <2>2, <2>3
<1>2. IInv =>
        \A w \in sent :
          /\ Carried(w)
          /\ Editing => \A f \in Parts : w.opened[f] = w.base[f] /\ stored[f] = w.base[f]
          => \A f \in Parts :
               \/ stored'[f] = w.shown[f]
               \/ f = "showFrom" /\ w.shown[f] = None /\ w.shown.due # None
                  /\ stored'[f] = w.shown.due - Lead
               \/ f = "weekdays" /\ w.shown.period # "weekly"
               \/ f \in w.made /\ ~Plain(w.shown[f]) /\ stored'[f] = NameOf(w.shown[f], f)
               \/ f = "tags" /\ ~(\A t \in w.shown[f] : Plain(t)) /\ stored'[f] = TagNames(w.shown[f])
               \/ f = "tags" /\ CarryHalf(w)
  BY <1>1 DEF AsShown
<1> QED BY <1>2, Invariant, PTL DEF SavesWhatIsShown

\* Saving an action leaves alone what was not touched in its form, whatever another tab changed
\* there, or puts back what the form was opened with, and that only if the list had the field
\* otherwise when the form was saved (ActionForm.tsx:141-172).  A show-from goes with its due date.
THEOREM FormsKeepTheRest == Spec => KeepsTheRest
<1>1. ASSUME IInv, NEW w \in sent, Carried(w), kind \in {"edit", "defer"}, NEW f \in Fields,
             Untouched(w, f)
      PROVE  Stays(w, f) \/ PutBack(w, f)
  <2>1. Saved(w) /\ Asked(w) /\ stored \in Item /\ Sound(stored)
    BY <1>1 DEF IInv, ServerOK
  <2>2. Result(w) = Updated(stored, Meant(w))
    BY <1>1 DEF Result, Editing
  <2>3. /\ \A g \in Fields \ {"showFrom"} : Result(w)[g] = Kept(stored, w, g)
        /\ Result(w).showFrom =
             Filled(Kept(stored, w, "due"),
                    IF "due" \in DOMAIN w.req /\ w.shown.due = None THEN None ELSE Kept(stored, w, "showFrom"))
    BY <2>1, <2>2, UpdatedIs
  <2>4. /\ DOMAIN w.req \subseteq Parts
        /\ \A g \in DOMAIN w.req : \/ w.shown[g] # w.base[g]
                                   \/ g \in {"context", "project"} /\ w.shown[g] # w.opened[g]
        /\ \A g \in w.made : w.shown[g] # w.opened[g]
    BY <1>1, <2>1 DEF Asked
  <2>5. /\ \A g \in Fields \ {"tags"} : stored'[g] = Result(w)[g]
        /\ stored' = Result(w) \/ (CarryHalf(w) /\ "tags" \in DOMAIN w.req)
    BY <1>1, CarriedIs
  <2>6. CASE f \notin DOMAIN w.req /\ f # "showFrom"
    <3>1. stored'[f] = Result(w)[f]
      BY <1>1, <2>5, <2>6
    <3> QED BY <2>3, <2>6, <3>1 DEF Kept, Stays
  <2>7. CASE f \notin DOMAIN w.req /\ f = "showFrom"
    <3>1. CASE w.shown.due = w.base.due
      <4>1. "due" \notin DOMAIN w.req
        BY <2>4, <3>1
      <4>2. Result(w).showFrom = Filled(stored.due, stored.showFrom)
        BY <2>3, <2>7, <4>1 DEF Kept
      <4>3. stored'[f] = Result(w).showFrom
        BY <2>5, <2>7
      <4> QED BY <2>1, <2>7, <4>2, <4>3, SoundIs DEF Stays
    <3>2. CASE w.shown.due # w.base.due
      BY <2>7, <3>2 DEF Stays
    <3> QED BY <3>1, <3>2
  <2>8. CASE f \in DOMAIN w.req
    <3>1. f \in Parts /\ w.shown[f] = w.opened[f]
      BY <1>1, <2>4, <2>8 DEF Untouched
    <3>2. w.opened[f] # w.base[f] /\ f \notin w.made
      BY <2>4, <2>8, <3>1
    <3>3. CASE f = "showFrom"
      BY <3>1, <3>2, <3>3 DEF PutBack
    <3>4. CASE f # "showFrom"
      <4>1. Result(w)[f] = IF f = "tags" THEN TagNames(w.opened[f]) ELSE w.opened[f]
        <5>1. Result(w)[f] = Meaning(w)[f]
          BY <1>1, <2>3, <2>8, <3>4 DEF Kept
        <5> QED BY <2>1, <3>1, <3>2, <5>1, MeaningIs
      <4>2. stored'[f] = Result(w)[f] \/ (f = "tags" /\ CarryHalf(w))
        BY <1>1, <2>5
      <4> QED BY <3>1, <3>2, <4>1, <4>2 DEF PutBack
    <3> QED BY <3>3, <3>4
  <2> QED BY <2>6, <2>7, <2>8
<1>2. IInv =>
        \A w \in sent :
          Carried(w) /\ kind \in {"edit", "defer"}
          => \A f \in Fields : Untouched(w, f) => Stays(w, f) \/ PutBack(w, f)
  BY <1>1
<1> QED BY <1>2, Invariant, PTL DEF KeepsTheRest

-----------------------------------------------------------------------------
(* Texts that agree up to a sigil *)

Agree(t, u, s) == /\ s \in 1..Len(t) /\ s < Len(u) /\ \A k \in 1..s : t[k] = u[k]
                  /\ u[s] \in Sigils /\ Starts(u, s)

LEMMA Stops == /\ Mark \notin Sigils /\ \A c \in Sigils : c # " " /\ c # Mark
               /\ \A c : c \in Sigils \cup {" ", Mark} <=> c \in Sigils \/ c = " " \/ c = Mark
BY DEF Sigils, Mark

LEMMA UntilAgrees ==
  ASSUME NEW t \in Text, NEW u \in Text, NEW s, Agree(t, u, s), NEW i \in 1..s, NEW stops,
         Until(u, i, stops) <= s
  PROVE  Until(t, i, stops) = Until(u, i, stops)
<1>1. /\ Len(t) \in Nat /\ Len(u) \in Nat /\ s \in 1..Len(t) /\ s < Len(u) /\ \A k \in 1..s : t[k] = u[k]
  BY DEF Agree, Text
<1> DEFINE m == Until(u, i, stops)
<1>2. /\ m \in i..Len(u) + 1 /\ m <= s /\ (m <= Len(u) => u[m] \in stops)
      /\ \A k \in i..m - 1 : k <= Len(u) /\ u[k] \notin stops
  <2>1. i \in 1..Len(u) + 1
    BY <1>1
  <2> QED BY <2>1, UntilIs
<1> HIDE DEF m
<1>3. /\ m \in i..Len(t) + 1 /\ (m <= Len(t) => t[m] \in stops) /\ \A k \in i..m - 1 : t[k] \notin stops
      /\ i \in 1..Len(t) + 1
  BY <1>1, <1>2
<1>4. Until(t, i, stops) = m
  BY <1>3, UntilFirst
<1> QED BY <1>4 DEF m

LEMMA StretchAgrees ==
  ASSUME NEW t \in Text, NEW u \in Text, NEW s, Agree(t, u, s), NEW i \in Nat \ {0}, NEW j \in Int, j <= s
  PROVE  SubSeq(t, i, j) = SubSeq(u, i, j)
<1>1. /\ Len(t) \in Nat /\ Len(u) \in Nat /\ s \in 1..Len(t) /\ s < Len(u) /\ \A k \in 1..s : t[k] = u[k]
  BY DEF Agree, Text
<1> DEFINE a == SubSeq(t, i, j)  b == SubSeq(u, i, j)
<1>2. /\ a \in Text /\ Len(a) = IF i <= j THEN j - i + 1 ELSE 0
      /\ \A k \in 1..Len(a) : a[k] = t[i + k - 1]
  <2>1. j <= Len(t)
    BY <1>1
  <2> QED BY <2>1, Stretch
<1>3. /\ b \in Text /\ Len(b) = IF i <= j THEN j - i + 1 ELSE 0
      /\ \A k \in 1..Len(b) : b[k] = u[i + k - 1]
  <2>1. j <= Len(u)
    BY <1>1
  <2> QED BY <2>1, Stretch
<1> HIDE DEF a, b
<1>4. a \in Seq(Chars) /\ b \in Seq(Chars) /\ Len(a) = Len(b) /\ \A k \in 1..Len(a) : a[k] = b[k]
  <2>1. \A k \in 1..Len(a) : i + k - 1 \in 1..s
    BY <1>1, <1>2
  <2> QED BY <1>1, <1>2, <1>3, <2>1 DEF Text
<1>5. a = b
  BY <1>4, SeqEqual
<1> QED BY <1>5 DEF a, b

\* What is written before the sigil is read alike, unless a quotation runs past it.
LEMMA ReadAgrees ==
  ASSUME NEW t \in Text, NEW u \in Text, NEW s, Agree(t, u, s), NEW i \in 1..s
  PROVE  \/ ReadName(t, i) = ReadName(u, i)
         \/ ReadName(u, i) # None /\ ReadName(u, i).quoted /\ ReadName(u, i).after > s
<1>1. /\ Len(t) \in Nat /\ Len(u) \in Nat /\ s \in 1..Len(t) /\ s < Len(u) /\ \A k \in 1..s : t[k] = u[k]
      /\ u[s] \in Sigils /\ i <= Len(t) /\ i <= Len(u) /\ t[i] = u[i]
  BY DEF Agree, Text
<1>2. CASE u[i] = Mark
  <2>1. i # s /\ i + 1 \in 1..s
    <3>1. i # s
      BY <1>1, <1>2, Stops
    <3> QED BY <1>1, <3>1
  <2> DEFINE m == Until(u, i + 1, {Mark})
  <2>2. m \in i + 1..Len(u) + 1
    <3>1. i + 1 \in 1..Len(u) + 1
      BY <1>1
    <3> QED BY <3>1, UntilIs
  <2>3. ReadName(u, i) = Quoted(u, i + 1, m) /\ ReadName(t, i) = Quoted(t, i + 1, Until(t, i + 1, {Mark}))
    BY <1>1, <1>2 DEF ReadName
  <2>4. CASE m <= s
    <3>1. Until(t, i + 1, {Mark}) = m
      BY <2>1, <2>4, UntilAgrees
    <3>2. SubSeq(t, i + 1, m - 1) = SubSeq(u, i + 1, m - 1)
      <4>1. i + 1 \in Nat \ {0} /\ m - 1 \in Int /\ m - 1 <= s
        BY <1>1, <2>2, <2>4
      <4> HIDE DEF m
      <4> QED BY <4>1, StretchAgrees
    <3>3. Min({m, Len(t)}) = m /\ Min({m, Len(u)}) = m
      <4>1. m \in Nat /\ m <= Len(t) /\ m <= Len(u)
        BY <1>1, <2>2, <2>4
      <4> HIDE DEF m
      <4>2. {m, Len(t)} \in SUBSET Nat /\ {m, Len(u)} \in SUBSET Nat
        BY <1>1, <4>1
      <4>3. /\ Min({m, Len(t)}) \in {m, Len(t)} /\ Min({m, Len(t)}) <= m
            /\ Min({m, Len(u)}) \in {m, Len(u)} /\ Min({m, Len(u)}) <= m
        BY <4>2, MinOf
      <4> QED BY <1>1, <4>1, <4>3
    <3> HIDE DEF m
    <3>4. Quoted(t, i + 1, m) = Quoted(u, i + 1, m)
      BY <3>2, <3>3 DEF Quoted
    <3> QED BY <2>3, <3>1, <3>4
  <2>5. CASE ~(m <= s)
    <3>1. m # i + 1
      BY <1>1, <2>1, <2>5
    <3>2. Min({m, Len(u)}) > s /\ Min({m, Len(u)}) \in Nat
      <4>1. m \in Nat /\ m > s
        BY <1>1, <2>2, <2>5
      <4> HIDE DEF m
      <4>2. {m, Len(u)} \in SUBSET Nat
        BY <1>1, <4>1
      <4>3. Min({m, Len(u)}) \in {m, Len(u)}
        BY <4>2, MinOf
      <4> QED BY <1>1, <4>1, <4>3
    <3> HIDE DEF m
    <3>3. ReadName(u, i) = [name |-> SubSeq(u, i + 1, m - 1), quoted |-> TRUE, after |-> Min({m, Len(u)}) + 1]
      BY <2>3, <3>1 DEF Quoted
    <3>4. ReadName(u, i) # None
      <4>1. SubSeq(u, i + 1, m - 1) \in Text
        <5>1. m - 1 \in Int /\ m - 1 <= Len(u) /\ i + 1 \in Nat \ {0}
          BY <1>1, <2>2
        <5> QED BY <5>1, Stretch
      <4>2. ReadName(u, i) \in [name : Text, quoted : BOOLEAN, after : Nat]
        BY <3>2, <3>3, <4>1
      <4> QED BY <4>2, NoneAssumption
    <3> QED BY <1>1, <3>2, <3>3, <3>4
  <2> QED BY <2>4, <2>5
<1>3. CASE u[i] # Mark
  <2> DEFINE stops == Sigils \cup {" ", Mark}  m == Until(u, i, stops)
  <2>1. m \in i..Len(u) + 1 /\ m <= s
    <3>1. i \in 1..Len(u) + 1 /\ u[s] \in stops
      <4>1. i \in 1..Len(u) + 1
        BY <1>1
      <4>2. u[s] \in stops
        BY <1>1, Zenon
      <4> QED BY <4>1, <4>2
    <3> HIDE DEF stops
    <3>2. m \in i..Len(u) + 1 /\ \A k \in i..m - 1 : u[k] \notin stops
      BY <3>1, UntilIs
    <3> QED BY <1>1, <3>1, <3>2
  <2>2. ReadName(u, i) = Word(u, i, m) /\ ReadName(t, i) = Word(t, i, Until(t, i, stops))
    BY <1>1, <1>3 DEF ReadName
  <2> HIDE DEF stops
  <2>3. Until(t, i, stops) = m
    BY <2>1, UntilAgrees
  <2>4. SubSeq(t, i, m - 1) = SubSeq(u, i, m - 1)
    <3>1. i \in Nat \ {0} /\ m - 1 \in Int /\ m - 1 <= s
      BY <1>1, <2>1
    <3> HIDE DEF m
    <3> QED BY <3>1, StretchAgrees
  <2> HIDE DEF m
  <2>5. Word(t, i, m) = Word(u, i, m)
    BY <2>4, Zenon DEF Word
  <2> QED BY <2>2, <2>3, <2>5, Zenon
<1> QED BY <1>2, <1>3

\* No plain name stands across the sigil.
LEMMA FitsBefore ==
  ASSUME NEW v \in Text, NEW s \in 1..Len(v), v[s] \in Sigils, Starts(v, s), NEW i \in 1..s,
         NEW names \in SUBSET Text, \A n \in names : Plain(n), NEW n \in Fitting(v, i, names)
  PROVE  i + Len(n) <= s
<1>1. /\ Len(v) \in Nat /\ Len(n) \in Nat /\ n \in Text /\ Plain(n) /\ Len(n) >= 1
      /\ \A k \in 1..Len(n) : n[k] = v[i + k - 1]
  <2>1. Len(v) \in Nat
    BY DEF Text
  <2>2. i \in 1..Len(v) + 1
    BY <2>1
  <2>3. /\ n \in names /\ n \in Text /\ Len(n) >= 1
        /\ \A k \in 1..Len(n) : n[k] = v[i + k - 1]
    BY <2>2, FittingIs
  <2> QED BY <2>1, <2>3 DEF Text
<1> SUFFICES ASSUME i + Len(n) > s PROVE FALSE
  BY <1>1
<1>2. CASE i = s
  <2>1. 1 \in 1..Len(n) /\ i + 1 - 1 = s
    BY <1>1, <1>2
  <2>2. n[1] = v[s]
    BY <1>1, <2>1
  <2> QED BY <1>1, <2>2 DEF Plain
<1>3. CASE i # s
  <2>1. /\ s - i \in 1..Len(n) - 1 /\ s - i \in 1..Len(n) /\ s - i + 1 \in 1..Len(n)
        /\ i + (s - i) - 1 = s - 1 /\ i + (s - i + 1) - 1 = s
    BY <1>1, <1>3
  <2>2. n[s - i] = v[s - 1] /\ n[s - i + 1] = v[s]
    <3> DEFINE k == s - i
    <3>1. k \in 1..Len(n) /\ k + 1 \in 1..Len(n) /\ i + k - 1 = s - 1 /\ i + (k + 1) - 1 = s
      BY <2>1
    <3> HIDE DEF k
    <3>2. n[k] = v[s - 1] /\ n[k + 1] = v[s]
      BY <1>1, <3>1
    <3> QED BY <3>2 DEF k
  <2>3. Blank(v, s - 1)
    BY <1>3 DEF Starts
  <2>4. Blank(n, s - i)
    BY <2>2, <2>3 DEF Blank
  <2> QED BY <1>1, <2>1, <2>2, <2>4 DEF Plain
<1> QED BY <1>2, <1>3

LEMMA FitsAlike ==
  ASSUME NEW t \in Text, NEW u \in Text, NEW s \in 1..Len(t), s \in 1..Len(u),
         \A k \in 1..s : t[k] = u[k], u[s] \in Sigils, Starts(u, s), NEW i \in 1..s,
         NEW names \in SUBSET Text, \A n \in names : Plain(n)
  PROVE  Fitting(u, i, names) \subseteq Fitting(t, i, names)
<1> SUFFICES ASSUME NEW n \in Fitting(u, i, names) PROVE n \in Fitting(t, i, names)
  OBVIOUS
<1>1. Len(t) \in Nat /\ Len(u) \in Nat
  BY DEF Text
<1>2. i \in 1..Len(u) + 1 /\ i \in 1..Len(t) + 1
  BY <1>1
<1>3. /\ n \in names /\ n \in Text /\ Len(n) >= 1 /\ Len(n) \in Nat
      /\ \A k \in 1..Len(n) : n[k] = u[i + k - 1]
      /\ i + Len(n) <= Len(u) => Blank(u, i + Len(n))
  BY <1>2, FittingIs DEF Text
<1>4. i + Len(n) <= s
  BY FitsBefore
<1>5. /\ i + Len(n) - 1 <= Len(t) /\ Len(n) >= 1
      /\ i + Len(n) \in 1..s /\ i + Len(n) <= Len(u)
      /\ \A k \in 1..Len(n) : i + k - 1 \in 1..s
  BY <1>1, <1>2, <1>3, <1>4
<1>6. \A k \in 1..Len(n) : n[k] = t[i + k - 1]
  BY <1>3, <1>5
<1>7. Blank(t, i + Len(n))
  BY <1>3, <1>5 DEF Blank
<1> QED BY <1>2, <1>3, <1>5, <1>6, <1>7, FitsWhere

LEMMA FitsAgree ==
  ASSUME NEW t \in Text, NEW u \in Text, NEW s, Agree(t, u, s), NEW i \in 1..s,
         NEW names \in SUBSET Text, \A n \in names : Plain(n)
  PROVE  Fitting(t, i, names) = Fitting(u, i, names)
<1>1. /\ Len(t) \in Nat /\ Len(u) \in Nat /\ s \in 1..Len(t) /\ s \in 1..Len(u)
      /\ \A k \in 1..s : t[k] = u[k] /\ u[k] = t[k]
      /\ u[s] \in Sigils /\ Starts(u, s)
  BY DEF Agree, Text
<1>2. t[s] \in Sigils /\ Starts(t, s)
  <2>1. s \in 1..s /\ (s # 1 => s - 1 \in 1..s)
    BY <1>1
  <2> QED BY <1>1, <2>1 DEF Starts, Blank
<1>3. Fitting(u, i, names) \subseteq Fitting(t, i, names)
  BY <1>1, FitsAlike
<1>4. Fitting(t, i, names) \subseteq Fitting(u, i, names)
  BY <1>1, <1>2, FitsAlike
<1> QED BY <1>3, <1>4

\* A token before the sigil that does not run past it is the same one in both texts.
LEMMA FoundAgrees ==
  ASSUME PlainNames, NEW t \in Text, NEW u \in Text, NEW s, Agree(t, u, s), NEW i \in 1..s - 1,
         NEW on \in SUBSET Sigils,
         Found(u, i, on) # <<>> => Found(u, i, on)[1].after <= s
  PROVE  Found(t, i, on) = Found(u, i, on)
<1>1. /\ Len(t) \in Nat /\ Len(u) \in Nat /\ s \in 1..Len(t) /\ s < Len(u)
      /\ \A k \in 1..s : t[k] = u[k]
  BY DEF Agree, Text
<1>2. /\ i \in 1..s /\ i + 1 \in 1..s /\ t[i] = u[i]
      /\ i # 1 => t[i - 1] = u[i - 1]
  <2>1. i \in 1..s /\ i + 1 \in 1..s /\ (i # 1 => i - 1 \in 1..s)
    BY <1>1
  <2> QED BY <1>1, <2>1
<1>3. Starts(t, i) <=> Starts(u, i)
  BY <1>2 DEF Starts, Blank
<1>4. CASE ~(u[i] \in on /\ Starts(u, i))
  BY <1>2, <1>3, <1>4 DEF Found
<1>5. CASE u[i] \in on /\ Starts(u, i)
  <2> DEFINE g == u[i]  fits == Fitting(u, i + 1, Known(g))  read == ReadName(u, i + 1)
  <2>1. g \in Sigils /\ Known(g) \in SUBSET Text /\ \A n \in Known(g) : Plain(n)
    BY <1>5, KnownIs DEF PlainNames
  <2>2. Fitting(t, i + 1, Known(g)) = fits
    <3> HIDE DEF g
    <3> QED BY <1>2, <2>1, FitsAgree
  <2>3. /\ Found(u, i, on) = Resolved(g, i, read, fits)
        /\ Found(t, i, on) = Resolved(g, i, ReadName(t, i + 1), fits)
    BY <1>2, <1>3, <1>5, <2>2 DEF Found, Resolve
  <2>4. \/ ReadName(t, i + 1) = read
        \/ read # None /\ read.quoted /\ read.after > s
    BY <1>2, ReadAgrees
  <2> HIDE DEF g, fits, read
  <2>5. CASE read # None /\ read.quoted /\ read.after > s
    <3> DEFINE k == Token(g, i, read.name, read.quoted /\ read.name \in Known(g), read.after)
    <3>1. Found(u, i, on) = <<k>>
      BY <2>3, <2>5 DEF Resolved
    <3>2. k.after = read.after
      BY DEF Token
    <3> HIDE DEF k
    <3>3. Found(u, i, on) # <<>> /\ Found(u, i, on)[1] = k
      BY <3>1
    <3>4. read.after <= s
      BY <3>2, <3>3
    <3>5. read.after \in Nat
      <4>1. i + 1 \in 1..Len(u) + 1
        BY <1>1, <1>2
      <4>2. read \in [name : Text, quoted : BOOLEAN, after : Nat]
        BY <2>5, <4>1, ReadIs DEF read
      <4> QED BY <4>2
    <3> QED BY <1>1, <2>5, <3>4, <3>5
  <2> QED BY <2>3, <2>4, <2>5
<1> QED BY <1>4, <1>5

-----------------------------------------------------------------------------
(* A name that was put in *)

\* At position s stands a sigil, then z, then a blank, and no word after it.
Stands(u, s, z) ==
  /\ s \in 1..Len(u) /\ u[s] \in Sigils /\ Starts(u, s)
  /\ s + Len(z) + 1 <= Len(u) /\ Blank(u, s + Len(z) + 1)
  /\ \A k \in 1..Len(z) : u[s + k] = z[k]
  /\ s + Len(z) + 2 <= Len(u) => Blank(u, s + Len(z) + 2)

\* No plain name that fits there is longer.
LEMMA FitsWithin ==
  ASSUME NEW u \in Text, NEW s, NEW z \in Text, Stands(u, s, z),
         NEW names \in SUBSET Text, \A n \in names : Plain(n), NEW n \in Fitting(u, s + 1, names)
  PROVE  Len(n) <= Len(z) /\ (Len(n) = Len(z) => n = z)
<1>1. /\ Len(u) \in Nat /\ Len(z) \in Nat /\ s \in 1..Len(u) /\ s + Len(z) + 1 <= Len(u)
      /\ \A k \in 1..Len(z) : u[s + k] = z[k]
  BY DEF Stands, Text
<1>2. /\ n \in Text /\ Len(n) \in Nat /\ Plain(n) /\ s + Len(n) <= Len(u)
      /\ \A k \in 1..Len(n) : n[k] = u[s + k]
  <2>1. s + 1 \in 1..Len(u) + 1
    BY <1>1
  <2>2. /\ n \in names /\ n \in Text /\ s + 1 + Len(n) - 1 <= Len(u)
        /\ \A k \in 1..Len(n) : n[k] = u[s + 1 + k - 1]
    BY <2>1, FittingIs
  <2>3. Len(n) \in Nat /\ s \in Nat
    BY <1>1, <2>2 DEF Text
  <2>4. s + 1 + Len(n) - 1 = s + Len(n) /\ \A k \in 1..Len(n) : s + 1 + k - 1 = s + k
    BY <2>3
  <2> QED BY <2>2, <2>3, <2>4
<1>3. Len(n) <= Len(z)
  <2> SUFFICES ASSUME Len(n) > Len(z) PROVE FALSE
    BY <1>1, <1>2
  <2>1. Len(z) + 1 \in 1..Len(n) /\ s + (Len(z) + 1) = s + Len(z) + 1
    BY <1>1, <1>2
  <2>2. Blank(n, Len(z) + 1)
    <3>1. n[Len(z) + 1] = u[s + Len(z) + 1]
      BY <1>2, <2>1
    <3> QED BY <3>1 DEF Stands, Blank
  <2>3. CASE Len(n) = Len(z) + 1
    BY <1>2, <2>2, <2>3 DEF Plain
  <2>4. CASE Len(n) > Len(z) + 1
    <3>1. /\ Len(z) + 2 \in 1..Len(n) /\ s + (Len(z) + 2) = s + Len(z) + 2 /\ Len(z) + 1 \in 1..Len(n) - 1
          /\ s + Len(z) + 2 <= Len(u) /\ Len(z) + 1 + 1 = Len(z) + 2
      BY <1>1, <1>2, <2>4
    <3>2. Blank(n, Len(z) + 2)
      <4>1. n[Len(z) + 2] = u[s + Len(z) + 2]
        BY <1>2, <3>1
      <4> QED BY <3>1, <4>1 DEF Stands, Blank
    <3>3. ~Blank(n, Len(z) + 1 + 1)
      BY <1>2, <2>2, <3>1 DEF Plain
    <3> QED BY <3>1, <3>2, <3>3
  <2> QED BY <1>1, <1>2, <2>3, <2>4
<1>4. ASSUME Len(n) = Len(z) PROVE n = z
  <2>1. n \in Seq(Chars) /\ z \in Seq(Chars) /\ \A k \in 1..Len(n) : n[k] = z[k]
    BY <1>1, <1>2, <1>4 DEF Text
  <2> QED BY <1>4, <2>1, SeqEqual
<1> QED BY <1>3, <1>4

\* What a position is read as: a token is made of what is written there and of what fits.
LEMMA ReadAs ==
  ASSUME NEW u \in Text, NEW s \in 1..Len(u), NEW on \in SUBSET Sigils, u[s] \in on, Starts(u, s),
         NEW read \in [name : Text, quoted : BOOLEAN, after : Nat], ReadName(u, s + 1) = read
  PROVE  /\ read.quoted \/ Fitting(u, s + 1, Known(u[s])) = {} =>
              Found(u, s, on) = <<Token(u[s], s, read.name, read.quoted /\ read.name \in Known(u[s]), read.after)>>
         /\ ~read.quoted /\ Fitting(u, s + 1, Known(u[s])) # {} =>
              Found(u, s, on) = <<Existing1(u[s], s, Longest(Fitting(u, s + 1, Known(u[s]))))>>
<1> DEFINE fits == Fitting(u, s + 1, Known(u[s]))
<1>1. Found(u, s, on) = Resolved(u[s], s, read, fits)
  BY DEF Found, Resolve
<1>2. read # None
  BY NoneAssumption
<1> HIDE DEF fits
<1>3. read.quoted \/ fits = {} =>
        Found(u, s, on) = <<Token(u[s], s, read.name, read.quoted /\ read.name \in Known(u[s]), read.after)>>
  BY <1>1, <1>2 DEF Resolved
<1>4. ~read.quoted /\ fits # {} => Found(u, s, on) = <<Existing1(u[s], s, Longest(fits))>>
  BY <1>1, <1>2 DEF Resolved
<1> QED BY <1>3, <1>4 DEF fits

\* A name that exists is read as that one: it is the longest that fits.
LEMMA ReadsExisting ==
  ASSUME PlainNames, NEW u \in Text, NEW s, NEW on \in SUBSET Sigils, u[s] \in on,
         NEW name \in Known(u[s]), Stands(u, s, name)
  PROVE  \E after : Found(u, s, on) = <<Token(u[s], s, name, TRUE, after)>>
<1> DEFINE names == Known(u[s])
<1>1. names \in SUBSET Text /\ (\A n \in names : Plain(n)) /\ name \in names
  BY KnownIs DEF PlainNames, Stands
<1> HIDE DEF names
<1>2. /\ Len(u) \in Nat /\ Len(name) \in Nat /\ name \in Text /\ s \in 1..Len(u) /\ Len(name) >= 1
      /\ s + Len(name) + 1 <= Len(u) /\ Blank(u, s + Len(name) + 1)
      /\ \A k \in 1..Len(name) : u[s + k] = name[k]
      /\ u[s] \in Sigils /\ Starts(u, s)
  BY <1>1 DEF Stands, Text, Plain
<1>3. s + 1 \in 1..Len(u) /\ u[s + 1] = name[1] /\ s + 1 \in 1..Len(u) + 1
  BY <1>2
<1> DEFINE stops == Sigils \cup {" ", Mark}  m == Until(u, s + 1, stops)
<1>4. u[s + 1] # Mark /\ u[s + 1] \notin stops
  <2>1. name[1] \notin Sigils /\ name[1] # Mark /\ name[1] # " "
    BY <1>1 DEF Plain, Blank
  <2> QED BY <1>3, <2>1, Stops
<1>5. m \in s + 1..Len(u) + 1 /\ m # s + 1
  <2> HIDE DEF stops
  <2>1. m \in s + 1..Len(u) + 1 /\ (m <= Len(u) => u[m] \in stops)
    BY <1>3, UntilIs
  <2> QED BY <1>2, <1>3, <1>4, <2>1
<1>6. ReadName(u, s + 1) = Word(u, s + 1, m)
  BY <1>4 DEF ReadName
<1> HIDE DEF stops, m
<1> DEFINE read == [name |-> SubSeq(u, s + 1, m - 1), quoted |-> FALSE, after |-> m]
<1>7. ReadName(u, s + 1) = read
  BY <1>5, <1>6 DEF Word
<1>8. read \in [name : Text, quoted : BOOLEAN, after : Nat] /\ ~read.quoted
  <2>1. SubSeq(u, s + 1, m - 1) \in Text
    <3>1. s + 1 \in Nat \ {0} /\ m - 1 \in Int /\ m - 1 <= Len(u)
      BY <1>2, <1>5
    <3> QED BY <3>1, Stretch
  <2> QED BY <1>2, <1>5, <2>1
<1> HIDE DEF read
<1>9. name \in Fitting(u, s + 1, names)
  <2>1. \A k \in 1..Len(name) : name[k] = u[(s + 1) + k - 1]
    <3>1. \A k \in 1..Len(name) : s + k = (s + 1) + k - 1
      BY <1>2
    <3> QED BY <1>2, <3>1
  <2>2. /\ (s + 1) + Len(name) - 1 <= Len(u) /\ (s + 1) + Len(name) = s + Len(name) + 1
    BY <1>2
  <2> QED BY <1>1, <1>2, <1>3, <2>1, <2>2, FitsWhere
<1> DEFINE n == Longest(Fitting(u, s + 1, names))
<1>10. n = name
  <2>1. n \in Fitting(u, s + 1, names) /\ Len(name) <= Len(n)
    BY <1>1, <1>3, <1>9, LongestIs
  <2> HIDE DEF n
  <2>0. name \in Text
    BY <1>1
  <2>2. Len(n) <= Len(name) /\ (Len(n) = Len(name) => n = name)
    BY <1>1, <2>0, <2>1, FitsWithin
  <2>3. Len(n) \in Nat
    <3>1. n \in Text
      BY <1>1, <1>3, <2>1, FittingIs
    <3> QED BY <3>1 DEF Text
  <2> QED BY <1>2, <2>1, <2>2, <2>3
<1>11. Found(u, s, on) = <<Existing1(u[s], s, n)>>
  BY <1>2, <1>7, <1>8, <1>9, ReadAs DEF names
<1> HIDE DEF n
<1> QED BY <1>10, <1>11 DEF Existing1

\* A new word is read as that word: nothing shorter ends in it, and nothing longer fits.
LEMMA ReadsWord ==
  ASSUME PlainNames, NEW u \in Text, NEW s, NEW on \in SUBSET Sigils, u[s] \in on,
         NEW name \in Text, name \notin Known(u[s]), Len(name) > 0, Stands(u, s, name),
         \A k \in 1..Len(name) : name[k] \notin Sigils /\ name[k] # Mark /\ ~Blank(name, k)
  PROVE  \E after : Found(u, s, on) = <<Token(u[s], s, name, FALSE, after)>>
<1> DEFINE names == Known(u[s])
<1>1. names \in SUBSET Text /\ (\A n \in names : Plain(n)) /\ name \notin names
  BY KnownIs DEF PlainNames, Stands
<1>2. /\ Len(u) \in Nat /\ Len(name) \in Nat /\ s \in 1..Len(u) /\ Len(name) >= 1
      /\ s + Len(name) + 1 <= Len(u) /\ Blank(u, s + Len(name) + 1)
      /\ \A k \in 1..Len(name) : u[s + k] = name[k]
      /\ u[s] \in Sigils /\ Starts(u, s)
  BY DEF Stands, Text
<1>3. s + 1 \in 1..Len(u) /\ s + 1 \in 1..Len(u) + 1 /\ u[s + 1] = name[1] /\ name[1] # Mark
  BY <1>2
<1> DEFINE stops == Sigils \cup {" ", Mark}  m == s + Len(name) + 1
<1>4. Until(u, s + 1, stops) = m
  <2>1. m \in s + 1..Len(u) + 1 /\ u[m] \in stops
    <3>1. m \in s + 1..Len(u) + 1
      BY <1>2
    <3>2. Blank(u, m)
      BY <1>2
    <3> HIDE DEF m
    <3>3. u[m] \in stops
      BY <3>2, Zenon DEF Blank
    <3> QED BY <3>1, <3>3
  <2>2. \A k \in s + 1..m - 1 : u[k] \notin stops
    <3> SUFFICES ASSUME NEW k \in s + 1..m - 1 PROVE u[k] \notin stops
      OBVIOUS
    <3>1. k - s \in 1..Len(name) /\ s + (k - s) = k
      BY <1>2
    <3>2. u[k] \notin Sigils /\ u[k] # Mark /\ ~Blank(u, k)
      BY <1>2, <3>1 DEF Blank
    <3> QED BY <3>2, Stops DEF Blank
  <2> HIDE DEF stops, m
  <2> QED BY <1>3, <2>1, <2>2, UntilFirst
<1>5. SubSeq(u, s + 1, m - 1) = name
  <2> DEFINE a == SubSeq(u, s + 1, m - 1)
  <2>1. /\ a \in Text /\ Len(a) = Len(name) /\ \A k \in 1..Len(name) : a[k] = u[s + k]
    <3>1. s + 1 \in Nat \ {0} /\ m - 1 \in Int /\ m - 1 <= Len(u) /\ s + 1 <= m - 1
          /\ (m - 1) - (s + 1) + 1 = Len(name) /\ \A k \in 1..Len(name) : (s + 1) + k - 1 = s + k
      BY <1>2
    <3> HIDE DEF m
    <3>2. /\ SubSeq(u, s + 1, m - 1) \in Text
          /\ Len(SubSeq(u, s + 1, m - 1)) = IF s + 1 <= m - 1 THEN (m - 1) - (s + 1) + 1 ELSE 0
          /\ \A k \in 1..Len(SubSeq(u, s + 1, m - 1)) : SubSeq(u, s + 1, m - 1)[k] = u[(s + 1) + k - 1]
      BY <3>1, Stretch
    <3> QED BY <3>1, <3>2
  <2> HIDE DEF a
  <2>2. a \in Seq(Chars) /\ name \in Seq(Chars) /\ Len(a) = Len(name) /\ \A k \in 1..Len(a) : a[k] = name[k]
    BY <1>2, <2>1 DEF Text
  <2>3. a = name
    BY <2>2, SeqEqual
  <2> QED BY <2>3 DEF a
<1>6. m # s + 1 /\ m \in Nat
  BY <1>2
<1>7. ReadName(u, s + 1) = Word(u, s + 1, m)
  BY <1>3, <1>4 DEF ReadName
<1> HIDE DEF stops, m
<1> DEFINE read == [name |-> name, quoted |-> FALSE, after |-> m]
<1>8. ReadName(u, s + 1) = read
  BY <1>5, <1>6, <1>7 DEF Word
<1>9. read \in [name : Text, quoted : BOOLEAN, after : Nat] /\ ~read.quoted /\ read.name = name
  BY <1>6
<1>10. Fitting(u, s + 1, names) = {}
  <2> SUFFICES ASSUME NEW n \in Fitting(u, s + 1, names) PROVE FALSE
    OBVIOUS
  <2> HIDE DEF names, read
  <2>1. Len(n) <= Len(name) /\ (Len(n) = Len(name) => n = name)
    BY <1>1, FitsWithin
  <2>2. /\ n \in names /\ n \in Text /\ Len(n) \in Nat
        /\ (s + 1) + Len(n) <= Len(u) => Blank(u, (s + 1) + Len(n))
    BY <1>1, <1>3, FittingIs DEF Text
  <2>3. CASE Len(n) = Len(name)
    BY <1>1, <2>1, <2>2, <2>3
  <2>4. CASE Len(n) # Len(name)
    <3>1. Len(n) + 1 \in 1..Len(name) /\ (s + 1) + Len(n) = s + (Len(n) + 1) /\ (s + 1) + Len(n) <= Len(u)
      BY <1>2, <2>1, <2>2, <2>4
    <3>2. ~Blank(u, (s + 1) + Len(n))
      BY <1>2, <3>1 DEF Blank
    <3> QED BY <2>2, <3>1, <3>2
  <2> QED BY <2>3, <2>4
<1> HIDE DEF read
<1>11. Found(u, s, on) = <<Token(u[s], s, read.name, read.quoted /\ read.name \in Known(u[s]), read.after)>>
  <2>1. Fitting(u, s + 1, Known(u[s])) = {}
    BY <1>10 DEF names
  <2>2. s \in 1..Len(u) /\ Starts(u, s) /\ read \in [name : Text, quoted : BOOLEAN, after : Nat]
    BY <1>2, <1>9
  <2> QED BY <1>8, <2>1, <2>2, ReadAs
<1>12. (read.quoted /\ read.name \in Known(u[s])) = FALSE /\ read.name = name
  BY <1>9
<1>13. Found(u, s, on) = <<Token(u[s], s, name, FALSE, read.after)>>
  BY <1>11, <1>12
<1> WITNESS read.after
<1> QED BY <1>13

\* A new name in quotes is taken literally.
LEMMA ReadsQuoted ==
  ASSUME NEW u \in Text, NEW s, NEW on \in SUBSET Sigils, u[s] \in on,
         NEW name \in Text, name \notin Known(u[s]), Len(name) > 0, Stands(u, s, Wrap(Mark, name, Mark)),
         \A k \in 1..Len(name) : name[k] # Mark
  PROVE  \E after : Found(u, s, on) = <<Token(u[s], s, name, FALSE, after)>>
<1> DEFINE z == Wrap(Mark, name, Mark)
<1>1. /\ z \in Text /\ Len(z) = Len(name) + 2 /\ z[1] = Mark /\ z[Len(name) + 2] = Mark
      /\ \A k \in 1..Len(name) : z[k + 1] = name[k]
  <2>1. Mark \in Chars
    BY CharsAssumption
  <2> QED BY <2>1, Wrapped
<1>2. /\ Len(u) \in Nat /\ Len(name) \in Nat /\ Len(name) >= 1 /\ s \in 1..Len(u)
      /\ s + Len(z) + 1 <= Len(u) /\ (\A k \in 1..Len(z) : u[s + k] = z[k])
      /\ u[s] \in Sigils /\ Starts(u, s)
  BY DEF Stands, Text
<1> HIDE DEF z
<1> DEFINE m == s + Len(name) + 2
<1>3. /\ s + 1 \in 1..Len(u) /\ u[s + 1] = Mark /\ u[m] = Mark /\ m <= Len(u)
      /\ \A k \in 1..Len(name) : u[s + (k + 1)] = name[k]
  <2>1. 1 \in 1..Len(z) /\ Len(name) + 2 \in 1..Len(z) /\ s + (Len(name) + 2) = m
    BY <1>1, <1>2
  <2>2. u[s + 1] = Mark
    BY <1>1, <1>2, <2>1
  <2>3. u[m] = Mark
    <3>1. u[s + (Len(name) + 2)] = Mark
      BY <1>1, <1>2, <2>1
    <3> QED BY <2>1, <3>1
  <2>4. ASSUME NEW k \in 1..Len(name) PROVE u[s + (k + 1)] = name[k]
    <3>1. k + 1 \in 1..Len(z)
      BY <1>1, <1>2
    <3> QED BY <1>1, <1>2, <3>1
  <2> QED BY <1>1, <1>2, <2>2, <2>3, <2>4
<1>4. Until(u, s + 2, {Mark}) = m
  <2>1. s + 2 \in 1..Len(u) + 1 /\ m \in s + 2..Len(u) + 1 /\ u[m] \in {Mark}
    BY <1>2, <1>3
  <2>2. \A k \in s + 2..m - 1 : u[k] \notin {Mark}
    <3> SUFFICES ASSUME NEW k \in s + 2..m - 1 PROVE u[k] # Mark
      OBVIOUS
    <3> DEFINE j == k - s - 1
    <3>1. j \in 1..Len(name) /\ s + (j + 1) = k
      BY <1>2
    <3> HIDE DEF j
    <3>2. u[s + (j + 1)] = name[j] /\ name[j] # Mark
      BY <1>3, <3>1
    <3> QED BY <3>1, <3>2
  <2> HIDE DEF m
  <2> QED BY <2>1, <2>2, UntilFirst
<1>5. SubSeq(u, s + 2, m - 1) = name
  <2> DEFINE a == SubSeq(u, s + 2, m - 1)
  <2>1. /\ a \in Text /\ Len(a) = Len(name) /\ \A k \in 1..Len(name) : a[k] = u[s + (k + 1)]
    <3>1. s + 2 \in Nat \ {0} /\ m - 1 \in Int /\ m - 1 <= Len(u) /\ s + 2 <= m - 1
          /\ (m - 1) - (s + 2) + 1 = Len(name) /\ \A k \in 1..Len(name) : (s + 2) + k - 1 = s + (k + 1)
      BY <1>2, <1>3
    <3> HIDE DEF m
    <3>2. /\ SubSeq(u, s + 2, m - 1) \in Text
          /\ Len(SubSeq(u, s + 2, m - 1)) = IF s + 2 <= m - 1 THEN (m - 1) - (s + 2) + 1 ELSE 0
          /\ \A k \in 1..Len(SubSeq(u, s + 2, m - 1)) : SubSeq(u, s + 2, m - 1)[k] = u[(s + 2) + k - 1]
      BY <3>1, Stretch
    <3> QED BY <3>1, <3>2
  <2> HIDE DEF a, m
  <2>2. a \in Seq(Chars) /\ name \in Seq(Chars) /\ Len(a) = Len(name) /\ \A k \in 1..Len(a) : a[k] = name[k]
    BY <1>3, <2>1 DEF Text
  <2>3. a = name
    BY <2>2, SeqEqual
  <2> QED BY <2>3 DEF a
<1>6. m # s + 2 /\ m \in Nat /\ (s + 1) + 1 = s + 2
  BY <1>2
<1>7. ReadName(u, s + 1) = Quoted(u, s + 2, m)
  <2>1. s + 1 <= Len(u)
    BY <1>2, <1>3
  <2> HIDE DEF m
  <2> QED BY <1>3, <1>4, <1>6, <2>1 DEF ReadName
<1>8. Min({m, Len(u)}) = m
  <2>1. {m, Len(u)} \in SUBSET Nat
    BY <1>2, <1>6
  <2> HIDE DEF m
  <2>2. Min({m, Len(u)}) \in {m, Len(u)} /\ Min({m, Len(u)}) <= m
    BY <2>1, MinOf
  <2> QED BY <1>2, <1>3, <1>6, <2>2
<1> HIDE DEF m
<1> DEFINE read == [name |-> name, quoted |-> TRUE, after |-> m + 1]
<1>9. ReadName(u, s + 1) = read
  BY <1>5, <1>6, <1>7, <1>8 DEF Quoted
<1>10. read \in [name : Text, quoted : BOOLEAN, after : Nat] /\ read.quoted /\ read.name = name
  BY <1>6
<1> HIDE DEF read
<1>11. Found(u, s, on) = <<Token(u[s], s, read.name, read.quoted /\ read.name \in Known(u[s]), read.after)>>
  BY <1>2, <1>9, <1>10, ReadAs
<1>12. (read.quoted /\ read.name \in Known(u[s])) = FALSE /\ read.name = name
  BY <1>10
<1>13. Found(u, s, on) = <<Token(u[s], s, name, FALSE, read.after)>>
  BY <1>11, <1>12
<1> WITNESS read.after
<1> QED BY <1>13

\* What is chosen is what stands there: an existing name, or a new one of the offered ones.
Unmarked(name) == Names(name) \cap (IF " " \in Names(name) THEN {Mark} ELSE Sigils \cup {Mark}) = {}
Fits(g, name, new) ==
  /\ name \in Text /\ new \in BOOLEAN
  /\ ~new => name \in Known(g)
  /\ new => name # <<>> /\ name \notin Known(g) /\ Unmarked(name)

LEMMA ReadsChosen ==
  ASSUME PlainNames, NEW u \in Text, NEW s, NEW on \in SUBSET Sigils, u[s] \in on,
         NEW name, NEW new, Fits(u[s], name, new), Stands(u, s, Quote(name, new))
  PROVE  \E after : Found(u, s, on) = <<Token(u[s], s, name, ~new, after)>>
<1>1. name \in Text /\ Len(name) \in Nat /\ new \in BOOLEAN
  BY DEF Fits, Text
<1>2. CASE ~new
  <2>1. Quote(name, new) = name /\ (~new) = TRUE
    BY <1>1, <1>2 DEF Quote
  <2>2. name \in Known(u[s])
    BY <1>2 DEF Fits
  <2> QED BY <2>1, <2>2, ReadsExisting
<1>3. CASE new
  <2>1. Len(name) > 0 /\ name \notin Known(u[s]) /\ (~new) = FALSE
    BY <1>1, <1>3 DEF Fits
  <2> DEFINE several == " " \in Names(name)
  <2>2. \A k \in 1..Len(name) : name[k] \in Names(name)
    BY DEF Names
  <2>3. /\ Names(name) \cap (IF several THEN {Mark} ELSE Sigils \cup {Mark}) = {}
        /\ Quote(name, new) = IF several THEN Wrap(Mark, name, Mark) ELSE name
    BY <1>3, Zenon DEF Fits, Unmarked, Quote, Wrap
  <2>4. ~several => \A k \in 1..Len(name) : ~Blank(name, k)
    BY <2>2, Zenon DEF Blank
  <2> HIDE DEF several
  <2>5. CASE several
    <3>1. \A k \in 1..Len(name) : name[k] # Mark
      BY <2>2, <2>3, <2>5
    <3>2. Stands(u, s, Wrap(Mark, name, Mark))
      BY <2>3, <2>5
    <3>3. PICK after : Found(u, s, on) = <<Token(u[s], s, name, FALSE, after)>>
      BY <1>1, <2>1, <3>1, <3>2, ReadsQuoted
    <3> WITNESS after
    <3> QED BY <2>1, <3>3
  <2>6. CASE ~several
    <3>1. \A k \in 1..Len(name) : name[k] \notin Sigils /\ name[k] # Mark /\ ~Blank(name, k)
      BY <2>2, <2>3, <2>4, <2>6
    <3>2. Stands(u, s, name)
      BY <2>3, <2>6
    <3>3. PICK after : Found(u, s, on) = <<Token(u[s], s, name, FALSE, after)>>
      BY <1>1, <2>1, <3>1, <3>2, ReadsWord
    <3> WITNESS after
    <3> QED BY <2>1, <3>3
  <2> QED BY <2>5, <2>6
<1> QED BY <1>1, <1>2, <1>3

-----------------------------------------------------------------------------
(* The reading of the text reaches the name *)

LEMMA NamesJoined ==
  ASSUME NEW S, NEW a \in Seq(S), NEW b \in Seq(S)
  PROVE  Names(a \o b) = Names(a) \cup Names(b)
<1>1. Names(a \o b) \subseteq Names(a) \cup Names(b)
  BY DEF Names
<1>2. Names(a) \subseteq Names(a \o b)
  <2> SUFFICES ASSUME NEW k \in 1..Len(a) PROVE a[k] \in Names(a \o b)
    BY DEF Names
  <2>1. k \in 1..Len(a \o b) /\ (a \o b)[k] = a[k]
    OBVIOUS
  <2> QED BY <2>1 DEF Names
<1>3. Names(b) \subseteq Names(a \o b)
  <2> SUFFICES ASSUME NEW k \in 1..Len(b) PROVE b[k] \in Names(a \o b)
    BY DEF Names
  <2>1. Len(a) + k \in 1..Len(a \o b) /\ (a \o b)[Len(a) + k] = b[k]
    OBVIOUS
  <2> QED BY <2>1 DEF Names
<1> QED BY <1>1, <1>2, <1>3

LEMMA NamesOne == /\ Names(<<>>) = {}
                  /\ \A k : Names(<<k>>) = {k}
<1>1. Len(<<>>) = 0 /\ \A k : Len(<<k>>) = 1 /\ <<k>>[1] = k
  OBVIOUS
<1> QED BY <1>1 DEF Names

\* No token of a set runs past s, and none has the sigil that stands there but one at s.
Within(S, s)   == \A k \in S : k.start < s => k.after <= s
Alone(S, g, s) == g # "!" => \A k \in S : k.sigil = g => k.start = s
Chosen(S, s, name, new) == \E k \in S : k.start = s /\ k.name = name /\ k.known = ~new

\* At the name itself.
LEMMA ReachedThere ==
  ASSUME PlainNames, NEW u \in Text, NEW s, NEW name, NEW new, Fits(u[s], name, new),
         Stands(u, s, Quote(name, new)), NEW taken \in SUBSET Sigils, u[s] \notin taken
  PROVE  Chosen(Names(ScanOf(u, Sigils)[s][taken]), s, name, new)
<1>1. s \in 1..Len(u) /\ Len(u) \in Nat /\ u[s] \in Sigils \ taken /\ Sigils \ taken \in SUBSET Sigils
  BY DEF Stands, Text
<1>2. PICK after : Found(u, s, Sigils \ taken) = <<Token(u[s], s, name, ~new, after)>>
  BY <1>1, ReadsChosen
<1> DEFINE k == Token(u[s], s, name, ~new, after)
           rest == ScanOf(u, Sigils)[Onward(u, Sigils, taken, s)][Takes(u, Sigils, taken, s)]
<1>3. ScanOf(u, Sigils)[s][taken] = Here(u, Sigils, taken, s) \o rest
  <2>1. s \in 1..Len(u) + 1 /\ ~(s > Len(u)) /\ Sigils \in SUBSET Sigils
    BY <1>1
  <2> QED BY <2>1, ScanStep
<1>4. Here(u, Sigils, taken, s) \in Seq(TokenSet(u)) /\ rest \in Seq(TokenSet(u))
  <2>1. /\ Here(u, Sigils, taken, s) \in Seq(TokenSet(u))
        /\ Onward(u, Sigils, taken, s) \in s + 1..Len(u) + 1 /\ Takes(u, Sigils, taken, s) \in SUBSET Sigils
    BY <1>1, HereIs, Ahead
  <2>2. Onward(u, Sigils, taken, s) \in 1..Len(u) + 1
    BY <1>1, <2>1
  <2>3. rest \in Seq(TokenSet(u))
    BY <2>1, <2>2, ScanIs
  <2> QED BY <2>1, <2>3
<1>5. Here(u, Sigils, taken, s) = <<k>>
  BY <1>2 DEF Here
<1>6. k.start = s /\ k.name = name /\ k.known = ~new
  BY DEF Token
<1> HIDE DEF k, rest
<1>7. Names(ScanOf(u, Sigils)[s][taken]) = Names(<<k>>) \cup Names(rest)
  <2> DEFINE f == Here(u, Sigils, taken, s)
  <2> HIDE DEF f
  <2>1. Names(f \o rest) = Names(f) \cup Names(rest)
    BY <1>4, NamesJoined DEF f
  <2> QED BY <1>3, <1>5, <2>1, Zenon DEF f
<1>8. k \in Names(ScanOf(u, Sigils)[s][taken])
  BY <1>7, NamesOne
<1> QED BY <1>6, <1>8 DEF Chosen

\* Before it, the two texts are read alike.
LEMMA ReachedStep ==
  ASSUME PlainNames, NEW t \in Text, NEW u \in Text, NEW s, Agree(t, u, s), NEW i \in 1..s - 1,
         NEW taken \in SUBSET Sigils, u[s] \notin taken,
         Within(Names(ScanOf(u, Sigils)[i][taken]), s), Alone(Names(ScanOf(t, Sigils)[i][taken]), u[s], s)
  PROVE  \E j \in i + 1..s, more \in SUBSET Sigils :
           /\ u[s] \notin more
           /\ Names(ScanOf(u, Sigils)[j][more]) \subseteq Names(ScanOf(u, Sigils)[i][taken])
           /\ Names(ScanOf(t, Sigils)[j][more]) \subseteq Names(ScanOf(t, Sigils)[i][taken])
<1>1. /\ Len(t) \in Nat /\ Len(u) \in Nat /\ s \in 1..Len(t) /\ s < Len(u) /\ u[s] \in Sigils
      /\ i \in 1..Len(t) /\ i \in 1..Len(u) /\ i < s /\ i + 1 <= s
  BY DEF Agree, Text
<1>2. Sigils \in SUBSET Sigils /\ Sigils \ taken \in SUBSET Sigils
  OBVIOUS
<1> DEFINE f == Here(u, Sigils, taken, i)  j == Onward(u, Sigils, taken, i)  more == Takes(u, Sigils, taken, i)
           U == ScanOf(u, Sigils)  T == ScanOf(t, Sigils)
<1>3. U[i][taken] = f \o U[j][more]
  <2>1. i \in 1..Len(u) + 1 /\ ~(i > Len(u))
    BY <1>1
  <2> QED BY <1>2, <2>1, ScanStep
<1>4. /\ f \in Seq(TokenSet(u)) /\ j \in i + 1..Len(u) + 1 /\ more \in SUBSET Sigils
      /\ \/ f = <<>> /\ j = i + 1 /\ more = taken
         \/ \E k \in TokenSet(u) : /\ f = <<k>> /\ j = k.after /\ more = taken \cup ({k.sigil} \ {"!"})
                                   /\ k.start = i
  BY <1>1, <1>2, HereIs, Ahead
<1>5. U[j][more] \in Seq(TokenSet(u))
  <2>1. j \in 1..Len(u) + 1
    BY <1>1, <1>4
  <2> QED BY <1>2, <1>4, <2>1, ScanIs
<1>6. Names(U[i][taken]) = Names(f) \cup Names(U[j][more])
  <2> HIDE DEF f, j, more, U
  <2> QED BY <1>3, <1>4, <1>5, NamesJoined
<1>7. f # <<>> => f[1].after <= s /\ f[1].after = j /\ more = taken \cup ({f[1].sigil} \ {"!"}) /\ f[1].start = i
                  /\ f[1] \in Names(f)
  <2> HIDE DEF f, j, more, U
  <2> SUFFICES ASSUME f # <<>> PROVE f[1].after <= s /\ f[1].after = j /\ more = taken \cup ({f[1].sigil} \ {"!"})
                                     /\ f[1].start = i /\ f[1] \in Names(f)
    OBVIOUS
  <2>1. PICK k \in TokenSet(u) : /\ f = <<k>> /\ j = k.after /\ more = taken \cup ({k.sigil} \ {"!"}) /\ k.start = i
    BY <1>4
  <2>2. f[1] = k /\ k \in Names(f)
    BY <2>1, NamesOne
  <2>3. k \in Names(U[i][taken])
    BY <1>6, <2>2
  <2>4. k.after <= s
    BY <1>1, <2>1, <2>3 DEF Within, U
  <2> QED BY <2>1, <2>2, <2>4
<1>8. Here(t, Sigils, taken, i) = f
  <2>1. f = Found(u, i, Sigils \ taken) /\ Here(t, Sigils, taken, i) = Found(t, i, Sigils \ taken)
    BY DEF Here
  <2> HIDE DEF f
  <2> QED BY <1>2, <1>7, <2>1, FoundAgrees
<1>9. Onward(t, Sigils, taken, i) = j /\ Takes(t, Sigils, taken, i) = more
  BY <1>8 DEF Onward, Takes
<1>10. T[i][taken] = f \o T[j][more]
  <2>1. i \in 1..Len(t) + 1 /\ ~(i > Len(t))
    BY <1>1
  <2>2. T[i][taken] = Here(t, Sigils, taken, i)
                        \o ScanOf(t, Sigils)[Onward(t, Sigils, taken, i)][Takes(t, Sigils, taken, i)]
    BY <1>2, <2>1, ScanStep
  <2> HIDE DEF f, j, more
  <2> QED BY <1>8, <1>9, <2>2
<1>11. f \in Seq(TokenSet(t)) /\ T[j][more] \in Seq(TokenSet(t))
  <2>1. f \in Seq(TokenSet(t)) /\ j \in i + 1..Len(t) + 1
    <3>1. Here(t, Sigils, taken, i) \in Seq(TokenSet(t)) /\ Onward(t, Sigils, taken, i) \in i + 1..Len(t) + 1
      BY <1>1, <1>2, HereIs, Ahead
    <3> HIDE DEF f, j
    <3> QED BY <1>8, <1>9, <3>1
  <2> HIDE DEF f, j, more
  <2>2. j \in 1..Len(t) + 1
    BY <1>1, <2>1
  <2> QED BY <1>2, <1>4, <2>1, <2>2, ScanIs
<1> HIDE DEF f, j, more
<1>12. Names(T[i][taken]) = Names(f) \cup Names(T[j][more])
  <2> HIDE DEF T
  <2> QED BY <1>10, <1>11, NamesJoined
<1>13. j \in i + 1..s
  <2>1. CASE f = <<>>
    <3>1. j = i + 1
      BY <1>4, <2>1
    <3> QED BY <1>1, <3>1
  <2>2. CASE f # <<>>
    BY <1>1, <1>4, <1>7, <2>2
  <2> QED BY <2>1, <2>2
<1>14. u[s] \notin more
  <2>1. CASE f = <<>>
    BY <1>4, <2>1
  <2>2. CASE f # <<>>
    <3>1. f[1] \in Names(T[i][taken]) /\ f[1].start # s
      BY <1>1, <1>7, <1>12, <2>2
    <3>2. u[s] # "!" => f[1].sigil # u[s]
      BY <3>1 DEF Alone, T
    <3> QED BY <1>7, <2>2, <3>2
  <2> QED BY <2>1, <2>2
<1> QED BY <1>4, <1>6, <1>12, <1>13, <1>14

LEMMA Reached ==
  ASSUME PlainNames, NEW t \in Text, NEW u \in Text, NEW s, Agree(t, u, s),
         NEW name, NEW new, Fits(u[s], name, new), Stands(u, s, Quote(name, new))
  PROVE  \A i \in 1..s, taken \in SUBSET Sigils :
           /\ u[s] \notin taken
           /\ Within(Names(ScanOf(u, Sigils)[i][taken]), s)
           /\ Alone(Names(ScanOf(t, Sigils)[i][taken]), u[s], s)
           => Chosen(Names(ScanOf(u, Sigils)[i][taken]), s, name, new)
<1> DEFINE There(i) == \A taken \in SUBSET Sigils :
             /\ u[s] \notin taken
             /\ Within(Names(ScanOf(u, Sigils)[i][taken]), s)
             /\ Alone(Names(ScanOf(t, Sigils)[i][taken]), u[s], s)
             => Chosen(Names(ScanOf(u, Sigils)[i][taken]), s, name, new)
           S == {m \in Nat : \A i \in 1..s : i + m >= s => There(i)}
<1>1. s \in Nat
  BY DEF Agree
<1>2. There(s)
  BY ReachedThere
<1>3. ASSUME NEW i \in 1..s - 1, \A j \in i + 1..s : There(j) PROVE There(i)
  <2> SUFFICES ASSUME NEW taken \in SUBSET Sigils, u[s] \notin taken,
                      Within(Names(ScanOf(u, Sigils)[i][taken]), s),
                      Alone(Names(ScanOf(t, Sigils)[i][taken]), u[s], s)
               PROVE  Chosen(Names(ScanOf(u, Sigils)[i][taken]), s, name, new)
    OBVIOUS
  <2>1. PICK j \in i + 1..s, more \in SUBSET Sigils :
          /\ u[s] \notin more
          /\ Names(ScanOf(u, Sigils)[j][more]) \subseteq Names(ScanOf(u, Sigils)[i][taken])
          /\ Names(ScanOf(t, Sigils)[j][more]) \subseteq Names(ScanOf(t, Sigils)[i][taken])
    BY ReachedStep
  <2>2. Within(Names(ScanOf(u, Sigils)[j][more]), s) /\ Alone(Names(ScanOf(t, Sigils)[j][more]), u[s], s)
    BY <2>1 DEF Within, Alone
  <2>3. Chosen(Names(ScanOf(u, Sigils)[j][more]), s, name, new)
    BY <1>3, <2>1, <2>2
  <2> QED BY <2>1, <2>3 DEF Chosen
<1> HIDE DEF There
<1>4. 0 \in S
  BY <1>1, <1>2
<1>5. ASSUME NEW m \in S PROVE m + 1 \in S
  <2> SUFFICES ASSUME NEW i \in 1..s, i + (m + 1) >= s PROVE There(i)
    BY <1>1
  <2>1. CASE i + m >= s
    BY <1>1, <2>1
  <2>2. CASE ~(i + m >= s)
    <3>1. i \in 1..s - 1 /\ \A j \in i + 1..s : j \in 1..s /\ j + m >= s
      BY <1>1, <2>2
    <3>2. \A j \in i + 1..s : There(j)
      BY <3>1
    <3> QED BY <1>3, <3>1, <3>2
  <2> QED BY <2>1, <2>2
<1>6. S = Nat
  <2> HIDE DEF S
  <2>1. S \in SUBSET Nat
    BY DEF S
  <2> QED BY <1>4, <1>5, <2>1, Upwards
<1>7. \A i \in 1..s : There(i)
  BY <1>1, <1>6
<1> QED BY <1>7 DEF There

\* A completion leaves a text that stands as it was up to the token, then has the name.
LEMMA PutIn ==
  ASSUME IInv, kind = "line", NEW token \in Active, NEW new \in BOOLEAN, NEW name \in Offers(token, new),
         NEW u, u = Applied(text, token, name, new).text,
         NEW c, c = Applied(text, token, name, new).caret,
         c = Len(u) \/ Blank(u, c + 1)
  PROVE  /\ u \in Text /\ u[token.start] = token.sigil /\ Agree(text, u, token.start)
         /\ Stands(u, token.start, Quote(name, new))
<1> DEFINE s == token.start  z == Quote(name, new)  q == Inserted(token, name, new)
           left == SubSeq(text, 1, s - 1)  right == SubSeq(text, Behind(text, token), Len(text))
<1>1. /\ text \in Text /\ Len(text) \in Nat /\ s \in 1..Len(text) /\ token.sigil \in Sigils
      /\ token.sigil = text[s] /\ Starts(text, s) /\ name \in Text
  <2>1. text \in Text /\ Len(text) \in Nat /\ caret \in 0..Len(text)
    BY DEF IInv, FormOK, LineOK, Text
  <2>2. /\ token.sigil \in Sigils /\ s \in 1..caret /\ token.query \in Text
        /\ token.sigil = text[s] /\ Starts(text, s)
    BY ActiveIs
  <2>3. name \in Text
    BY <2>2, OfferedIs
  <2> QED BY <2>1, <2>2, <2>3
<1>2. /\ u = left \o q \o right /\ c = s - 1 + Len(q) /\ left \in Text /\ Len(left) = s - 1
      /\ q \in Text /\ right \in Text
  BY <1>1, AppliedIs
<1>3. /\ z \in Text /\ Len(q) = Len(z) + 2 /\ q[1] = token.sigil /\ Blank(q, Len(z) + 2)
      /\ \A k \in 1..Len(z) : q[k + 1] = z[k]
  BY <1>1, InsertedIs
<1>4. \A k \in 1..s - 1 : left[k] = text[k]
  <2>1. \A k \in 1..Len(left) : left[k] = text[1 + k - 1]
    <3>1. s - 1 \in Int /\ s - 1 <= Len(text)
      BY <1>1
    <3> QED BY <1>1, <3>1, Stretch
  <2> HIDE DEF left
  <2>2. \A k \in 1..s - 1 : 1 + k - 1 = k
    BY <1>1
  <2> QED BY <1>2, <2>1, <2>2
<1> HIDE DEF left, right, q, z
<1>15. Len(z) \in Nat
  BY <1>3 DEF Text
<1>16. s \in Int /\ s >= 1 /\ s <= Len(text) /\ Len(text) \in Nat
  BY <1>1
<1> HIDE DEF s
<1> DEFINE b == left \o q
<1>5. /\ b \in Text /\ Len(b) = s + Len(z) + 1 /\ Len(z) \in Nat
      /\ \A k \in 1..s - 1 : b[k] = text[k]
      /\ \A k \in 1..Len(z) + 2 : b[s - 1 + k] = q[k]
  <2>1. /\ left \o q \in Text /\ Len(left \o q) = Len(left) + Len(q)
        /\ \A k \in 1..Len(left) : (left \o q)[k] = left[k]
        /\ \A k \in 1..Len(q) : (left \o q)[Len(left) + k] = q[k]
    BY <1>2, Joined
  <2>2. Len(z) \in Nat
    BY <1>15
  <2> HIDE DEF b
  <2>3. /\ b \in Text /\ Len(b) = Len(left) + Len(q)
        /\ \A k \in 1..Len(left) : b[k] = left[k]
        /\ \A k \in 1..Len(q) : b[Len(left) + k] = q[k]
    BY <2>1 DEF b
  <2>4. Len(left) = s - 1 /\ Len(q) = Len(z) + 2
    BY <1>2, <1>3
  <2>5. Len(b) = s + Len(z) + 1
    BY <1>15, <1>16, <2>3, <2>4
  <2>6. \A k \in 1..s - 1 : b[k] = text[k]
    BY <1>4, <2>3, <2>4
  <2>7. \A k \in 1..Len(z) + 2 : b[s - 1 + k] = q[k]
    BY <2>3, <2>4
  <2> QED BY <2>2, <2>3, <2>5, <2>6, <2>7
<1> HIDE DEF b
<1>6. /\ u \in Text /\ Len(u) = Len(b) + Len(right) /\ Len(right) \in Nat /\ Len(u) \in Nat
      /\ \A k \in 1..Len(b) : u[k] = b[k]
  <2>1. /\ b \o right \in Text /\ Len(b \o right) = Len(b) + Len(right)
        /\ \A k \in 1..Len(b) : (b \o right)[k] = b[k]
    BY <1>2, <1>5, Joined
  <2>2. u = b \o right
    BY <1>2 DEF b
  <2>3. u \in Text /\ Len(u) = Len(b) + Len(right) /\ \A k \in 1..Len(b) : u[k] = b[k]
    BY <2>1, <2>2
  <2> QED BY <1>2, <2>3 DEF Text
<1>7. \A k \in 1..Len(z) + 2 : u[s - 1 + k] = q[k]
  <2> SUFFICES ASSUME NEW k \in 1..Len(z) + 2 PROVE u[s - 1 + k] = q[k]
    OBVIOUS
  <2>1. s - 1 + k \in 1..Len(b)
    BY <1>1, <1>5
  <2> QED BY <1>5, <1>6, <2>1
<1>8. u[s] = token.sigil /\ \A k \in 1..Len(z) : u[s + k] = z[k]
  <2>1. u[s] = token.sigil
    <3>1. 1 \in 1..Len(z) + 2 /\ s - 1 + 1 = s
      BY <1>1, <1>5
    <3>2. u[s - 1 + 1] = q[1]
      BY <1>7, <3>1
    <3> QED BY <1>3, <3>1, <3>2
  <2>2. ASSUME NEW k \in 1..Len(z) PROVE u[s + k] = z[k]
    <3>1. k + 1 \in 1..Len(z) + 2 /\ s - 1 + (k + 1) = s + k
      BY <1>1, <1>5
    <3>2. u[s - 1 + (k + 1)] = q[k + 1]
      BY <1>7, <3>1
    <3> QED BY <1>3, <3>1, <3>2
  <2> QED BY <2>1, <2>2
<1>9. Blank(u, s + Len(z) + 1)
  <2>1. Len(z) + 2 \in 1..Len(z) + 2 /\ s - 1 + (Len(z) + 2) = s + Len(z) + 1
    BY <1>15, <1>16
  <2>2. u[s - 1 + (Len(z) + 2)] = q[Len(z) + 2]
    BY <1>7, <2>1
  <2>3. u[s + Len(z) + 1] = q[Len(z) + 2]
    BY <2>1, <2>2
  <2> QED BY <1>3, <2>3 DEF Blank
<1>10. \A k \in 1..s : text[k] = u[k]
  <2> SUFFICES ASSUME NEW k \in 1..s PROVE text[k] = u[k]
    OBVIOUS
  <2>1. CASE k = s
    BY <1>1, <1>8, <2>1
  <2>2. CASE k # s
    <3>1. k \in 1..s - 1 /\ k \in 1..Len(b)
      BY <1>1, <1>5, <2>2
    <3> QED BY <1>5, <1>6, <3>1
  <2> QED BY <2>1, <2>2
<1>11. Starts(u, s)
  <2>1. s # 1 => s - 1 \in 1..s
    BY <1>1
  <2> QED BY <1>1, <1>10, <2>1 DEF Starts, Blank
<1>12. c = s + Len(z) + 1 /\ s + Len(z) + 1 <= Len(u) /\ s < Len(u) /\ s \in 1..Len(u)
       /\ c + 1 = s + Len(z) + 2
  <2>1. c = s - 1 + Len(q) /\ Len(q) = Len(z) + 2 /\ Len(b) = s + Len(z) + 1
        /\ Len(u) = Len(b) + Len(right) /\ Len(right) \in Nat
    BY <1>2, <1>3, <1>5, <1>6
  <2> QED BY <1>15, <1>16, <2>1
<1>13. Agree(text, u, s)
  BY <1>1, <1>8, <1>10, <1>11, <1>12 DEF Agree
<1>14. Stands(u, s, z)
  <2>1. s + Len(z) + 2 <= Len(u) => Blank(u, s + Len(z) + 2)
    <3>1. s + Len(z) + 2 <= Len(u) => c # Len(u)
      BY <1>1, <1>5, <1>6, <1>12
    <3> QED BY <1>12, <3>1
  <2> QED BY <1>1, <1>8, <1>9, <1>11, <1>12, <2>1 DEF Stands
<1> QED BY <1>6, <1>8, <1>13, <1>14, Zenon DEF s, z

LEMMA CompletesAs ==
  ASSUME PlainNames, IInv, kind = "line", NEW token \in Active, NEW new \in BOOLEAN,
         NEW name \in Offers(token, new), new => Unmarked(name),
         NEW u, u = Applied(text, token, name, new).text,
         NEW c, c = Applied(text, token, name, new).caret, c = Len(u) \/ Blank(u, c + 1),
         Within(Names(Tokens(u, Sigils)), token.start)
  PROVE  Chosen(Names(Tokens(u, Sigils)), token.start, name, new)
<1> DEFINE s == token.start
<1>1. u \in Text /\ u[s] = token.sigil /\ Agree(text, u, s) /\ Stands(u, s, Quote(name, new)) /\ text \in Text
  BY PutIn DEF IInv, FormOK
<1>2. token.query \in Text /\ ~Taken(text, token, On) /\ On = Sigils
  BY ActiveIs DEF On, Editing
<1>3. Fits(u[s], name, new)
  <2>1. /\ name \in Text /\ (new => name # <<>> /\ name \notin Known(token.sigil))
        /\ ~new => name \in Known(token.sigil)
    BY <1>2, OfferedIs
  <2> QED BY <1>1, <2>1 DEF Fits
<1>4. Alone(Names(Tokens(text, Sigils)), u[s], s)
  BY <1>1, <1>2 DEF Taken, Alone
<1>5. 1 \in 1..s /\ {} \in SUBSET Sigils /\ u[s] \notin {}
  BY <1>1 DEF Agree
<1>6. Tokens(u, Sigils) = ScanOf(u, Sigils)[1][{}] /\ Tokens(text, Sigils) = ScanOf(text, Sigils)[1][{}]
  BY TokensAre
<1> HIDE DEF s
<1>7. Within(Names(ScanOf(u, Sigils)[1][{}]), s) /\ Alone(Names(ScanOf(text, Sigils)[1][{}]), u[s], s)
  BY <1>4, <1>6 DEF s
<1>8. Chosen(Names(ScanOf(u, Sigils)[1][{}]), s, name, new)
  BY <1>1, <1>3, <1>5, <1>7, Reached
<1> QED BY <1>6, <1>8 DEF s

\* A completion writes the name that was chosen, and the parser reads it as that one
\* (lib/composer.ts, ActionInput.tsx): an existing name wins over every other that begins alike,
\* a new one of several words is quoted, and what stands before it is read as it was.  No list
\* holds a name that a token could run on into a sigil with.
THEOREM FormsCompletion == ASSUME PlainNames PROVE Spec => CompletionNames
<1>1. ASSUME IInv, NEW token \in Active, NEW new \in BOOLEAN, NEW name \in Offers(token, new),
             Choose(token, name, new),
             caret' = Len(text') \/ Blank(text', caret' + 1),
             Within(Names(Tokens(text', On)), token.start), new => Unmarked(name)
      PROVE  Chosen(Names(Tokens(text', On)), token.start, name, new)
  <2>1. kind = "line" /\ text' = Applied(text, token, name, new).text
        /\ caret' = Applied(text, token, name, new).caret
    BY <1>1 DEF Choose, OnLine, Settle
  <2>2. On = Sigils
    BY <2>1 DEF On, Editing
  <2>3. PICK u, c : u = text' /\ c = caret'
    OBVIOUS
  <2>4. u = Applied(text, token, name, new).text /\ c = Applied(text, token, name, new).caret
        /\ (c = Len(u) \/ Blank(u, c + 1))
    BY <1>1, <2>1, <2>3
  <2>5. Tokens(text', On) = Tokens(u, Sigils)
    BY <2>2, <2>3
  <2>6. Within(Names(Tokens(u, Sigils)), token.start)
    BY <1>1, <2>5
  <2>7. Chosen(Names(Tokens(u, Sigils)), token.start, name, new)
    BY <1>1, <2>1, <2>4, <2>6, CompletesAs
  <2> QED BY <2>5, <2>7
<1>2. IInv =>
        \A token \in Active, new \in BOOLEAN : \A name \in Offers(token, new), tokens \in {Tokens(text', On)} :
          /\ Choose(token, name, new)
          /\ caret' = Len(text') \/ Blank(text', caret' + 1)
          /\ \A t \in Names(tokens) : t.start < token.start => t.after <= token.start
          /\ new => Names(name) \cap (IF " " \in Names(name) THEN {Mark} ELSE Sigils \cup {Mark}) = {}
          => \E t \in Names(tokens) : t.start = token.start /\ t.name = name /\ t.known = ~new
  <2> HAVE IInv
  <2> TAKE token \in Active, new \in BOOLEAN
  <2> TAKE name \in Offers(token, new), tokens \in {Tokens(text', On)}
  <2> HAVE /\ Choose(token, name, new)
           /\ caret' = Len(text') \/ Blank(text', caret' + 1)
           /\ \A t \in Names(tokens) : t.start < token.start => t.after <= token.start
           /\ new => Names(name) \cap (IF " " \in Names(name) THEN {Mark} ELSE Sigils \cup {Mark}) = {}
  <2>1. new => Unmarked(name)
    BY Zenon DEF Unmarked
  <2>2. Within(Names(tokens), token.start)
    BY Zenon DEF Within
  <2>3. Choose(token, name, new) /\ (caret' = Len(text') \/ Blank(text', caret' + 1))
    BY Zenon
  <2>4. tokens = Tokens(text', On)
    BY Zenon
  <2>5. Chosen(Names(tokens), token.start, name, new)
    BY <1>1, <2>1, <2>2, <2>3, <2>4, Zenon
  <2> QED BY <2>5, Zenon DEF Chosen
<1> QED BY <1>2, Invariant, PTL DEF CompletionNames
=============================================================================

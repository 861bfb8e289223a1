-------------------------- MODULE FileImportProofs --------------------------
(***************************************************************************)
(* Proofs about FileImport, for files and blocks of any size and whatever  *)
(* memory runs short of: where the bytes of a file come to lie in the      *)
(* buffer and how large it grows, what the text is split into, what comes  *)
(* of the records, and that the text of a document yields what it means.   *)
(***************************************************************************)
EXTENDS FileImport, DataListProofs, SequenceTheorems, FiniteSetTheorems, TLAPS

(***************************************************************************)
(* Induction over numbers, from the fact that no sequence of finite sets   *)
(* shrinks forever; and what it gives for a function that is defined from  *)
(* its value at the number before.                                         *)
(***************************************************************************)
LEMMA LeastNumber ==
  ASSUME NEW B \in SUBSET Nat, B # {}
  PROVE  \E m \in B : \A k \in B : m <= k
<1> DEFINE Below(n) == 0 .. n - 1
           T == {Below(n) : n \in B}
<1>1. T \subseteq FiniteSubsetsOf(Nat)
  <2> SUFFICES ASSUME NEW n \in B PROVE Below(n) \in FiniteSubsetsOf(Nat) OBVIOUS
  <2>1. n \in Nat /\ n - 1 \in Int OBVIOUS
  <2>2. IsFiniteSet(Below(n)) BY <2>1, FS_Interval
  <2>3. Below(n) \in SUBSET Nat BY <2>1
  <2>4. QED BY <2>2, <2>3 DEF FiniteSubsetsOf
<1>2. T # {} OBVIOUS
<1>3. PICK x \in T : \A y \in T : ~ (<<y, x>> \in StrictSubsetOrdering(Nat))
  BY <1>1, <1>2, FS_StrictSubsetOrderingWellFounded, WFMin
<1>4. PICK m \in B : x = Below(m) OBVIOUS
<1>5. ASSUME NEW k \in B, k < m PROVE FALSE
  <2>1. k \in Nat /\ m \in Nat OBVIOUS
  <2>2. Below(k) \subseteq Below(m) BY <1>5, <2>1
  <2>3. k \in Below(m) /\ k \notin Below(k) BY <1>5, <2>1
  <2>4. Below(k) \in SUBSET Nat /\ Below(m) \in SUBSET Nat BY <2>1
  <2>5. <<Below(k), Below(m)>> \in StrictSubsetOrdering(Nat)
    <3> HIDE DEF Below
    <3>1. QED BY <2>2, <2>3, <2>4 DEF StrictSubsetOrdering
  <2>6. QED BY <1>3, <1>4, <2>5
<1>6. QED BY <1>5

LEMMA Induction ==
  ASSUME NEW G, 0 \in G, \A n \in Nat : n \in G => n + 1 \in G
  PROVE  \A n \in Nat : n \in G
<1> SUFFICES ASSUME NEW n \in Nat, n \notin G PROVE FALSE OBVIOUS
<1> DEFINE B == {k \in Nat : k \notin G}
<1>1. PICK m \in B : \A k \in B : m <= k BY LeastNumber
<1>2. m # 0 /\ m \in Nat OBVIOUS
<1>3. m - 1 \in Nat /\ m - 1 \notin B BY <1>1, <1>2
<1>4. QED BY <1>2, <1>3


\* A function that is defined from its value at the number before exists.
Turns(S, n) == [S \X (1 .. n) -> S]
Follows(f, c, turn, n) == f[0] = c /\ \A i \in 1 .. n : f[i] = turn[<<f[i - 1], i>>]

LEMMA Recursion ==
  ASSUME NEW S, NEW c \in S, NEW n \in Nat, NEW step \in Turns(S, n)
  PROVE  \E f \in [0 .. n -> S] : Follows(f, c, step, n)
<1> USE DEF Turns, Follows
<1> DEFINE Computes(f, m) == Follows(f, c, step, m)
           G == {m \in Nat : m <= n => \E f \in [0 .. m -> S] : Computes(f, m)}
<1>1. 0 \in G
  <2> DEFINE f == [i \in 0 .. 0 |-> c]
  <2>1. f \in [0 .. 0 -> S] /\ Computes(f, 0) OBVIOUS
  <2>2. QED BY <2>1
<1>2. ASSUME NEW m \in Nat, m \in G PROVE m + 1 \in G
  <2> SUFFICES ASSUME m + 1 <= n PROVE \E f \in [0 .. m + 1 -> S] : Computes(f, m + 1)
    OBVIOUS
  <2>1. PICK g \in [0 .. m -> S] : Computes(g, m) BY <1>2
  <2> DEFINE f == [i \in 0 .. m + 1 |-> IF i <= m THEN g[i] ELSE step[<<g[m], m + 1>>]]
  <2>2. step[<<g[m], m + 1>>] \in S
    <3>1. g[m] \in S /\ m + 1 \in 1 .. n OBVIOUS
    <3>2. QED BY <3>1
  <2>3. f \in [0 .. m + 1 -> S] BY <2>2
  <2>4. Computes(f, m + 1)
    <3>1. f[0] = c BY <2>1
    <3>2. ASSUME NEW i \in 1 .. m + 1 PROVE f[i] = step[<<f[i - 1], i>>]
      <4>1. f[i - 1] = g[i - 1] OBVIOUS
      <4>2. CASE i <= m BY <2>1, <4>1, <4>2
      <4>3. CASE i = m + 1 BY <4>1, <4>3
      <4>4. QED BY <4>2, <4>3
    <3>3. QED BY <3>1, <3>2
  <2>5. QED BY <2>3, <2>4
<1>3. n \in G
  <2> HIDE DEF G
  <2>1. QED BY <1>1, <1>2, Induction
<1>4. QED BY <1>3

\* What a text holds at any index, also beyond its end.
Cells(s) == {s[i] : i \in Int}
States(s) == [tokens : Seq(Seq(Cells(s))), start : Nat, length : Nat]

LEMMA ScanStepType ==
  ASSUME NEW s, NEW d, NEW i \in Nat, NEW before \in States(s)
  PROVE  SplitStep(s, d, before, i) \in States(s)
<1> DEFINE isDelim == s[i] \in d
           length  == IF isDelim THEN before.length ELSE before.length + 1
           start   == IF isDelim /\ before.length = 0 THEN i + 1 ELSE before.start
           token   == SubSeq(s, start, start + length - 1)
<1>1. /\ before.tokens \in Seq(Seq(Cells(s))) /\ before.start \in Nat /\ before.length \in Nat
  BY DEF States
<1>2. start \in Nat /\ length \in Nat BY <1>1
<1>3. token \in Seq(Cells(s))
  <2> HIDE DEF start, length
  <2>1. start \in Int /\ start + length - 1 \in Int BY <1>2
  <2>2. \A j \in start .. start + length - 1 : s[j] \in Cells(s) BY <2>1 DEF Cells
  <2>3. QED BY <2>1, <2>2, SubSeqProperties
<1>4. Append(before.tokens, token) \in Seq(Seq(Cells(s))) BY <1>1, <1>3, AppendProperties
<1>5. SplitStep(s, d, before, i) =
        IF (isDelim /\ before.length > 0) \/ i = Len(s)
        THEN [tokens |-> Append(before.tokens, token), start |-> i + 1, length |-> 0]
        ELSE [tokens |-> before.tokens, start |-> start, length |-> length]
  BY DEF SplitStep
<1> HIDE DEF start, length, token, isDelim
<1>6. QED BY <1>1, <1>2, <1>4, <1>5 DEF States

\* The loop is well defined, and its turns are those of SplitStep.
LEMMA ScanTurns ==
  ASSUME NEW C, NEW s \in Seq(C), NEW d
  PROVE  /\ Scan(s, d)[0] = [tokens |-> <<>>, start |-> 1, length |-> 0]
         /\ \A i \in 1 .. Len(s) :
              Scan(s, d)[i] = SplitStep(s, d, Scan(s, d)[i - 1], i)
<1> DEFINE c == [tokens |-> <<>>, start |-> 1, length |-> 0]
           n == Len(s)
           step == [x \in States(s) \X (1 .. n) |-> SplitStep(s, d, x[1], x[2])]
           Turn(f, i) ==
             CHOOSE after \in {SplitStep(s, d, before, i) : before \in {f[i - 1]}} : TRUE
           P(f) == f = [i \in 0 .. n |-> IF i = 0 THEN c ELSE Turn(f, i)]
<1>1. n \in Nat BY LenProperties
<1>2. c \in States(s)
  <2>1. <<>> \in Seq(Seq(Cells(s))) BY EmptySeq
  <2>2. QED BY <2>1 DEF States
<1>3. step \in Turns(States(s), n)
  <2> SUFFICES ASSUME NEW x \in States(s) \X (1 .. n)
      PROVE  SplitStep(s, d, x[1], x[2]) \in States(s)
    BY DEF Turns
  <2>1. x[1] \in States(s) /\ x[2] \in Nat BY <1>1
  <2>2. QED BY <2>1, ScanStepType
<1>4. PICK f \in [0 .. n -> States(s)] : Follows(f, c, step, n)
  <2> HIDE DEF step, c, n, Turn, P
  <2>1. QED BY <1>1, <1>2, <1>3, Recursion
<1>5. ASSUME NEW g, NEW i PROVE Turn(g, i) = SplitStep(s, d, g[i - 1], i)
  <2> DEFINE y == SplitStep(s, d, g[i - 1], i)
  <2>1. {SplitStep(s, d, before, i) : before \in {g[i - 1]}} = {y} OBVIOUS
  <2> HIDE DEF y
  <2>2. (CHOOSE after \in {y} : TRUE) = y OBVIOUS
  <2>3. QED BY <2>1, <2>2 DEF y
<1>6. \A i \in 1 .. n : f[i] = SplitStep(s, d, f[i - 1], i)
  <2> TAKE i \in 1 .. n
  <2>1. <<f[i - 1], i>> \in States(s) \X (1 .. n)
    <3>1. i - 1 \in 0 .. n BY <1>1
    <3>2. QED BY <1>4, <3>1
  <2>2. QED BY <1>4, <2>1 DEF Follows
<1>7. P(f)
  <2> HIDE DEF Turn, c
  <2>1. \A i \in 0 .. n : f[i] = IF i = 0 THEN c ELSE Turn(f, i)
    BY <1>1, <1>4, <1>5, <1>6 DEF Follows
  <2>2. QED BY <1>4, <2>1
<1>8. Scan(s, d) = CHOOSE g : P(g) BY DEF Scan
<1>9. P(Scan(s, d))
  <2> HIDE DEF P
  <2>1. P(CHOOSE g : P(g)) BY <1>7
  <2>2. QED BY <1>8, <2>1
<1> DEFINE h == Scan(s, d)
<1>10. h = [i \in 0 .. n |-> IF i = 0 THEN c ELSE Turn(h, i)] BY <1>9
<1> HIDE DEF h, Turn, c
<1>11. h[0] = c /\ \A i \in 1 .. n : h[i] = Turn(h, i)
  <2>1. \A i \in 0 .. n : h[i] = IF i = 0 THEN c ELSE Turn(h, i) BY <1>10
  <2>2. QED BY <1>1, <2>1
<1>12. QED BY <1>5, <1>11 DEF h, c

-----------------------------------------------------------------------------
LEMMA RunFacts ==
  ASSUME NEW s, Len(s) \in Nat, NEW d, NEW r \in Runs(s, d)
  PROVE  /\ r = <<r[1], r[2]>>
         /\ r[1] \in 1 .. Len(s) /\ r[2] \in 1 .. Len(s) /\ r[1] <= r[2]
         /\ \A i \in r[1] .. r[2] : s[i] \notin d
         /\ r[1] > 1 => s[r[1] - 1] \in d
         /\ r[2] < Len(s) => s[r[2] + 1] \in d
BY DEF Runs

LEMMA RunsApart ==
  ASSUME NEW s, Len(s) \in Nat, NEW d, NEW q \in Runs(s, d), NEW r \in Runs(s, d),
         q[1] <= r[1], r[1] <= q[2]
  PROVE  q = r
<1>1. Len(s) \in Nat OBVIOUS
<1>2. q[1] = r[1]
  <2>1. SUFFICES ASSUME q[1] < r[1] PROVE FALSE BY <1>1, RunFacts
  <2>2. r[1] > 1 /\ r[1] - 1 \in q[1] .. q[2] BY <1>1, <2>1, RunFacts
  <2>3. QED BY <2>2, RunFacts
<1>3. ~(q[2] < r[2])
  <2>1. SUFFICES ASSUME q[2] < r[2] PROVE FALSE OBVIOUS
  <2>2. q[2] < Len(s) /\ q[2] + 1 \in r[1] .. r[2] BY <1>1, <2>1, RunFacts
  <2>3. QED BY <2>2, RunFacts
<1>4. ~(r[2] < q[2])
  <2>1. SUFFICES ASSUME r[2] < q[2] PROVE FALSE OBVIOUS
  <2>2. r[2] < Len(s) /\ r[2] + 1 \in q[1] .. q[2] BY <1>1, <1>2, <2>1, RunFacts
  <2>3. QED BY <2>2, RunFacts
<1>5. q[2] = r[2] BY <1>1, <1>3, <1>4, RunFacts
<1>6. QED BY <1>2, <1>5, RunFacts

\* The runs that end before an index, and how many begin no later than r.
Before(s, d, k) == {r \in Runs(s, d) : r[2] < k}
UpTo(s, d, r)   == {q \in Runs(s, d) : q[1] <= r[1]}
Place(s, d, r)  == Cardinality(UpTo(s, d, r))

LEMMA RunsFinite ==
  ASSUME NEW s, Len(s) \in Nat, NEW d, NEW R \in SUBSET Runs(s, d)
  PROVE  IsFiniteSet(R) /\ Cardinality(R) \in Nat
<1>1. Len(s) \in Nat OBVIOUS
<1>2. IsFiniteSet(1 .. Len(s)) BY <1>1, FS_Interval
<1>3. IsFiniteSet((1 .. Len(s)) \X (1 .. Len(s))) BY <1>2, FS_Product
<1>4. R \in SUBSET ((1 .. Len(s)) \X (1 .. Len(s))) BY DEF Runs
<1>5. IsFiniteSet(R) BY <1>3, <1>4, FS_Subset
<1>6. QED BY <1>5, FS_CardinalityType

\* The next run has the next place.
LEMMA NextPlace ==
  ASSUME NEW s, Len(s) \in Nat, NEW d, NEW r \in Runs(s, d)
  PROVE  /\ UpTo(s, d, r) = Before(s, d, r[1]) \cup {r}
         /\ Before(s, d, r[2] + 1) = Before(s, d, r[1]) \cup {r}
         /\ Before(s, d, r[2] + 2) = Before(s, d, r[1]) \cup {r}
         /\ Place(s, d, r) = Cardinality(Before(s, d, r[1])) + 1
<1>1. Len(s) \in Nat OBVIOUS
<1>2. ASSUME NEW q \in Runs(s, d)
      PROVE  /\ q[1] <= r[1] <=> q[2] < r[1] \/ q = r
             /\ q[2] < r[2] + 1 <=> q[2] < r[1] \/ q = r
             /\ q[2] < r[2] + 2 <=> q[2] < r[1] \/ q = r
  <2>1. CASE q = r BY <1>1, <2>1, RunFacts
  <2>2. CASE q # r
    <3>1. q[1] <= r[1] => q[2] < r[1] BY <1>1, <2>2, RunsApart, RunFacts
    <3>2. r[1] <= q[1] => r[2] < q[1] BY <1>1, <2>2, RunsApart, RunFacts
    <3>3. q[2] # r[2] + 1
      <4>1. SUFFICES ASSUME q[2] = r[2] + 1 PROVE FALSE OBVIOUS
      <4>2. r[2] < Len(s) BY <1>1, <4>1, RunFacts
      <4>3. s[r[2] + 1] \in d BY <4>2, RunFacts
      <4>4. q[2] \in q[1] .. q[2] BY <1>1, RunFacts
      <4>5. QED BY <4>1, <4>3, <4>4, RunFacts
    <3>4. QED BY <1>1, <2>2, <3>1, <3>2, <3>3, RunFacts
  <2>3. QED BY <2>1, <2>2
<1>3. /\ UpTo(s, d, r) = Before(s, d, r[1]) \cup {r}
      /\ Before(s, d, r[2] + 1) = Before(s, d, r[1]) \cup {r}
      /\ Before(s, d, r[2] + 2) = Before(s, d, r[1]) \cup {r}
  BY <1>2 DEF UpTo, Before
<1>4. r \notin Before(s, d, r[1]) BY <1>1, RunFacts DEF Before
<1>5. Before(s, d, r[1]) \in SUBSET Runs(s, d) BY DEF Before
<1>6. Cardinality(Before(s, d, r[1]) \cup {r}) = Cardinality(Before(s, d, r[1])) + 1
  BY <1>4, <1>5, RunsFinite, FS_AddElement
<1>7. QED BY <1>3, <1>6 DEF Place

\* The places of the runs before an index are taken by them.
LEMMA EarlierPlace ==
  ASSUME NEW s, Len(s) \in Nat, NEW d, NEW k \in Int, NEW r \in Before(s, d, k)
  PROVE  Place(s, d, r) \in 1 .. Cardinality(Before(s, d, k))
<1>1. Len(s) \in Nat OBVIOUS
<1>2. r \in Runs(s, d) /\ r[2] < k BY DEF Before
<1>3. Before(s, d, r[2] + 1) \subseteq Before(s, d, k)
  <2> SUFFICES ASSUME NEW q \in Runs(s, d), q[2] < r[2] + 1 PROVE q[2] < k
    BY DEF Before
  <2>1. QED BY <1>1, <1>2, RunFacts
<1>4. UpTo(s, d, r) = Before(s, d, r[2] + 1)
  <2>1. /\ UpTo(s, d, r) = Before(s, d, r[1]) \cup {r}
        /\ Before(s, d, r[2] + 1) = Before(s, d, r[1]) \cup {r}
    BY <1>2, NextPlace
  <2>2. QED BY <2>1, Zenon
<1>5. Before(s, d, k) \in SUBSET Runs(s, d) BY DEF Before
<1>6. Place(s, d, r) <= Cardinality(Before(s, d, k)) /\ Place(s, d, r) \in Nat
  <2>1. IsFiniteSet(Before(s, d, k)) BY <1>5, RunsFinite
  <2>2. UpTo(s, d, r) \in SUBSET Before(s, d, k) BY <1>3, <1>4
  <2>3. UpTo(s, d, r) \in SUBSET Runs(s, d) BY DEF UpTo
  <2>4. QED BY <2>1, <2>2, <2>3, FS_Subset, RunsFinite DEF Place
<1>7. Place(s, d, r) = Cardinality(Before(s, d, r[1])) + 1 BY <1>2, NextPlace
<1>8. Cardinality(Before(s, d, r[1])) \in Nat
  <2>1. Before(s, d, r[1]) \in SUBSET Runs(s, d) BY DEF Before
  <2>2. QED BY <2>1, RunsFinite
<1>9. Cardinality(Before(s, d, k)) \in Nat BY <1>5, RunsFinite
<1>10. QED BY <1>6, <1>7, <1>8, <1>9

-----------------------------------------------------------------------------
\* What the loop has found after i characters, but for the last: the runs that
\* ended, in their places, and where the run begins that it is in.
Tokens(s, d, found, k) ==
  /\ Len(found) = Cardinality(Before(s, d, k))
  /\ \A r \in Before(s, d, k) : found[Place(s, d, r)] = SubSeq(s, r[1], r[2])

Within(s, d, i, st) ==
  /\ st.start \in 1 .. i + 1 /\ st.length = i + 1 - st.start
  /\ \A j \in st.start .. i : s[j] \notin d
  /\ st.start > 1 => s[st.start - 1] \in d
  /\ Tokens(s, d, st.tokens, st.start)

LEMMA AppendFacts ==
  ASSUME NEW T, NEW found \in Seq(T), NEW t \in T
  PROVE  /\ Len(Append(found, t)) = Len(found) + 1 /\ Len(found) \in Nat
         /\ \A i \in 1 .. Len(found) : Append(found, t)[i] = found[i]
         /\ Append(found, t)[Len(found) + 1] = t
BY AppendProperties, LenProperties

\* A token for a run that has ended.
LEMMA TokenAdded ==
  ASSUME NEW s, Len(s) \in Nat, NEW d, NEW T, NEW found \in Seq(T),
         NEW r \in Runs(s, d), NEW t \in T, t = SubSeq(s, r[1], r[2]),
         Tokens(s, d, found, r[1])
  PROVE  /\ Tokens(s, d, Append(found, t), r[2] + 1)
         /\ Tokens(s, d, Append(found, t), r[2] + 2)
<1> DEFINE new == Append(found, t)
           old == Before(s, d, r[1])
<1>1. Len(found) \in Nat BY LenProperties
<1>1a. /\ Len(new) = Len(found) + 1
       /\ \A i \in 1 .. Len(found) : new[i] = found[i]
       /\ new[Len(found) + 1] = t
  BY AppendFacts
<1>2. Len(found) = Cardinality(old) /\ \A q \in old : found[Place(s, d, q)] = SubSeq(s, q[1], q[2])
  BY DEF Tokens
<1>3. /\ UpTo(s, d, r) = old \cup {r} /\ Before(s, d, r[2] + 1) = old \cup {r}
      /\ Before(s, d, r[2] + 2) = old \cup {r} /\ Place(s, d, r) = Cardinality(old) + 1
  BY NextPlace
<1>4. Cardinality(old \cup {r}) = Cardinality(old) + 1 BY <1>3 DEF Place
<1>5. ASSUME NEW q \in old PROVE new[Place(s, d, q)] = SubSeq(s, q[1], q[2])
  <2>1. r[1] \in Int BY RunFacts
  <2>2. Place(s, d, q) \in 1 .. Len(found) BY <1>2, <2>1, EarlierPlace
  <2>3. QED BY <1>1a, <1>2, <2>2
<1>6. new[Place(s, d, r)] = SubSeq(s, r[1], r[2]) BY <1>1a, <1>2, <1>3
<1> HIDE DEF new, old
<1>7. Len(new) = Cardinality(old \cup {r}) BY <1>1a, <1>2, <1>4
<1>8. QED BY <1>3, <1>5, <1>6, <1>7, Zenon DEF Tokens, new

\* No run ends at a delimiter.
LEMMA NoRunEnds ==
  ASSUME NEW s, Len(s) \in Nat, NEW d, NEW i \in 1 .. Len(s), s[i] \in d
  PROVE  Before(s, d, i + 1) = Before(s, d, i)
<1>1. Len(s) \in Nat OBVIOUS
<1>2. ASSUME NEW r \in Runs(s, d) PROVE r[2] < i + 1 <=> r[2] < i
  <2>1. r[2] # i
    <3>1. r[2] \in r[1] .. r[2] BY <1>1, RunFacts
    <3>2. QED BY <3>1, RunFacts
  <2>2. QED BY <1>1, <2>1, RunFacts
<1>3. QED BY <1>2 DEF Before

\* The run the loop is in has ended.
LEMMA RunEnds ==
  ASSUME NEW s, Len(s) \in Nat, NEW d, NEW a \in Nat, NEW b \in Nat,
         1 <= a, a <= b, b <= Len(s), \A j \in a .. b : s[j] \notin d,
         a > 1 => s[a - 1] \in d, b < Len(s) => s[b + 1] \in d
  PROVE  <<a, b>> \in Runs(s, d)
<1>1. Len(s) \in Nat OBVIOUS
<1>2. a \in 1 .. Len(s) /\ b \in 1 .. Len(s) BY <1>1
<1>3. QED BY <1>2 DEF Runs

\* The loop's first turns.
LEMMA WithinStep ==
  ASSUME NEW s, Len(s) \in Nat, NEW d, NEW i \in 1 .. Len(s), i # Len(s),
         NEW st \in States(s), Within(s, d, i - 1, st)
  PROVE  Within(s, d, i, SplitStep(s, d, st, i))
<1>1. Len(s) \in Nat /\ i \in Nat /\ 1 <= i /\ i < Len(s) OBVIOUS
<1>2. /\ st.start \in Nat /\ st.length \in Nat /\ st.tokens \in Seq(Seq(Cells(s)))
      /\ 1 <= st.start /\ st.start <= i /\ st.length = i - st.start
      /\ \A j \in st.start .. i - 1 : s[j] \notin d
      /\ st.start > 1 => s[st.start - 1] \in d
      /\ Tokens(s, d, st.tokens, st.start)
  BY <1>1 DEF Within, States
<1>3. CASE s[i] \notin d
  <2>1. SplitStep(s, d, st, i) =
          [tokens |-> st.tokens, start |-> st.start, length |-> st.length + 1]
    BY <1>3 DEF SplitStep
  <2>2. \A j \in st.start .. i : s[j] \notin d BY <1>1, <1>2, <1>3
  <2>3. QED BY <1>1, <1>2, <2>1, <2>2 DEF Within
<1>4. CASE s[i] \in d /\ st.length = 0
  <2>1. SplitStep(s, d, st, i) =
          [tokens |-> st.tokens, start |-> i + 1, length |-> st.length]
    BY <1>4 DEF SplitStep
  <2>2. st.start = i BY <1>1, <1>2, <1>4
  <2>3. Tokens(s, d, st.tokens, i + 1)
    BY <1>2, <1>4, <2>2, NoRunEnds DEF Tokens
  <2>4. QED BY <1>1, <1>4, <2>1, <2>3 DEF Within
<1>5. CASE s[i] \in d /\ st.length # 0
  <2> DEFINE t == SubSeq(s, st.start, st.start + st.length - 1)
  <2>1. st.length > 0 /\ st.start <= i - 1 /\ st.start + st.length - 1 = i - 1
    <3> DEFINE a == st.start
               b == st.length
    <3>1. a \in Nat /\ b \in Nat /\ b # 0 /\ a <= i /\ b = i - a BY <1>2, <1>5
    <3> HIDE DEF a, b
    <3>2. b > 0 /\ a <= i - 1 /\ a + b - 1 = i - 1 BY <1>1, <3>1
    <3>3. QED BY <3>2 DEF a, b
  <2>2. SplitStep(s, d, st, i) =
          [tokens |-> Append(st.tokens, t), start |-> i + 1, length |-> 0]
    BY <1>5, <2>1 DEF SplitStep
  <2>3. i - 1 \in Nat /\ i - 1 < Len(s) /\ (i - 1) + 1 = i /\ (i - 1) + 2 = i + 1 BY <1>1
  <2>4. <<st.start, i - 1>> \in Runs(s, d)
    <3> DEFINE a == st.start
               b == i - 1
    <3>1. /\ a \in Nat /\ b \in Nat /\ 1 <= a /\ a <= b /\ b <= Len(s)
          /\ \A j \in a .. b : s[j] \notin d
          /\ a > 1 => s[a - 1] \in d
          /\ s[b + 1] \in d
      BY <1>1, <1>2, <1>5, <2>1, <2>3
    <3> HIDE DEF a, b
    <3>2. <<a, b>> \in Runs(s, d) BY <3>1, RunEnds
    <3>3. QED BY <3>2 DEF a, b
  <2>5. t \in Seq(Cells(s)) /\ t = SubSeq(s, st.start, i - 1)
    <3>1. \A j \in st.start .. i - 1 : s[j] \in Cells(s) BY <1>2, <2>3 DEF Cells
    <3>2. SubSeq(s, st.start, i - 1) \in Seq(Cells(s))
      BY <1>2, <2>3, <3>1, SubSeqProperties
    <3>3. QED BY <2>1, <3>2
  <2> HIDE DEF t
  <2>6. Tokens(s, d, Append(st.tokens, t), i + 1)
    <3> DEFINE r == <<st.start, i - 1>>
    <3>1. r[1] = st.start /\ r[2] = i - 1 OBVIOUS
    <3>2. r \in Runs(s, d) BY <2>4
    <3> HIDE DEF r
    <3>3. Tokens(s, d, Append(st.tokens, t), r[2] + 2)
      BY <1>2, <2>5, <3>1, <3>2, TokenAdded
    <3>4. QED BY <2>3, <3>1, <3>3
  <2>7. QED BY <1>1, <1>5, <2>2, <2>6 DEF Within
<1>6. QED BY <1>3, <1>4, <1>5

\* A token lies within the text.
LEMMA TokenType ==
  ASSUME NEW C, NEW s \in Seq(C), NEW d, NEW i \in 1 .. Len(s), NEW st \in States(s),
         Within(s, d, i - 1, st), st.tokens \in Seq(Seq(C))
  PROVE  SplitStep(s, d, st, i).tokens \in Seq(Seq(C))
<1> DEFINE isDelim == s[i] \in d
           length  == IF isDelim THEN st.length ELSE st.length + 1
           start   == IF isDelim /\ st.length = 0 THEN i + 1 ELSE st.start
           token   == SubSeq(s, start, start + length - 1)
<1>1. Len(s) \in Nat /\ i \in Nat /\ 1 <= i /\ i <= Len(s) BY LenProperties
<1>2. /\ start \in Int /\ length \in Int /\ 1 <= start /\ start + length - 1 <= i
  <2> DEFINE a == st.start
             b == st.length
  <2>1. a \in Nat /\ b \in Nat /\ 1 <= a /\ a <= i /\ b = i - a
    BY <1>1 DEF Within, States
  <2>2. /\ length = IF isDelim THEN b ELSE b + 1
        /\ start = IF isDelim /\ b = 0 THEN i + 1 ELSE a
    OBVIOUS
  <2> HIDE DEF a, b, isDelim, length, start
  <2>3. QED BY <1>1, <2>1, <2>2
<1>3. token \in Seq(C)
  <2> HIDE DEF start, length
  <2>1. \A j \in start .. start + length - 1 : s[j] \in C
    BY <1>1, <1>2, ElementOfSeq
  <2>2. start + length - 1 \in Int BY <1>2
  <2>3. QED BY <1>2, <2>1, <2>2, SubSeqProperties
<1>4. Append(st.tokens, token) \in Seq(Seq(C)) BY <1>3, AppendProperties
<1>5. SplitStep(s, d, st, i).tokens \in {st.tokens, Append(st.tokens, token)}
  BY DEF SplitStep
<1> HIDE DEF token
<1>6. QED BY <1>4, <1>5

\* Before the last turn.
LEMMA ScanWithin ==
  ASSUME NEW C, NEW s \in Seq(C), NEW d
  PROVE  \A i \in Nat : i < Len(s) =>
           /\ Scan(s, d)[i] \in States(s) /\ Within(s, d, i, Scan(s, d)[i])
           /\ Scan(s, d)[i].tokens \in Seq(Seq(C))
<1> DEFINE h == Scan(s, d)
           Good(i) == h[i] \in States(s) /\ Within(s, d, i, h[i]) /\ h[i].tokens \in Seq(Seq(C))
           G == {i \in Nat : i < Len(s) => Good(i)}
<1>1. Len(s) \in Nat BY LenProperties
<1>2. /\ h[0] = [tokens |-> <<>>, start |-> 1, length |-> 0]
      /\ \A i \in 1 .. Len(s) : h[i] = SplitStep(s, d, h[i - 1], i)
  BY ScanTurns
<1> HIDE DEF h
<1>3. 0 \in G
  <2>1. <<>> \in Seq(Seq(C)) /\ <<>> \in Seq(Seq(Cells(s))) /\ Len(<<>>) = 0 BY EmptySeq
  <2>2. Before(s, d, 1) = {} BY <1>1, RunFacts DEF Before
  <2>3. Tokens(s, d, <<>>, 1) BY <2>1, <2>2, FS_EmptySet DEF Tokens
  <2>4. Within(s, d, 0, h[0]) BY <1>2, <2>3 DEF Within
  <2>5. h[0] \in States(s) /\ h[0].tokens \in Seq(Seq(C)) BY <1>2, <2>1 DEF States
  <2>6. QED BY <2>4, <2>5
<1>4. ASSUME NEW i \in Nat, i \in G PROVE i + 1 \in G
  <2> SUFFICES ASSUME i + 1 < Len(s) PROVE Good(i + 1) OBVIOUS
  <2> DEFINE j == i + 1
  <2>1. j \in 1 .. Len(s) /\ j # Len(s) /\ j - 1 = i /\ j \in Nat BY <1>1
  <2>2. Good(j - 1) BY <1>1, <1>4, <2>1
  <2> HIDE DEF j
  <2>3. h[j] = SplitStep(s, d, h[j - 1], j) BY <1>2, <2>1
  <2>4. h[j] \in States(s) BY <2>1, <2>2, <2>3, ScanStepType
  <2>5. Within(s, d, j, h[j]) BY <1>1, <2>1, <2>2, <2>3, WithinStep
  <2>6. h[j].tokens \in Seq(Seq(C)) BY <2>1, <2>2, <2>3, TokenType
  <2>7. QED BY <2>4, <2>5, <2>6 DEF j
<1>5. \A i \in Nat : i \in G
  <2> HIDE DEF G
  <2>1. QED BY <1>3, <1>4, Induction
<1>6. QED BY <1>5 DEF h

\* What a text of some length is split into has the type of its characters.
LEMMA SplitType ==
  ASSUME NEW C, NEW s \in Seq(C), NEW d
  PROVE  Split(s, d) \in Seq(Seq(C))
<1> DEFINE h == Scan(s, d)
           n == Len(s)
<1>1. n \in Nat BY LenProperties
<1>2. /\ h[0] = [tokens |-> <<>>, start |-> 1, length |-> 0]
      /\ \A i \in 1 .. Len(s) : h[i] = SplitStep(s, d, h[i - 1], i)
  BY ScanTurns
<1>3. CASE n = 0
  <2>1. h[n].tokens = <<>> BY <1>2, <1>3
  <2>2. QED BY <2>1, EmptySeq DEF Split
<1>4. CASE n # 0
  <2>1. n \in 1 .. Len(s) /\ n - 1 \in Nat /\ n - 1 < Len(s) BY <1>1, <1>4
  <2> HIDE DEF n, h
  <2>2. /\ h[n - 1] \in States(s) /\ Within(s, d, n - 1, h[n - 1])
        /\ h[n - 1].tokens \in Seq(Seq(C))
    BY <2>1, ScanWithin DEF h
  <2>3. h[n] = SplitStep(s, d, h[n - 1], n) BY <1>2, <2>1
  <2>4. h[n].tokens \in Seq(Seq(C)) BY <2>1, <2>2, <2>3, TokenType
  <2>5. QED BY <2>4 DEF Split, h, n
<1>5. QED BY <1>3, <1>4

-----------------------------------------------------------------------------
\* The last turn: it ends the run it is in or, behind two delimiters, the
\* empty token.
LEMMA LastTurn ==
  ASSUME NEW s, NEW n \in Nat, n = Len(s), n # 0, NEW d, DOMAIN s = 1 .. n,
         NEW st \in States(s), Within(s, d, n - 1, st),
         NEW found, found = SplitStep(s, d, st, n).tokens
  PROVE  IsSplit(found, s, d)
<1> DEFINE a == st.start
           b == st.length
           old == st.tokens
           runs == Runs(s, d)
<1>1. /\ a \in Nat /\ b \in Nat /\ old \in Seq(Seq(Cells(s)))
      /\ 1 <= a /\ a <= n /\ b = n - a
  BY DEF Within, States
<1>2. /\ \A j \in a .. n - 1 : s[j] \notin d
      /\ a > 1 => s[a - 1] \in d
      /\ Tokens(s, d, old, a)
  BY DEF Within
<1>3. SUFFICES
        /\ Len(found) = Cardinality(runs) + (IF EndsEmpty(s, d) THEN 1 ELSE 0)
        /\ EndsEmpty(s, d) => found[Len(found)] = <<>>
        /\ \A r \in runs : found[Place(s, d, r)] = SubSeq(s, r[1], r[2])
  BY DEF IsSplit, Place, UpTo
<1>4. EndsEmpty(s, d) <=> s[n] \in d /\ (n = 1 \/ s[n - 1] \in d)
  <2>1. {n - 1, n} \cap DOMAIN s = IF n = 1 THEN {n} ELSE {n - 1, n} OBVIOUS
  <2>2. s # <<>> OBVIOUS
  <2>3. QED BY <2>1, <2>2 DEF EndsEmpty
<1>5. runs = Before(s, d, n + 1)
  <2>1. \A r \in runs : r[2] < n + 1 BY RunFacts
  <2>2. QED BY <2>1 DEF Before
<1>6. Cardinality(runs) \in Nat BY RunsFinite
<1>7. /\ s[n] \in d /\ b > 0 => found = Append(old, SubSeq(s, a, a + b - 1))
      /\ s[n] \in d /\ b = 0 => found = Append(old, SubSeq(s, n + 1, n + 1 + b - 1))
      /\ s[n] \notin d => found = Append(old, SubSeq(s, a, a + (b + 1) - 1))
  <2>1. CASE s[n] \in d /\ b = 0 BY <2>1 DEF SplitStep
  <2>2. CASE s[n] \in d /\ b # 0 BY <2>2 DEF SplitStep
  <2>3. CASE s[n] \notin d BY <2>3 DEF SplitStep
  <2>4. b > 0 <=> b # 0 BY <1>1
  <2>5. QED BY <2>1, <2>2, <2>3, <2>4
<1> HIDE DEF a, b, old, runs
<1>8. CASE s[n] \notin d \/ b > 0
  <2> DEFINE z == IF s[n] \in d THEN n - 1 ELSE n
             t == SubSeq(s, a, z)
             r == <<a, z>>
  <2>1. /\ z \in Nat /\ a <= z /\ z <= n /\ z + 1 \in {n, n + 1}
        /\ s[n] \in d => z = a + b - 1
        /\ s[n] \notin d => z = a + (b + 1) - 1
    BY <1>1, <1>8
  <2>2. \A j \in a .. z : s[j] \notin d
    <3>1. CASE s[n] \in d BY <1>2, <3>1
    <3>2. CASE s[n] \notin d
      <4>1. \A j \in a .. n : j \in a .. n - 1 \/ j = n BY <1>1
      <4>2. QED BY <1>2, <3>2, <4>1
    <3>3. QED BY <3>1, <3>2
  <2>3. z < n => s[z + 1] \in d
    <3>1. CASE s[n] \in d BY <3>1
    <3>2. CASE s[n] \notin d BY <3>2
    <3>3. QED BY <3>1, <3>2
  <2>4. ~EndsEmpty(s, d)
    <3>1. CASE s[n] \notin d BY <1>4, <3>1
    <3>2. CASE b > 0
      <4>1. n # 1 /\ n - 1 \in a .. n - 1 BY <1>1, <3>2
      <4>2. QED BY <1>2, <1>4, <4>1
    <3>3. QED BY <1>8, <3>1, <3>2
  <2>5. found = Append(old, t)
    <3>1. (s[n] \in d /\ b > 0) \/ s[n] \notin d BY <1>8
    <3> HIDE DEF z
    <3>2. QED BY <1>7, <2>1, <3>1
  <2> HIDE DEF z
  <2>6. r \in Runs(s, d) BY <1>1, <1>2, <2>1, <2>2, <2>3, RunEnds
  <2>7. t \in Seq(Cells(s))
    <3>1. a \in Int /\ z \in Int BY <1>1, <2>1
    <3>2. \A j \in a .. z : s[j] \in Cells(s) BY <3>1 DEF Cells
    <3>3. QED BY <3>1, <3>2, SubSeqProperties
  <2>8. r[1] = a /\ r[2] = z /\ t = SubSeq(s, r[1], r[2]) OBVIOUS
  <2> HIDE DEF r, t
  <2>9. /\ Tokens(s, d, Append(old, t), z + 1)
        /\ Tokens(s, d, Append(old, t), z + 2)
    BY <1>1, <1>2, <2>6, <2>7, <2>8, TokenAdded
  <2>10. z + 1 = n + 1 \/ z + 2 = n + 1 BY <2>1
  <2>11. Tokens(s, d, found, n + 1) BY <2>5, <2>9, <2>10
  <2>12. QED BY <1>5, <1>6, <2>4, <2>11 DEF Tokens
<1>9. CASE s[n] \in d /\ b = 0
  <2>1. b = 0 /\ a = n BY <1>1, <1>9
  <2>2. EndsEmpty(s, d)
    <3>1. n = 1 \/ a > 1 BY <1>1, <2>1
    <3>2. QED BY <1>2, <1>4, <1>9, <2>1, <3>1
  <2>3. found = Append(old, <<>>)
    <3>1. n + 1 + b - 1 = n /\ n + 1 \in Int /\ n \in Int /\ n < n + 1 BY <2>1
    <3>2. SubSeq(s, n + 1, n) = <<>> BY <3>1, SubSeqEmpty
    <3>3. QED BY <1>7, <1>9, <3>1, <3>2
  <2>4. <<>> \in Seq(Cells(s)) BY EmptySeq
  <2>5. /\ Len(found) = Len(old) + 1 /\ Len(old) \in Nat
        /\ \A i \in 1 .. Len(old) : found[i] = old[i]
        /\ found[Len(old) + 1] = <<>>
    BY <1>1, <2>3, <2>4, AppendFacts
  <2>6. runs = Before(s, d, n) BY <1>5, <1>9, NoRunEnds
  <2>7. Tokens(s, d, old, n) BY <1>2, <2>1
  <2>8. \A r \in runs : Place(s, d, r) \in 1 .. Len(old)
    BY <2>6, <2>7, EarlierPlace DEF Tokens
  <2>9. Len(old) = Cardinality(runs) BY <2>6, <2>7 DEF Tokens
  <2>10. \A r \in runs : found[Place(s, d, r)] = SubSeq(s, r[1], r[2])
    BY <2>5, <2>6, <2>7, <2>8 DEF Tokens
  <2>11. QED BY <2>2, <2>5, <2>9, <2>10
<1>10. QED BY <1>1, <1>8, <1>9

\* Split finds every run of other characters, in order and once.
THEOREM SplitIsSplit ==
  ASSUME NEW C, NEW s \in Seq(C), NEW d
  PROVE  IsSplit(Split(s, d), s, d)
<1> DEFINE n == Len(s)
<1>1. n \in Nat /\ DOMAIN s = 1 .. n BY LenProperties
<1>2. /\ Scan(s, d)[0] = [tokens |-> <<>>, start |-> 1, length |-> 0]
      /\ \A i \in 1 .. n : Scan(s, d)[i] = SplitStep(s, d, Scan(s, d)[i - 1], i)
  BY ScanTurns
<1>3. CASE n = 0
  <2>1. s = <<>> /\ Split(s, d) = <<>> /\ Len(<<>>) = 0
    BY <1>2, <1>3, EmptySeq DEF Split
  <2>2. Runs(s, d) = {} BY <1>1, <1>3, RunFacts
  <2>3. ~EndsEmpty(s, d) BY <2>1 DEF EndsEmpty
  <2>4. Cardinality(Runs(s, d)) = 0 BY <2>2, FS_EmptySet
  <2>5. Len(Split(s, d)) = 0 BY <2>1
  <2>6. QED BY <2>2, <2>3, <2>4, <2>5 DEF IsSplit
<1>4. CASE n # 0
  <2>1. n - 1 \in Nat /\ n - 1 < n /\ n \in 1 .. n BY <1>1, <1>4
  <2> DEFINE st == Scan(s, d)[n - 1]
  <2>2. st \in States(s) /\ Within(s, d, n - 1, st) BY <2>1, ScanWithin
  <2>3. Split(s, d) = SplitStep(s, d, st, n).tokens BY <1>2, <2>1 DEF Split
  <2>4. n = Len(s) OBVIOUS
  <2> HIDE DEF st, n
  <2>5. QED BY <1>1, <1>4, <2>2, <2>3, <2>4, LastTurn
<1>5. QED BY <1>3, <1>4

-----------------------------------------------------------------------------
(***************************************************************************)
(* The least and the greatest of some numbers, and what trimming keeps.    *)
(***************************************************************************)
LEMMA SmallestIs ==
  ASSUME NEW S \in SUBSET Int, NEW m \in S, \A k \in S : m <= k
  PROVE  Smallest(S) = m
<1>1. \A a \in S : (\A k \in S : a <= k) => a = m OBVIOUS
<1>2. QED BY <1>1 DEF Smallest

LEMMA SmallestFacts ==
  ASSUME NEW S \in SUBSET Nat, S # {}
  PROVE  Smallest(S) \in S /\ \A k \in S : Smallest(S) <= k
<1>1. PICK m \in S : \A k \in S : m <= k BY LeastNumber
<1>2. Smallest(S) = m BY <1>1, SmallestIs
<1>3. QED BY <1>1, <1>2

LEMMA GreatestNumber ==
  ASSUME NEW n \in Nat, NEW S \in SUBSET (1 .. n), S # {}
  PROVE  \E m \in S : \A k \in S : k <= m
<1> DEFINE B == {n - k : k \in S}
<1>1. B \in SUBSET Nat /\ B # {}
  <2>1. \A k \in S : n - k \in Nat OBVIOUS
  <2>2. QED BY <2>1
<1>2. PICK b \in B : \A c \in B : b <= c BY <1>1, LeastNumber
<1>3. PICK m \in S : b = n - m OBVIOUS
<1>4. \A k \in S : n - m <= n - k BY <1>2, <1>3
<1>5. QED BY <1>4

\* The characters that stay are those from the first to the last outside.
LEMMA TrimIs ==
  ASSUME NEW s, NEW charset, Len(s) \in Nat, DOMAIN s = 1 .. Len(s),
         NEW a \in 1 .. Len(s), NEW b \in 1 .. Len(s),
         s[a] \notin charset, s[b] \notin charset,
         \A i \in 1 .. Len(s) : s[i] \notin charset => a <= i /\ i <= b
  PROVE  Trim(s, charset) = SubSeq(s, a, b)
<1> DEFINE kept == {i \in DOMAIN s : s[i] \notin charset}
           last == CHOOSE i \in kept : \A j \in kept : j <= i
<1>1. a \in kept /\ b \in kept /\ kept \in SUBSET Int OBVIOUS
<1>2. \A i \in kept : a <= i /\ i <= b OBVIOUS
<1>3. Trim(s, charset) = IF kept = {} THEN <<>> ELSE SubSeq(s, Smallest(kept), last)
  BY DEF Trim
<1> HIDE DEF kept
<1>4. Smallest(kept) = a BY <1>1, <1>2, SmallestIs
<1>5. last = b
  <2>1. \A i \in kept : (\A j \in kept : j <= i) => i = b BY <1>1, <1>2
  <2>2. QED BY <1>1, <1>2, <2>1
<1> HIDE DEF last
<1>6. QED BY <1>1, <1>3, <1>4, <1>5

LEMMA TrimCases ==
  ASSUME NEW s, NEW charset, Len(s) \in Nat, DOMAIN s = 1 .. Len(s)
  PROVE  \/ Trim(s, charset) = <<>>
         \/ \E a, b \in 1 .. Len(s) : a <= b /\ Trim(s, charset) = SubSeq(s, a, b)
<1> DEFINE kept == {i \in 1 .. Len(s) : s[i] \notin charset}
<1>1. CASE kept = {} BY <1>1 DEF Trim
<1>2. CASE kept # {}
  <2>0. kept \in SUBSET Nat /\ kept \in SUBSET (1 .. Len(s)) OBVIOUS
  <2>1. PICK a \in kept : \A k \in kept : a <= k
    <3> HIDE DEF kept
    <3>1. QED BY <1>2, <2>0, LeastNumber
  <2>2. PICK b \in kept : \A k \in kept : k <= b
    <3> HIDE DEF kept
    <3>1. QED BY <1>2, <2>0, GreatestNumber
  <2>3. a <= b BY <2>1, <2>2
  <2>4. \A i \in 1 .. Len(s) : s[i] \notin charset => a <= i /\ i <= b BY <2>1, <2>2
  <2>5. a \in 1 .. Len(s) /\ b \in 1 .. Len(s) /\ s[a] \notin charset /\ s[b] \notin charset
    OBVIOUS
  <2>6. Trim(s, charset) = SubSeq(s, a, b) BY <2>4, <2>5, TrimIs
  <2>7. QED BY <2>3, <2>5, <2>6
<1>3. QED BY <1>1, <1>2

LEMMA PartType ==
  ASSUME NEW C, NEW s \in Seq(C), NEW a \in Int, NEW b \in Int, 1 <= a, b <= Len(s)
  PROVE  SubSeq(s, a, b) \in Seq(C)
<1>1. \A i \in a .. b : s[i] \in C BY LenProperties, ElementOfSeq
<1>2. QED BY <1>1, SubSeqProperties

LEMMA TrimType ==
  ASSUME NEW C, NEW s \in Seq(C), NEW charset
  PROVE  Trim(s, charset) \in Seq(C)
<1>1. Len(s) \in Nat /\ DOMAIN s = 1 .. Len(s) BY LenProperties
<1>2. CASE Trim(s, charset) = <<>> BY <1>2, EmptySeq
<1>3. ASSUME NEW a \in 1 .. Len(s), NEW b \in 1 .. Len(s), Trim(s, charset) = SubSeq(s, a, b)
      PROVE  Trim(s, charset) \in Seq(C)
  <2>1. a \in Int /\ b \in Int /\ 1 <= a /\ b <= Len(s) BY <1>1
  <2>2. QED BY <1>3, <2>1, PartType
<1>4. QED BY <1>1, <1>2, <1>3, TrimCases

(***************************************************************************)
(* The values of a record, item by item.                                   *)
(***************************************************************************)
Values == [vlan : Nat, ip : {"none", "ip"}, state : {"none", "fin"}]

LEMMA AddItemType ==
  ASSUME NEW before \in Values, NEW item
  PROVE  AddItem(before, item) \in Values
<1>1. ASSUME NEW s PROVE Number(s) \in Nat BY DEF Number
<1>2. ASSUME NEW s, NEW v \in {"none", "ip"} PROVE Address(s, v) \in {"none", "ip"}
  BY DEF Address
<1>3. ASSUME NEW s, NEW v \in {"none", "fin"} PROVE Flags(s, v) \in {"none", "fin"}
  BY DEF Flags
<1>4. ASSUME NEW name, NEW value PROVE SetItem(before, name, value) \in Values
  <2>1. /\ Number(value) \in Nat /\ Address(value, before.ip) \in {"none", "ip"}
        /\ Flags(value, before.state) \in {"none", "fin"}
    BY <1>1, <1>2, <1>3 DEF Values
  <2>2. SetItem(before, name, value) \in
          {[before EXCEPT !.vlan = Number(value)], [before EXCEPT !.ip = Address(value, @)],
           [before EXCEPT !.state = Flags(value, @)], before}
    BY DEF SetItem
  <2>3. QED BY <2>1, <2>2 DEF Values
<1>5. AddItem(before, item) = before
      \/ \E name, value : AddItem(before, item) = SetItem(before, name, value)
  BY DEF AddItem
<1>6. QED BY <1>4, <1>5

\* The loop over the items is well defined.
LEMMA DataTurns ==
  ASSUME NEW items, Len(items) \in Nat, NEW lost
  PROVE  /\ DataUpTo(items, lost)[0] = Zero
         /\ \A i \in 1 .. Len(items) :
              DataUpTo(items, lost)[i] =
                IF i \in lost THEN DataUpTo(items, lost)[i - 1]
                ELSE AddItem(DataUpTo(items, lost)[i - 1], items[i])
         /\ \A i \in 0 .. Len(items) : DataUpTo(items, lost)[i] \in Values
<1> DEFINE n == Len(items)
           After(v, i) == IF i \in lost THEN v ELSE AddItem(v, items[i])
           step == [x \in Values \X (1 .. n) |-> After(x[1], x[2])]
           Turn(f, i) ==
             IF i \in lost THEN f[i - 1]
             ELSE CHOOSE after \in {AddItem(before, items[i]) : before \in {f[i - 1]}} : TRUE
           P(f) == f = [i \in 0 .. n |-> IF i = 0 THEN Zero ELSE Turn(f, i)]
           h == DataUpTo(items, lost)
<1>1. n \in Nat OBVIOUS
<1>2. Zero \in Values BY DEF Zero, Values
<1>3. step \in Turns(Values, n)
  <2> SUFFICES ASSUME NEW x \in Values \X (1 .. n) PROVE After(x[1], x[2]) \in Values
    BY DEF Turns
  <2>1. x[1] \in Values OBVIOUS
  <2>2. QED BY <2>1, AddItemType
<1>4. PICK f \in [0 .. n -> Values] : Follows(f, Zero, step, n)
  <2> HIDE DEF step, n
  <2>1. QED BY <1>1, <1>2, <1>3, Recursion
<1>5. ASSUME NEW g, NEW i PROVE Turn(g, i) = After(g[i - 1], i)
  <2> DEFINE y == AddItem(g[i - 1], items[i])
  <2>1. {AddItem(before, items[i]) : before \in {g[i - 1]}} = {y} OBVIOUS
  <2> HIDE DEF y
  <2>2. (CHOOSE after \in {y} : TRUE) = y OBVIOUS
  <2>3. QED BY <2>1, <2>2 DEF y
<1>6. \A i \in 1 .. n : f[i] = After(f[i - 1], i)
  <2> TAKE i \in 1 .. n
  <2>1. <<f[i - 1], i>> \in Values \X (1 .. n)
    <3>1. i - 1 \in 0 .. n BY <1>1
    <3>2. QED BY <1>4, <3>1
  <2>2. QED BY <1>4, <2>1 DEF Follows
<1>7. P(f)
  <2> HIDE DEF Turn, After
  <2>1. \A i \in 0 .. n : f[i] = IF i = 0 THEN Zero ELSE Turn(f, i)
    BY <1>1, <1>4, <1>5, <1>6 DEF Follows
  <2>2. QED BY <1>4, <2>1
<1>8. h = CHOOSE g : P(g) BY DEF DataUpTo
<1>9. P(h)
  <2> HIDE DEF P, h
  <2>1. P(CHOOSE g : P(g)) BY <1>7
  <2>2. QED BY <1>8, <2>1
<1> HIDE DEF h, Turn, After
<1>10. h[0] = Zero /\ \A i \in 1 .. n : h[i] = After(h[i - 1], i)
  <2>1. \A i \in 0 .. n : h[i] = IF i = 0 THEN Zero ELSE Turn(h, i) BY <1>9
  <2>2. QED BY <1>1, <1>5, <2>1
<1>11. \A i \in Nat : i <= n => h[i] \in Values
  <2> DEFINE G == {i \in Nat : i <= n => h[i] \in Values}
  <2>1. 0 \in G BY <1>2, <1>10
  <2>2. ASSUME NEW i \in Nat, i \in G PROVE i + 1 \in G
    <3> SUFFICES ASSUME i + 1 <= n PROVE h[i + 1] \in Values OBVIOUS
    <3>1. h[i] \in Values /\ i + 1 \in 1 .. n /\ (i + 1) - 1 = i BY <1>1, <2>2
    <3>2. h[i + 1] = After(h[i], i + 1) BY <1>10, <3>1
    <3>3. QED BY <3>1, <3>2, AddItemType DEF After
  <2> HIDE DEF G
  <2>3. \A i \in Nat : i \in G BY <2>1, <2>2, Induction
  <2>4. QED BY <2>3 DEF G
<1>12. QED BY <1>10, <1>11 DEF h, After

-----------------------------------------------------------------------------
(***************************************************************************)
(* Quotients and products; the size of a block is not a number.            *)
(***************************************************************************)
LEMMA Quotient ==
  ASSUME NEW a \in Int, NEW b \in Nat \ {0}
  PROVE  /\ a \div b \in Int /\ a % b \in Int
         /\ a = (a \div b) * b + (a % b) /\ 0 <= a % b /\ a % b < b
BY SMT

LEMMA Product == ASSUME NEW a \in Int, NEW b \in Int PROVE a * b \in Int
BY SMT

LEMMA Monotone ==
  ASSUME NEW a \in Int, NEW c \in Int, NEW b \in Nat, a <= c
  PROVE  a * b <= c * b
BY SMT

LEMMA Steps ==
  ASSUME NEW q \in Int, NEW b \in Int
  PROVE  /\ q * (b - 1) = q * b - q
         /\ (q + 1) * b = q * b + b /\ (q - 1) * b = q * b - b
         /\ 0 * b = 0 /\ 1 * b = b
BY SMT

\* What lies within the n-th multiple of b has n for its quotient.
LEMMA QuotientIs ==
  ASSUME NEW a \in Int, NEW b \in Nat \ {0}, NEW n \in Int,
         n * b <= a, a < n * b + b
  PROVE  a \div b = n
<1> DEFINE q == a \div b
           r == a % b
<1>1. q \in Int /\ r \in Int /\ a = q * b + r /\ 0 <= r /\ r < b BY Quotient
<1> HIDE DEF q, r
<1>2. b \in Nat /\ b > 0 /\ n * b \in Int /\ q * b \in Int BY <1>1, Product
<1>3. CASE q < n
  <2>1. (q + 1) * b <= n * b BY <1>1, <1>2, <1>3, Monotone
  <2>2. (q + 1) * b = q * b + b BY <1>1, <1>2, Steps
  <2>3. QED BY <1>1, <1>2, <2>1, <2>2
<1>4. CASE n < q
  <2>1. (n + 1) * b <= q * b BY <1>1, <1>2, <1>4, Monotone
  <2>2. (n + 1) * b = n * b + b BY <1>1, <1>2, Steps
  <2>3. QED BY <1>1, <1>2, <2>1, <2>2
<1>5. q = n BY <1>1, <1>3, <1>4
<1>6. QED BY <1>5 DEF q

\* What is at least n times b has at least n for its quotient.
LEMMA QuotientAtLeast ==
  ASSUME NEW a \in Int, NEW b \in Nat \ {0}, NEW n \in Int, n * b <= a
  PROVE  n <= a \div b
<1> DEFINE q == a \div b
           r == a % b
<1>1. q \in Int /\ r \in Int /\ a = q * b + r /\ 0 <= r /\ r < b BY Quotient
<1> HIDE DEF q, r
<1>2. b \in Nat /\ n * b \in Int /\ q * b \in Int BY <1>1, Product
<1>3. SUFFICES ASSUME q < n PROVE FALSE BY <1>1 DEF q
<1>4. (q + 1) * b <= n * b BY <1>1, <1>2, <1>3, Monotone
<1>5. (q + 1) * b = q * b + b BY <1>1, <1>2, Steps
<1>6. QED BY <1>1, <1>2, <1>4, <1>5

LEMMA SmallestOfTwo ==
  ASSUME NEW a \in Int, NEW b \in Int
  PROVE  Smallest({a, b}) = IF a <= b THEN a ELSE b
BY DEF Smallest

(***************************************************************************)
(* The invariant of the loop.  After n blocks the buffer holds n times     *)
(* their size and the next block goes to the n-th seam.                    *)
(***************************************************************************)
ReadType ==
  /\ file \in Seq(Byte) /\ broken \in BOOLEAN /\ block \in Nat \ {0}
  /\ buffer \in Seq(Byte)
  /\ pos \in 0 .. Len(file)
  /\ broken => file = <<>>

Grown(n) ==
  /\ Len(buffer) = n * block
  /\ index = n * (block - 1)
  /\ phase = "open" => n = 0
  /\ phase \in {"open", "read"} /\ ~broken => pos = n * block
  /\ ~broken => (n - 1) * block <= Len(file)
  /\ phase = "split" => pos = Len(file) /\ Len(file) < n * block

Laid ==
  \A p \in 1 .. pos :
    p % block # 0 \/ p = pos => buffer[Cell(p)] = file[p]

IInv == ReadType /\ Laid /\ \E n \in Nat : Grown(n)

(***************************************************************************)
(* What is read, and the buffer it is laid in.                             *)
(***************************************************************************)
LEMMA FunctionIsSeq ==
  ASSUME NEW S, NEW n \in Nat, NEW f \in [1 .. n -> S]
  PROVE  f \in Seq(S) /\ Len(f) = n
BY SMT

LEMMA FreshType ==
  ASSUME block \in Nat \ {0}, NEW k
  PROVE  Fresh(k) \in Seq(Byte) /\ Len(Fresh(k)) = block
<1>1. "?" \in Byte /\ Nul \in Byte BY DEF Byte
<1>2. Fresh(k) \in [1 .. block -> Byte] BY <1>1 DEF Fresh
<1>3. block \in Nat OBVIOUS
<1>4. QED BY <1>2, <1>3, FunctionIsSeq

LEMMA ChunkFacts ==
  ASSUME ReadType
  PROVE  /\ Chunk \in Seq(Byte) /\ Len(Chunk) \in 0 .. block
         /\ pos + Len(Chunk) <= Len(file)
         /\ DOMAIN Chunk = 1 .. Len(Chunk)
         /\ \A i \in 1 .. Len(Chunk) : Chunk[i] = file[pos + i]
         /\ ~broken => Len(Chunk) = IF pos + block <= Len(file) THEN block
                                    ELSE Len(file) - pos
<1>1. /\ file \in Seq(Byte) /\ block \in Nat /\ pos \in Nat
      /\ Len(file) \in Nat /\ pos <= Len(file)
  BY LenProperties DEF ReadType
<1>2. CASE broken
  <2>1. Chunk = <<>> BY <1>2 DEF Chunk
  <2>2. QED BY <1>1, <1>2, <2>1
<1>3. CASE ~broken
  <2> DEFINE last == IF pos + block <= Len(file) THEN pos + block ELSE Len(file)
  <2>1. Chunk = SubSeq(file, pos + 1, last)
    BY <1>1, <1>3, SmallestOfTwo DEF Chunk
  <2>2. /\ last \in Int /\ last <= Len(file) /\ pos <= last /\ last <= pos + block
        /\ pos + 1 \in Int
    BY <1>1
  <2>3. last - pos = IF pos + block <= Len(file) THEN block ELSE Len(file) - pos
    BY <1>1
  <2> HIDE DEF last
  <2>4. \A i \in pos + 1 .. last : file[i] \in Byte
    <3>1. \A i \in 1 .. Len(file) : file[i] \in Byte BY <1>1, ElementOfSeq
    <3>2. QED BY <1>1, <2>2, <3>1
  <2>5. /\ Chunk \in Seq(Byte)
        /\ Len(Chunk) = IF pos + 1 <= last THEN last - (pos + 1) + 1 ELSE 0
        /\ \A i \in 1 .. last - (pos + 1) + 1 : Chunk[i] = file[pos + 1 + i - 1]
    BY <2>1, <2>2, <2>4, SubSeqProperties
  <2>6. Len(Chunk) = last - pos BY <1>1, <2>2, <2>5
  <2>7. DOMAIN Chunk = 1 .. Len(Chunk) BY <2>5, LenProperties
  <2>8. \A i \in 1 .. Len(Chunk) : Chunk[i] = file[pos + i]
    <3> TAKE i \in 1 .. Len(Chunk)
    <3>1. i \in 1 .. last - (pos + 1) + 1 /\ pos + 1 + i - 1 = pos + i
      BY <1>1, <2>2, <2>6
    <3>2. QED BY <2>5, <3>1
  <2>9. QED BY <1>1, <1>3, <2>2, <2>3, <2>5, <2>6, <2>7, <2>8
<1>4. broken \in BOOLEAN BY DEF ReadType
<1>5. QED BY <1>2, <1>3

\* What a block leaves in the buffer: itself from the offset on, and what was
\* there before it.
LEMMA ReadFacts ==
  ASSUME ReadType, NEW o \in Nat, Read(o), o + Len(Chunk) <= Len(buffer) + block
  PROVE  /\ buffer' \in Seq(Byte) /\ Len(buffer') = Len(buffer) + block
         /\ \A i \in 1 .. Len(buffer) : i <= o => buffer'[i] = buffer[i]
         /\ \A i \in 1 .. Len(buffer) : Len(Chunk) = 0 => buffer'[i] = buffer[i]
         /\ \A i \in 1 .. Len(Chunk) : buffer'[o + i] = file[pos + i]
<1>1. PICK k \in Junk : buffer' = Overlay(buffer \o Fresh(k), o, Chunk) BY DEF Read
<1> DEFINE b == buffer \o Fresh(k)
<1>2. /\ buffer \in Seq(Byte) /\ block \in Nat \ {0} /\ Len(buffer) \in Nat
  BY LenProperties DEF ReadType
<1>3. Fresh(k) \in Seq(Byte) /\ Len(Fresh(k)) = block BY <1>2, FreshType
<1>4. /\ b \in Seq(Byte) /\ Len(b) = Len(buffer) + block
      /\ \A i \in 1 .. Len(buffer) : b[i] = buffer[i]
  <2>1. /\ b \in Seq(Byte) /\ Len(b) = Len(buffer) + Len(Fresh(k))
        /\ \A i \in 1 .. Len(buffer) + Len(Fresh(k)) :
             b[i] = IF i <= Len(buffer) THEN buffer[i] ELSE Fresh(k)[i - Len(buffer)]
    BY <1>2, <1>3, ConcatProperties
  <2> HIDE DEF b
  <2>2. \A i \in 1 .. Len(buffer) : i \in 1 .. Len(buffer) + Len(Fresh(k)) /\ i <= Len(buffer)
    BY <1>2, <1>3
  <2>3. QED BY <1>3, <2>1, <2>2
<1>5. /\ Len(b) \in Nat /\ DOMAIN b = 1 .. Len(b)
      /\ \A i \in 1 .. Len(b) : b[i] \in Byte
  BY <1>4, LenProperties, ElementOfSeq
<1>6. buffer' = Overlay(b, o, Chunk) BY <1>1
<1> HIDE DEF b
<1>7. /\ Chunk \in Seq(Byte) /\ DOMAIN Chunk = 1 .. Len(Chunk) /\ Len(Chunk) \in Nat
      /\ \A i \in 1 .. Len(Chunk) : Chunk[i] = file[pos + i] /\ Chunk[i] \in Byte
  BY ChunkFacts, ElementOfSeq, LenProperties
<1>8. \A i \in 1 .. Len(b) : i - o \in DOMAIN Chunk => Chunk[i - o] \in Byte
  BY <1>7
<1>9. buffer' = [i \in 1 .. Len(b) |-> IF i - o \in DOMAIN Chunk THEN Chunk[i - o] ELSE b[i]]
  BY <1>5, <1>6 DEF Overlay
<1>10. buffer' \in [1 .. Len(b) -> Byte] BY <1>5, <1>8, <1>9
<1>11. buffer' \in Seq(Byte) /\ Len(buffer') = Len(b) BY <1>5, <1>10, FunctionIsSeq
<1>12. \A i \in 1 .. Len(buffer) : i <= o \/ Len(Chunk) = 0 => buffer'[i] = buffer[i]
  <2> TAKE i \in 1 .. Len(buffer)
  <2> HAVE i <= o \/ Len(Chunk) = 0
  <2>1. i \in 1 .. Len(b) /\ i - o \notin DOMAIN Chunk BY <1>2, <1>4, <1>7
  <2>2. QED BY <1>4, <1>9, <2>1
<1>13. \A i \in 1 .. Len(Chunk) : buffer'[o + i] = file[pos + i]
  <2> TAKE i \in 1 .. Len(Chunk)
  <2>1. o + i \in 1 .. Len(b) /\ (o + i) - o = i BY <1>2, <1>4, <1>7
  <2>2. QED BY <1>7, <1>9, <2>1
<1>14. QED BY <1>4, <1>11, <1>12, <1>13

-----------------------------------------------------------------------------
LEMMA InitInv == Init => IInv
<1> SUFFICES ASSUME Init PROVE IInv OBVIOUS
<1>1. /\ phase = "open" /\ broken \in BOOLEAN /\ block \in BlockSizes
      /\ file \in IF broken THEN {<<>>} ELSE Files
      /\ pos = 0 /\ buffer = <<>> /\ index = 0
  BY DEF Init
<1>2. block \in Nat \ {0} BY <1>1, FileImportAssumption
<1>3. file \in Seq(Byte)
  <2>1. CASE broken BY <1>1, <2>1, EmptySeq
  <2>2. CASE ~broken
    <3>1. file \in Seq(STRING) BY <1>1, <2>2, FileImportAssumption
    <3>2. STRING \subseteq Byte BY DEF Byte
    <3>3. QED BY <3>1, <3>2, SeqMonotonic
  <2>3. QED BY <1>1, <2>1, <2>2
<1>4. /\ Len(file) \in Nat /\ buffer \in Seq(Byte) /\ Len(buffer) = 0
      /\ broken => file = <<>>
  BY <1>1, <1>3, LenProperties, EmptySeq
<1>5. ReadType BY <1>1, <1>2, <1>3, <1>4 DEF ReadType
<1>6. Laid BY <1>1 DEF Laid
<1>7. Grown(0)
  <2>1. block \in Int /\ 0 * block = 0 /\ 0 * (block - 1) = 0 /\ (0 - 1) * block = 0 - block
    BY <1>2, Steps
  <2>2. (0 - 1) * block <= Len(file) BY <1>2, <1>4, <2>1
  <2>3. QED BY <1>1, <1>4, <2>1, <2>2 DEF Grown
<1>8. QED BY <1>5, <1>6, <1>7 DEF IInv

\* A step that reads nothing and does not go back to reading.
LEMMA SameBuffer ==
  ASSUME IInv, UNCHANGED readVars,
         \/ phase = "open" /\ phase' \in {"read", "export"}
         \/ phase' = phase
         \/ phase' \notin {"open", "read", "split"}
  PROVE  IInv'
<1>1. UNCHANGED <<file, broken, block, pos, buffer, index>> BY DEF readVars
<1>2. ReadType' BY <1>1 DEF IInv, ReadType
<1>3. Laid' BY <1>1 DEF IInv, Laid, Cell
<1>4. PICK n \in Nat : Grown(n) BY DEF IInv
<1>5. Grown(n)' BY <1>1, <1>4 DEF Grown
<1>6. QED BY <1>2, <1>3, <1>5 DEF IInv

LEMMA ReadBlockInv ==
  ASSUME IInv, ReadBlock
  PROVE  IInv'
<1>1. /\ phase = "read" /\ Read(index) /\ pos' = pos + Len(Chunk)
      /\ index' = index + (block - 1)
      /\ phase' = IF ~broken /\ Len(Chunk) < block THEN "split" ELSE "read"
      /\ UNCHANGED <<file, broken, block>>
  BY DEF ReadBlock, Read
<1>2. ReadType /\ Laid BY DEF IInv
<1>3. PICK n \in Nat : Grown(n) BY DEF IInv
<1> DEFINE k == Len(Chunk)
           N == n * block
<1>4. /\ k \in Nat /\ k <= block /\ pos + k <= Len(file)
      /\ ~broken => k = IF pos + block <= Len(file) THEN block ELSE Len(file) - pos
  BY <1>2, ChunkFacts
<1>5. /\ block \in Nat \ {0} /\ block \in Int /\ pos \in Nat /\ pos <= Len(file)
      /\ Len(file) \in Nat /\ broken \in BOOLEAN /\ n \in Nat
      /\ broken => file = <<>> /\ Len(file) = 0
  BY <1>2, <1>3, LenProperties, EmptySeq DEF ReadType
<1>6. /\ Len(buffer) = N /\ index = n * (block - 1)
      /\ ~broken => pos = N
      /\ ~broken => (n - 1) * block <= Len(file)
  BY <1>1, <1>3 DEF Grown
<1>7. N \in Int /\ n * (block - 1) = N - n /\ (n + 1) * block = N + block
  BY <1>5, Product, Steps
<1>8. 0 <= N - n
  <2>1. 0 * (block - 1) <= n * (block - 1) BY <1>5, Monotone
  <2>2. 0 * (block - 1) = 0 BY <1>5, Steps
  <2>3. QED BY <1>7, <2>1, <2>2
<1> HIDE DEF k, N
<1>9. index = N - n /\ index \in Nat BY <1>5, <1>6, <1>7, <1>8
<1>10. /\ buffer' \in Seq(Byte) /\ Len(buffer') = N + block
       /\ \A i \in 1 .. N : i <= N - n => buffer'[i] = buffer[i]
       /\ \A i \in 1 .. N : k = 0 => buffer'[i] = buffer[i]
       /\ \A i \in 1 .. k : buffer'[(N - n) + i] = file[pos + i]
  <2>1. index + Len(Chunk) <= Len(buffer) + block
    BY <1>4, <1>5, <1>6, <1>7, <1>9 DEF k
  <2>2. QED BY <1>1, <1>2, <1>6, <1>9, <2>1, ReadFacts DEF k
<1>11. ReadType' BY <1>1, <1>2, <1>4, <1>5, <1>10 DEF ReadType, k
<1>12. Grown(n + 1)'
  <2>1. index' = (n + 1) * (block - 1)
    <3>1. (n + 1) * (block - 1) = (n + 1) * block - (n + 1) BY <1>5, Steps
    <3>2. QED BY <1>1, <1>5, <1>7, <1>9, <3>1
  <2>2. ~broken => N <= Len(file) BY <1>5, <1>6
  <2>3. ~broken /\ k = block => pos + k = N + block BY <1>6
  <2>4. ~broken /\ k < block => pos + k = Len(file) /\ Len(file) < N + block
    BY <1>4, <1>5, <1>6, <1>7
  <2>5. (n + 1) - 1 = n BY <1>5
  <2>6. phase' # "open" BY <1>1
  <2>7. /\ phase' = "read" /\ ~broken => pos' = N + block
        /\ phase' = "split" => pos' = Len(file) /\ Len(file) < N + block
    BY <1>1, <1>4, <1>5, <2>3, <2>4 DEF k
  <2>8. QED BY <1>1, <1>7, <1>10, <2>1, <2>2, <2>5, <2>6, <2>7 DEF Grown, N
<1>13. Laid'
  <2> SUFFICES ASSUME NEW p \in 1 .. pos', p % block # 0 \/ p = pos'
      PROVE  buffer'[Cell(p)] = file[p]
    BY <1>1 DEF Laid, Cell
  <2>1. p \in Int /\ 1 <= p /\ p <= pos + k BY <1>1, <1>4, <1>5 DEF k
  <2>2. ~broken /\ pos = N BY <1>4, <1>5, <1>6, <2>1
  <2>3. CASE p > N
    <3>1. N <= p - 1 /\ p - 1 < N + block /\ p - 1 \in Int
      BY <1>4, <1>5, <1>7, <2>1, <2>2, <2>3
    <3>2. (p - 1) \div block = n BY <1>5, <3>1, QuotientIs DEF N
    <3>3. Cell(p) = p - n BY <3>2 DEF Cell
    <3>4. p - N \in 1 .. k /\ (N - n) + (p - N) = p - n /\ pos + (p - N) = p
      BY <1>4, <1>5, <1>7, <2>1, <2>2, <2>3
    <3>5. buffer'[(N - n) + (p - N)] = file[pos + (p - N)] BY <1>10, <3>4
    <3>6. QED BY <3>3, <3>4, <3>5
  <2>4. CASE ~(p > N)
    <3> DEFINE q == (p - 1) \div block
               r == (p - 1) % block
    <3>1. p - 1 \in Int BY <2>1
    <3>2. /\ q \in Int /\ r \in Int /\ p - 1 = q * block + r /\ 0 <= r /\ r < block
      BY <1>5, <3>1, Quotient
    <3>3. Cell(p) = p - q BY DEF Cell
    <3> HIDE DEF q, r
    <3>4. q * block \in Int /\ q * (block - 1) = q * block - q
          /\ (q + 1) * block = q * block + block
          /\ (q + 1) * (block - 1) = (q + 1) * block - (q + 1)
      BY <1>5, <3>2, Product, Steps
    <3>5. q + 1 <= n
      <4>1. SUFFICES ASSUME n <= q PROVE FALSE BY <1>5, <3>2
      <4>2. n * block <= q * block BY <1>5, <3>2, <4>1, Monotone
      <4>3. QED BY <1>7, <2>1, <2>4, <3>2, <3>4, <4>2 DEF N
    <3>6. 0 <= q
      <4>1. SUFFICES ASSUME q <= -1 PROVE FALSE BY <3>2
      <4>2. (q + 1) * block <= 0 * block BY <1>5, <3>2, <4>1, Monotone
      <4>3. 0 * block = 0 BY <1>5, Steps
      <4>4. QED BY <1>5, <2>1, <3>2, <3>4, <4>2, <4>3
    <3>7. Cell(p) \in 1 .. N
      <4>1. 0 * (block - 1) <= q * (block - 1) BY <1>5, <3>2, <3>6, Monotone
      <4>2. 0 * (block - 1) = 0 BY <1>5, Steps
      <4>3. p - q = q * (block - 1) + r + 1 BY <3>2, <3>4
      <4>4. QED BY <1>5, <1>7, <2>1, <2>4, <3>2, <3>3, <3>4, <3>6, <4>1, <4>2, <4>3
    <3>8. CASE p % block # 0
      <4>1. r + 1 # block
        <5>1. SUFFICES ASSUME r + 1 = block PROVE FALSE OBVIOUS
        <5>2. p = (q + 1) * block BY <2>1, <3>2, <3>4, <5>1
        <5>3. p \div block = q + 1
          <6>1. (q + 1) * block <= p /\ p < (q + 1) * block + block BY <1>5, <2>1, <5>2
          <6>2. q + 1 \in Int BY <3>2
          <6>3. QED BY <1>5, <2>1, <6>1, <6>2, QuotientIs
        <5>4. p = (p \div block) * block + (p % block) /\ p % block \in Int
          BY <1>5, <2>1, Quotient
        <5>5. p = (q + 1) * block + (p % block) BY <5>3, <5>4
        <5>6. QED BY <2>1, <3>8, <5>2, <5>4, <5>5
      <4>2. (q + 1) * (block - 1) <= n * (block - 1) BY <1>5, <3>2, <3>5, Monotone
      <4>3. Cell(p) <= N - n
        BY <1>5, <1>7, <2>1, <3>2, <3>3, <3>4, <4>1, <4>2
      <4>4. p \in 1 .. pos BY <1>5, <2>1, <2>2, <2>4
      <4>5. buffer[Cell(p)] = file[p] BY <1>2, <3>8, <4>4 DEF Laid
      <4>6. QED BY <1>10, <3>7, <4>3, <4>5
    <3>9. CASE p = pos'
      <4>1. k = 0 /\ p = pos BY <1>1, <1>4, <1>5, <2>1, <2>2, <2>4, <3>9 DEF k
      <4>2. p \in 1 .. pos BY <1>5, <2>1, <4>1
      <4>3. buffer[Cell(p)] = file[p] BY <1>2, <4>1, <4>2 DEF Laid
      <4>4. QED BY <1>10, <3>7, <4>1, <4>3
    <3>10. QED BY <3>8, <3>9
  <2>5. QED BY <2>3, <2>4
<1>14. n + 1 \in Nat BY <1>5
<1>15. QED BY <1>11, <1>12, <1>13, <1>14 DEF IInv

LEMMA StepInv == IInv /\ [Next]_vars => IInv'
<1> SUFFICES ASSUME IInv, [Next]_vars PROVE IInv'
  OBVIOUS
<1>1. CASE Open BY <1>1, SameBuffer DEF Open
<1>2. CASE ReadBlock BY <1>2, ReadBlockInv
<1>3. CASE ReallocFails BY <1>3, SameBuffer DEF ReallocFails
<1>4. CASE SplitText
  <2>1. UNCHANGED readVars /\ phase' \in {"undefined", "export", "tokens"}
    BY <1>4 DEF SplitText
  <2>2. QED BY <2>1, SameBuffer
<1>5. CASE SkipToken BY <1>5, SameBuffer DEF SkipToken
<1>6. CASE DataToken
  <2>1. UNCHANGED readVars /\ phase' \in {"tokens", "records"} BY <1>6 DEF DataToken
  <2>2. QED BY <2>1, SameBuffer
<1>7. CASE SkipRecord
  <2>1. UNCHANGED readVars /\ phase' \in {"tokens", "records"}
    BY <1>7 DEF SkipRecord, NextRecord
  <2>2. QED BY <2>1, SameBuffer
<1>8. CASE AddRecord
  <2>1. UNCHANGED readVars /\ phase' \in {"tokens", "records"}
    BY <1>8 DEF AddRecord, NextRecord
  <2>2. QED BY <2>1, SameBuffer
<1>9. CASE TokensDone BY <1>9, SameBuffer DEF TokensDone
<1>10. CASE Export BY <1>10, SameBuffer DEF Export
<1>11. CASE Free
  <2>1. UNCHANGED readVars /\ (phase' = phase \/ phase' = "done") BY <1>11 DEF Free
  <2>2. QED BY <2>1, SameBuffer
<1>12. CASE UNCHANGED vars BY <1>12, SameBuffer DEF vars
<1>13. QED
  BY <1>1, <1>2, <1>3, <1>4, <1>5, <1>6, <1>7, <1>8, <1>9, <1>10, <1>11, <1>12 DEF Next

\* The invariant of the loop holds in every reachable state.
THEOREM Invariance == Spec => []IInv
BY InitInv, StepInv, PTL DEF Spec

\* Whatever the size of a block, the loop of import.c 118-137 takes no more
\* blocks than the file fills, and one.
THEOREM MemoryBounded == Spec => []BlocksBounded
<1>1. IInv => BlocksBounded
  <2> SUFFICES ASSUME IInv, ~broken
      PROVE  Len(buffer) <= (Len(file) \div block + 1) * block
    BY DEF BlocksBounded
  <2>1. PICK n \in Nat : Grown(n) BY DEF IInv
  <2>2. block \in Nat \ {0} /\ block \in Nat /\ Len(file) \in Int
    BY LenProperties DEF IInv, ReadType
  <2>3. Len(buffer) = n * block /\ (n - 1) * block <= Len(file) /\ n - 1 \in Int
    BY <2>1 DEF Grown
  <2>4. n - 1 <= Len(file) \div block BY <2>2, <2>3, QuotientAtLeast
  <2>5. Len(file) \div block \in Int BY <2>2, Quotient
  <2>6. n <= Len(file) \div block + 1 BY <2>4, <2>5
  <2>7. n * block <= (Len(file) \div block + 1) * block BY <2>2, <2>5, <2>6, Monotone
  <2>8. QED BY <2>3, <2>7
<1>2. QED BY Invariance, <1>1, PTL

\* Whatever the file and the size of a block, exactly the bytes at the seams
\* are lost, and the end of the text has its room in the buffer.
THEOREM FileInBuffer == Spec => []BufferHoldsFile
<1>1. IInv => BufferHoldsFile
  <2> SUFFICES ASSUME IInv, phase = "split", NEW p \in DOMAIN file, Kept(p)
      PROVE  Cell(p) < Len(buffer) /\ buffer[Cell(p)] = file[p]
    BY DEF BufferHoldsFile
  <2>1. PICK n \in Nat : Grown(n) BY DEF IInv
  <2>2. /\ pos = Len(file) /\ Len(file) < n * block /\ Len(buffer) = n * block
    BY <2>1 DEF Grown
  <2>3. /\ block \in Nat \ {0} /\ block \in Int /\ Len(file) \in Nat
        /\ p \in 1 .. Len(file)
    BY LenProperties DEF IInv, ReadType
  <2>4. buffer[Cell(p)] = file[p] BY <2>2, <2>3 DEF IInv, Laid, Kept
  <2>5. 0 <= (p - 1) \div block
    <3>1. 0 * block = 0 BY <2>3, Steps
    <3>2. 0 * block <= p - 1 /\ p - 1 \in Int BY <2>3, <3>1
    <3>3. QED BY <2>3, <3>2, QuotientAtLeast
  <2>6. (p - 1) \div block \in Int
    <3>1. p - 1 \in Int BY <2>3
    <3>2. QED BY <2>3, <3>1, Quotient
  <2>7. n * block \in Int BY <2>1, <2>3, Product
  <2>8. Cell(p) < Len(buffer) BY <2>2, <2>3, <2>5, <2>6, <2>7 DEF Cell
  <2>9. QED BY <2>4, <2>8
<1>2. QED BY Invariance, <1>1, PTL

-----------------------------------------------------------------------------
(***************************************************************************)
(* What the text is parsed into, and the list.  A list exists exactly      *)
(* while it has records, but for the loop that frees it, and there is none *)
(* before the text was split nor in the end.                               *)
(***************************************************************************)
ParseType ==
  /\ tokens \in Seq(Seq(Byte)) /\ records \in Seq(Seq(Byte))
  /\ content \in [Records -> Values]
  /\ short \in BOOLEAN /\ phase \in Phases
  /\ file \in Files \cup {<<>>} /\ block \in BlockSizes
  /\ phase = "records" => records # <<>>

Unlisted == {"open", "read", "split", "undefined", "done"}

ListInv ==
  /\ ListTypeOK /\ WellLinked
  /\ IF phase = "free" THEN Freeing ELSE Building
  /\ phase \in Unlisted => order = <<>>

ParseInv == IInv /\ ParseType /\ ListInv

LEMMA SplitTextFacts ==
  ASSUME ReadType, Terminated
  PROVE  TextRead \in Seq(Byte)
<1> DEFINE ends == {i \in DOMAIN buffer : buffer[i] = Nul}
<1>1. Len(buffer) \in Nat /\ DOMAIN buffer = 1 .. Len(buffer) /\ buffer \in Seq(Byte)
  BY LenProperties DEF ReadType
<1>2. ends \in SUBSET Nat /\ ends # {} BY <1>1 DEF Terminated
<1> HIDE DEF ends
<1>3. Smallest(ends) \in ends BY <1>2, SmallestFacts
<1>4. Smallest(ends) - 1 \in Int /\ Smallest(ends) - 1 <= Len(buffer)
  BY <1>1, <1>3 DEF ends
<1>5. SubSeq(buffer, 1, Smallest(ends) - 1) \in Seq(Byte) BY <1>1, <1>4, PartType
<1>6. QED BY <1>5 DEF TextRead, ends

LEMMA TailType ==
  ASSUME NEW S, NEW s \in Seq(S), s # <<>>
  PROVE  Tail(s) \in Seq(S) /\ Head(s) \in S /\ s[1] \in S /\ Head(s) = s[1]
BY HeadTailProperties, EmptySeq, LenProperties, ElementOfSeq

LEMMA TailLeaves ==
  ASSUME NEW S, NEW s \in Seq(S), Len(s) > 1
  PROVE  Tail(s) \in Seq(S) /\ Tail(s) # <<>>
<1>1. Len(s) \in Nat BY LenProperties
<1>2. s # <<>> BY EmptySeq, <1>1
<1>3. Tail(s) \in Seq(S) /\ Len(Tail(s)) = Len(s) - 1 BY <1>2, HeadTailProperties
<1>4. Len(Tail(s)) # 0 BY <1>1, <1>3
<1>5. QED BY <1>3, <1>4, EmptySeq

LEMMA ItemsType ==
  ASSUME NEW record \in Seq(Byte)
  PROVE  Items(record) \in Seq(Seq(Byte))
<1>1. Trim(record, {",", "}"}) \in Seq(Byte) BY TrimType
<1>2. QED BY <1>1, SplitType DEF Items

LEMMA ParseTypeStep ==
  ASSUME ReadType, ParseType, ListTypeOK, Next
  PROVE  ParseType'
<1> USE DEF ParseType, Phases
<1>1. file' = file /\ block' = block
  BY DEF Next, Open, ReadBlock, ReallocFails, SplitText, SkipToken, DataToken, SkipRecord,
     AddRecord, NextRecord, TokensDone, Export, Free, readVars
<1>2. CASE Open BY <1>1, <1>2 DEF Open, parseVars
<1>3. CASE ReadBlock BY <1>1, <1>3 DEF ReadBlock, parseVars
<1>4. CASE ReallocFails BY <1>1, <1>4 DEF ReallocFails, parseVars
<1>5. CASE SplitText
  <2>1. Terminated => Split(TextRead, {"[", "]"}) \in Seq(Seq(Byte))
    BY SplitTextFacts, SplitType
  <2>2. tokens' \in Seq(Seq(Byte)) /\ records' = records /\ content' = content
    BY <1>5, <2>1 DEF SplitText
  <2>3. short' \in BOOLEAN /\ phase' \in {"undefined", "export", "tokens"}
    BY <1>5 DEF SplitText
  <2>4. QED BY <1>1, <2>2, <2>3
<1>6. CASE SkipToken
  <2>1. tokens' \in Seq(Seq(Byte)) BY <1>6, TailType DEF SkipToken
  <2>2. short' \in BOOLEAN BY <1>6 DEF SkipToken, IsData
  <2>3. QED BY <1>1, <1>6, <2>1, <2>2 DEF SkipToken
<1>7. CASE DataToken
  <2>1. tokens # <<>> /\ Len(tokens) > 1 BY <1>7 DEF DataToken, IsData
  <2>2. tokens[2] \in Seq(Byte) BY <2>1, LenProperties, ElementOfSeq
  <2>3. Tail(Tail(tokens)) \in Seq(Seq(Byte))
    <3>1. Tail(tokens) \in Seq(Seq(Byte)) /\ Tail(tokens) # <<>> BY <2>1, TailLeaves
    <3>2. QED BY <3>1, TailType
  <2>4. Split(tokens[2], {"{"}) \in Seq(Seq(Byte)) BY <2>2, SplitType
  <2>5. records' \in Seq(Seq(Byte)) /\ tokens' = Tail(Tail(tokens))
    BY <1>7, <2>4, EmptySeq DEF DataToken
  <2>6. short' \in BOOLEAN /\ content' = content BY <1>7 DEF DataToken
  <2>7. phase' = IF records' = <<>> THEN "tokens" ELSE "records" BY <1>7 DEF DataToken
  <2>8. QED BY <1>1, <2>3, <2>5, <2>6, <2>7
<1>8. ASSUME NextRecord, phase = "records"
      PROVE  /\ tokens' = tokens /\ records' \in Seq(Seq(Byte))
             /\ phase' \in {"tokens", "records"}
             /\ phase' = "records" => records' # <<>>
  <2>1. records # <<>> BY <1>8
  <2>2. Tail(records) \in Seq(Seq(Byte)) BY <2>1, TailType
  <2>3. tokens' = tokens /\ records' = Tail(records)
    BY <1>8 DEF NextRecord
  <2>4. phase' = IF Tail(records) = <<>> THEN "tokens" ELSE "records" BY <1>8 DEF NextRecord
  <2>5. QED BY <2>2, <2>3, <2>4
<1>9. CASE SkipRecord
  <2>1. short' \in BOOLEAN /\ content' = content BY <1>9 DEF SkipRecord
  <2>2. QED BY <1>1, <1>8, <1>9, <2>1 DEF SkipRecord
<1>10. CASE AddRecord
  <2> DEFINE items == Items(Head(records))
  <2>1. phase = "records" /\ NextRecord BY <1>10 DEF AddRecord
  <2>2. Len(items) \in Nat
    <3>1. Head(records) \in Seq(Byte) BY <2>1, TailType
    <3>2. QED BY <3>1, ItemsType, LenProperties
  <2>3. content' \in [Records -> Values] /\ short' \in BOOLEAN
    <3>1. PICK lost \in SUBSET DOMAIN items :
            \/ /\ content' = [content EXCEPT ![tail'] = DataOf(items, lost)]
               /\ short' = (short \/ lost # {})
            \/ short' = TRUE /\ UNCHANGED content
      BY <1>10 DEF AddRecord
    <3> HIDE DEF items
    <3>2. DataOf(items, lost) \in Values
      <4>1. Len(items) \in 0 .. Len(items) BY <2>2
      <4>2. QED BY <2>2, <4>1, DataTurns DEF DataOf
    <3>3. content \in [Records -> Values] BY DEF ParseType
    <3>4. content' \in [Records -> Values]
      <4>1. \A f \in [Records -> Values], r, v \in Values :
              [f EXCEPT ![r] = v] \in [Records -> Values]
        OBVIOUS
      <4>2. QED BY <3>1, <3>2, <3>3, <4>1
    <3>5. (lost # {}) \in BOOLEAN OBVIOUS
    <3>6. short' \in BOOLEAN BY <3>1, <3>5 DEF ParseType
    <3>7. QED BY <3>4, <3>6
  <2>4. QED BY <1>1, <1>8, <2>1, <2>3
<1>11. CASE TokensDone BY <1>1, <1>11 DEF TokensDone, parseVars
<1>12. CASE Export BY <1>1, <1>12 DEF Export, parseVars
<1>13. CASE Free BY <1>1, <1>13 DEF Free, parseVars
<1>14. QED
  BY <1>2, <1>3, <1>4, <1>5, <1>6, <1>7, <1>9, <1>10, <1>11, <1>12, <1>13 DEF Next

LEMMA ListInvStep ==
  ASSUME ListInv, [Next]_vars
  PROVE  ListInv'
<1> USE DEF ListInv, Unlisted
<1>1. ASSUME UNCHANGED listVars,
             \/ phase' = phase
             \/ /\ phase # "free" /\ phase' # "free"
                /\ phase' \in Unlisted => phase \in Unlisted
      PROVE  ListInv'
  <2>1. order' = order BY <1>1 DEF listVars
  <2>2. QED BY <1>1, <2>1, SameList
<1>2. CASE Open \/ ReadBlock \/ ReallocFails \/ SplitText
  BY <1>1, <1>2 DEF Open, ReadBlock, ReallocFails, SplitText
<1>3. CASE SkipToken \/ DataToken \/ SkipRecord \/ TokensDone
  BY <1>1, <1>3 DEF SkipToken, DataToken, SkipRecord, NextRecord, TokensDone
<1>4. CASE AddRecord
  <2>1. phase = "records" /\ phase' \in {"tokens", "records"} BY <1>4 DEF AddRecord, NextRecord
  <2>2. AddCopySucceeds \/ AddCopyFails BY <1>4 DEF AddRecord
  <2>3. QED BY <2>1, <2>2, AddSucceeds, AddFails
<1>5. CASE Export
  <2>1. phase = "export" /\ phase' = "free" /\ FreeBegins BY <1>5 DEF Export
  <2>2. QED BY <2>1, FreeStarts
<1>6. CASE Free
  <2>1. phase = "free" BY <1>6 DEF Free
  <2>2. CASE FreeRecord /\ UNCHANGED phase BY <2>1, <2>2, FreeFirst
  <2>3. CASE FreeHeader /\ phase' = "done" BY <2>1, <2>3, FreeEnds
  <2>4. QED BY <1>6, <2>2, <2>3 DEF Free
<1>7. CASE UNCHANGED vars BY <1>1, <1>7 DEF vars
<1>8. QED BY <1>2, <1>3, <1>4, <1>5, <1>6, <1>7 DEF Next

LEMMA ParseInitInv == Init => ParseInv
<1> SUFFICES ASSUME Init PROVE ParseInv OBVIOUS
<1>1. /\ ListInit /\ phase = "open" /\ block \in BlockSizes
      /\ file \in IF broken THEN {<<>>} ELSE Files
      /\ tokens = <<>> /\ records = <<>> /\ short = FALSE
      /\ content = [r \in Records |-> Zero]
  BY DEF Init
<1>2. Zero \in Values BY DEF Zero, Values
<1>3. ParseType BY <1>1, <1>2, EmptySeq DEF ParseType, Phases
<1>4. ListInv BY <1>1, ListStarts DEF ListInv, Unlisted
<1>5. QED BY <1>3, <1>4, InitInv DEF ParseInv

LEMMA ParseStepInv == ParseInv /\ [Next]_vars => ParseInv'
<1> SUFFICES ASSUME ParseInv, [Next]_vars PROVE ParseInv' OBVIOUS
<1> USE DEF ParseInv
<1>1. IInv' BY StepInv
<1>2. ListInv' BY ListInvStep
<1>3. ParseType'
  <2>1. CASE Next BY <2>1, ParseTypeStep DEF IInv, ListInv
  <2>2. CASE UNCHANGED vars BY <2>2 DEF vars, ParseType, readVars, parseVars
  <2>3. QED BY <2>1, <2>2
<1>4. QED BY <1>1, <1>2, <1>3

\* The invariant of the parser and its list holds in every reachable state.
THEOREM ParseInvariance == Spec => []ParseInv
BY ParseInitInv, ParseStepInv, PTL DEF Spec

\* The variables have their types, whatever a file holds and whatever memory
\* runs short of; in particular the text, the tokens and the records cut from
\* it consist of what the buffer holds, and values are only ever of the kinds
\* that their parsers yield.
THEOREM TypeCorrect == Spec => []TypeOK
<1>1. ParseInv => TypeOK
  <2> SUFFICES ASSUME ParseInv PROVE TypeOK OBVIOUS
  <2>1. PICK n \in Nat : Grown(n) BY DEF ParseInv, IInv
  <2>2. block \in Nat \ {0} BY DEF ParseInv, IInv, ReadType
  <2>3. index = n * (block - 1) /\ block - 1 \in Nat BY <2>1, <2>2 DEF Grown
  <2>4. index \in Nat
    <3>1. 0 * (block - 1) <= n * (block - 1) BY <2>3, Monotone
    <3>2. 0 * (block - 1) = 0 /\ n * (block - 1) \in Int BY <2>3, Product, Steps
    <3>3. QED BY <2>3, <3>1, <3>2
  <2>5. QED
    BY <2>4 DEF ParseInv, IInv, ReadType, ParseType, ListInv, TypeOK, Values
<1>2. QED BY <1>1, ParseInvariance, PTL

\* The list of a data file is linked as that of a query, the loop that frees it
\* (data.c 67-83) is only ever at a record that is allocated, and in the end
\* nothing is but the records that no list got.
FreesSafely ==
  /\ WellLinked
  /\ cursor # Null => cursor \in live
  /\ phase = "done" => ~list /\ live = leaked

\* Whatever a file holds and whatever fails, its list is linked and freed as
\* nvipfix_data_list_free needs it (main.c 56-63, data.c 67-83).
THEOREM FreedSafely == Spec => []FreesSafely
<1>1. ParseInv => FreesSafely
  <2> SUFFICES ASSUME ParseInv PROVE FreesSafely OBVIOUS
  <2> USE DEF ParseInv, ListInv, Unlisted
  <2>1. cursor # Null => cursor \in live BY CursorLive DEF Building
  <2>2. ASSUME phase = "done" PROVE ~list /\ live = leaked
    <3>1. order = <<>> /\ Building BY <2>2
    <3>2. Listed = {} BY <3>1, OrderFacts DEF Listed
    <3>3. QED BY <3>1, <3>2 DEF WellLinked, Building
  <2>3. QED BY <2>1, <2>2 DEF FreesSafely
<1>2. QED BY <1>1, ParseInvariance, PTL

(***************************************************************************)
(* What is left of an import: the stage it is at; the blocks there is      *)
(* memory for, the tokens or the records of the list that are left; and    *)
(* the records that are left of a token.                                   *)
(***************************************************************************)
Stage ==
  CASE phase = "open"                  -> 6 [] phase = "read"   -> 5
    [] phase = "split"                 -> 4
    [] phase \in {"tokens", "records"} -> 3 [] phase = "export" -> 2
    [] phase = "free"                  -> 1 [] OTHER            -> 0

Room ==
  IF Len(buffer) < MaxBlocks * block THEN MaxBlocks * block - Len(buffer) ELSE 0

Pieces ==
  CASE phase = "read"                  -> Room
    [] phase \in {"tokens", "records"} -> Len(tokens)
    [] phase = "free"                  -> Len(order)
    [] OTHER                           -> 0

Parts == IF phase = "records" THEN Len(records) ELSE 0

Effort   == <<Stage, Pieces, Parts>>
EffortOK == Effort \in Measures(3)

LEMMA EffortType ==
  ASSUME ParseInv
  PROVE  EffortOK
<1>1. /\ Len(buffer) \in Nat /\ Len(tokens) \in Nat /\ Len(records) \in Nat
      /\ Len(order) \in Nat /\ MaxBlocks \in Nat /\ block \in Nat
  BY LenProperties, FileImportAssumption
     DEF ParseInv, IInv, ReadType, ParseType, ListInv, ListTypeOK
<1>2. Room \in Nat
  <2>1. MaxBlocks * block \in Int BY <1>1, Product
  <2>2. QED BY <1>1, <2>1 DEF Room
<1>3. Stage \in Nat BY DEF Stage
<1>4. Pieces \in Nat BY <1>1, <1>2 DEF Pieces
<1>5. Parts \in Nat BY <1>1 DEF Parts
<1>6. QED BY <1>3, <1>4, <1>5 DEF EffortOK, Effort, Measures

\* Less is left if a stage is over, or else a piece, or else a part of one.
LEMMA EffortLess ==
  ASSUME EffortOK, EffortOK',
         \/ Stage' < Stage
         \/ Stage' = Stage /\ Pieces' < Pieces
         \/ Stage' = Stage /\ Pieces' = Pieces /\ Parts' < Parts
  PROVE  <<Effort', Effort>> \in Descent(3)
<1>1. Effort \in Measures(3) /\ Effort' \in Measures(3) BY DEF EffortOK
<1>2. /\ Effort[1] = Stage /\ Effort[2] = Pieces /\ Effort[3] = Parts
      /\ Effort'[1] = Stage' /\ Effort'[2] = Pieces' /\ Effort'[3] = Parts'
  BY DEF Effort
<1>3. PICK j \in 1 .. 3 :
        Effort'[j] < Effort[j] /\ \A i \in 1 .. j - 1 : Effort'[i] = Effort[i]
  <2>1. CASE Stage' < Stage
    <3>1. Effort'[1] < Effort[1] /\ \A i \in 1 .. 1 - 1 : Effort'[i] = Effort[i]
      BY <1>2, <2>1
    <3>2. QED BY <3>1
  <2>2. CASE Stage' = Stage /\ Pieces' < Pieces
    <3>1. Effort'[2] < Effort[2] /\ \A i \in 1 .. 2 - 1 : Effort'[i] = Effort[i]
      BY <1>2, <2>2
    <3>2. QED BY <3>1
  <2>3. CASE Stage' = Stage /\ Pieces' = Pieces /\ Parts' < Parts
    <3>1. Effort'[3] < Effort[3] /\ \A i \in 1 .. 3 - 1 : Effort'[i] = Effort[i]
      BY <1>2, <2>3
    <3>2. QED BY <3>1
  <2>4. QED BY <2>1, <2>2, <2>3
<1>4. 3 \in Nat OBVIOUS
<1>5. QED BY <1>1, <1>3, <1>4, Descends

LEMMA TailShorter ==
  ASSUME NEW S, NEW s \in Seq(S), s # <<>>
  PROVE  Tail(s) \in Seq(S) /\ Len(Tail(s)) = Len(s) - 1 /\ Len(s) \in Nat
BY HeadTailProperties, LenProperties

\* A block more, wherever it is read to.
LEMMA ReadGrows ==
  ASSUME ReadType, NEW o, Read(o)
  PROVE  Len(buffer') = Len(buffer) + block
<1>1. PICK k \in Junk : buffer' = Overlay(buffer \o Fresh(k), o, Chunk) BY DEF Read
<1> DEFINE b == buffer \o Fresh(k)
<1>2. buffer \in Seq(Byte) /\ block \in Nat \ {0} BY DEF ReadType
<1>3. Fresh(k) \in Seq(Byte) /\ Len(Fresh(k)) = block BY <1>2, FreshType
<1>4. b \in Seq(Byte) /\ Len(b) = Len(buffer) + block BY <1>2, <1>3, ConcatProperties
<1>5. buffer' = Overlay(b, o, Chunk) BY <1>1
<1> HIDE DEF b
<1>6. Len(b) \in Nat /\ DOMAIN b = 1 .. Len(b) BY <1>4, LenProperties
<1> DEFINE S == {buffer'[i] : i \in 1 .. Len(b)}
<1>7. buffer' \in [1 .. Len(b) -> S] BY <1>5, <1>6 DEF Overlay
<1> HIDE DEF S
<1>8. Len(buffer') = Len(b) BY <1>6, <1>7, FunctionIsSeq
<1>9. QED BY <1>4, <1>8

LEMMA StepLess ==
  ASSUME ParseInv, Next
  PROVE  \/ Stage' < Stage
         \/ Stage' = Stage /\ Pieces' < Pieces
         \/ Stage' = Stage /\ Pieces' = Pieces /\ Parts' < Parts
<1>1. /\ tokens \in Seq(Seq(Byte)) /\ records \in Seq(Seq(Byte))
      /\ phase = "records" => records # <<>>
      /\ Len(order) \in Nat /\ MaxBlocks \in Nat /\ block \in Nat /\ block > 0
      /\ Len(buffer) \in Nat
  BY LenProperties, FileImportAssumption
     DEF ParseInv, IInv, ReadType, ParseType, ListInv, ListTypeOK
<1>2. CASE Open \/ ReallocFails \/ SplitText \/ TokensDone \/ Export
  BY <1>2 DEF Open, ReallocFails, SplitText, TokensDone, Export, Stage
<1>3. CASE ReadBlock
  <2>1. /\ phase = "read" /\ phase' \in {"read", "split"}
        /\ Len(buffer) < MaxBlocks * block /\ block' = block
    BY <1>3 DEF ReadBlock
  <2>2. CASE phase' = "split" BY <2>1, <2>2 DEF Stage
  <2>3. CASE phase' = "read"
    <3>1. Len(buffer') = Len(buffer) + block
      <4>1. Read(index) /\ ReadType BY <1>3 DEF ReadBlock, ParseInv, IInv
      <4>2. QED BY <4>1, ReadGrows
    <3>2. MaxBlocks * block \in Int BY <1>1, Product
    <3>3. Room' < Room BY <1>1, <2>1, <3>1, <3>2 DEF Room
    <3>4. QED BY <2>1, <2>3, <3>3 DEF Stage, Pieces
  <2>4. QED BY <2>1, <2>2, <2>3
<1>4. CASE SkipToken
  <2>1. phase = "tokens" /\ phase' = phase /\ tokens # <<>> /\ tokens' = Tail(tokens)
    BY <1>4 DEF SkipToken
  <2>2. Len(tokens') < Len(tokens) BY <1>1, <2>1, TailShorter
  <2>3. QED BY <2>1, <2>2 DEF Stage, Pieces
<1>5. CASE DataToken
  <2>1. tokens # <<>> /\ Len(tokens) > 1
    <3>1. tokens # <<>> /\ IsData BY <1>5, Zenon DEF DataToken
    <3>2. QED BY <3>1 DEF IsData
  <2>2. phase = "tokens" /\ phase' = IF records' = <<>> THEN "tokens" ELSE "records"
    BY <1>5, Zenon DEF DataToken
  <2> DEFINE rest == Tail(tokens)
  <2>3. rest \in Seq(Seq(Byte)) /\ Len(rest) = Len(tokens) - 1 /\ Len(tokens) \in Nat
    BY <1>1, <2>1, TailShorter
  <2>4. tokens' = Tail(rest) BY <1>5, Zenon DEF DataToken
  <2> HIDE DEF rest
  <2>5. Len(rest) > 0 /\ Len(rest) < Len(tokens)
    <3>1. Len(tokens) > 1 BY <2>1
    <3>2. QED BY <2>3, <3>1
  <2>6. rest # <<>> BY <2>5, EmptySeq
  <2>7. Len(Tail(rest)) = Len(rest) - 1 /\ Len(rest) \in Nat BY <2>3, <2>6, TailShorter
  <2>8. Len(tokens') < Len(tokens) BY <2>3, <2>4, <2>5, <2>7
  <2>9. QED BY <2>1, <2>2, <2>8 DEF Stage, Pieces
<1>6. CASE SkipRecord \/ AddRecord
  <2>1. /\ phase = "records" /\ records' = Tail(records) /\ tokens' = tokens
        /\ phase' \in {"tokens", "records"}
    BY <1>6 DEF SkipRecord, AddRecord, NextRecord
  <2>2. Len(records') = Len(records) - 1 /\ Len(records) \in Nat /\ Len(records) > 0
    <3>1. records # <<>> /\ Len(records) # 0 BY <1>1, <2>1, EmptySeq
    <3>2. QED BY <1>1, <2>1, <3>1, TailShorter
  <2>3. Parts' < Parts BY <2>1, <2>2 DEF Parts
  <2>4. QED BY <2>1, <2>3 DEF Stage, Pieces
<1>7. CASE Free
  <2>1. phase = "free" /\ ((FreeRecord /\ phase' = phase) \/ phase' = "done") BY <1>7 DEF Free
  <2>2. CASE phase' = "done" BY <2>1, <2>2 DEF Stage
  <2>3. CASE FreeRecord /\ phase' = phase
    <3>1. cursor # Null /\ order' = SubSeq(order, 2, Len(order)) BY <2>3 DEF FreeRecord
    <3>2. order # <<>> /\ order \in Seq(Records)
      BY <2>1, <3>1 DEF ParseInv, ListInv, Freeing, ListTypeOK
    <3>3. order' = Tail(order) BY <3>1, <3>2
    <3>4. Len(order') < Len(order) BY <3>2, <3>3, TailShorter
    <3>5. QED BY <2>1, <2>3, <3>4 DEF Stage, Pieces
  <2>4. QED BY <2>1, <2>2, <2>3
<1>8. QED BY <1>2, <1>3, <1>4, <1>5, <1>6, <1>7 DEF Next

\* Whatever a file holds and whatever fails, every step of an import leaves less
\* of it, and no sequence of steps does so forever: neither the loop over the
\* blocks, which a file that cannot be read only leaves for want of memory, nor
\* those over tokens, records and the list go on without end (import.c, data.c).
THEOREM ImportDescends ==
  /\ IsWellFoundedOn(Descent(3), Measures(3))
  /\ Spec => [][(<<Effort', Effort>> \in Descent(3))]_vars
<1>1. 3 \in Nat OBVIOUS
<1>2. IsWellFoundedOn(Descent(3), Measures(3)) BY <1>1, DescentEnds
<1>3. ParseInv => EffortOK BY EffortType
<1>4. Spec => [][(<<Effort', Effort>> \in Descent(3))]_vars
  <2>1. ParseInv /\ EffortOK /\ EffortOK' /\ [Next]_vars
          => [(<<Effort', Effort>> \in Descent(3))]_vars
    BY StepLess, EffortLess
  <2>2. QED BY <1>3, <2>1, ParseInvariance, PTL DEF Spec
<1>5. QED BY <1>2, <1>4

\* A text of any length and characters is split into its runs of other
\* characters, in order, and an empty token at most, and that at the end: what
\* nvipfix_string_split (types.c 330-394) yields for the file that is to be
\* imported, for each set of delimiters it is called with.
THEOREM SplitCorrect == Spec => []SplitFindsRuns
<1>1. ParseInv => SplitFindsRuns
  <2>1. ParseInv => file \in Seq(Byte) BY DEF ParseInv, IInv, ReadType
  <2>2. QED BY <2>1, SplitIsSplit DEF SplitFindsRuns
<1>2. QED BY <1>1, ParseInvariance, PTL

-----------------------------------------------------------------------------
(***************************************************************************)
(* The rest is about documents.  First, what splitting yields for a text   *)
(* that is put together from two, and for one without delimiters; then the *)
(* text without its blanks, what a text bears and how it can be cut.       *)
(***************************************************************************)
LEMMA PartOfFirst ==
  ASSUME NEW C, NEW x \in Seq(C), NEW y \in Seq(C),
         NEW a \in Int, NEW b \in Int, 1 <= a, b <= Len(x)
  PROVE  SubSeq(x \o y, a, b) = SubSeq(x, a, b)
<1>1. Len(x) \in Nat BY LenProperties
<1>2. CASE b < a BY <1>2, SubSeqEmpty
<1>3. CASE a <= b
  <2>1. a \in 1 .. Len(x) /\ b \in 1 .. Len(x) BY <1>1, <1>3
  <2>2. QED BY <2>1, SubSeqOfConcat1
<1>4. QED BY <1>2, <1>3

LEMMA PartOfSecond ==
  ASSUME NEW C, NEW x \in Seq(C), NEW y \in Seq(C),
         NEW a \in Int, NEW b \in Int, 1 <= a, b <= Len(y)
  PROVE  SubSeq(x \o y, Len(x) + a, Len(x) + b) = SubSeq(y, a, b)
<1>1. Len(x) \in Nat /\ Len(y) \in Nat BY LenProperties
<1>2. CASE b < a
  <2>1. Len(x) + b < Len(x) + a /\ Len(x) + a \in Int /\ Len(x) + b \in Int BY <1>1, <1>2
  <2>2. SubSeq(x \o y, Len(x) + a, Len(x) + b) = <<>> BY <2>1, SubSeqEmpty
  <2>3. QED BY <1>2, <2>2, SubSeqEmpty
<1>3. CASE a <= b
  <2> DEFINE m == Len(x) + a
             n == Len(x) + b
  <2>1. /\ m \in Len(x) + 1 .. Len(x) + Len(y) /\ n \in Len(x) + 1 .. Len(x) + Len(y)
        /\ m - Len(x) = a /\ n - Len(x) = b
    BY <1>1, <1>3
  <2> HIDE DEF m, n
  <2>2. SubSeq(x \o y, m, n) = SubSeq(y, m - Len(x), n - Len(x)) BY <2>1, SubSeqOfConcat2
  <2>3. QED BY <2>1, <2>2 DEF m, n
<1>4. QED BY <1>2, <1>3

\* Up to the last character of x the loop does not see what is behind it.
LEMMA ScanPrefix ==
  ASSUME NEW C, NEW x \in Seq(C), NEW y \in Seq(C), NEW d
  PROVE  \A i \in Nat : i < Len(x) => Scan(x \o y, d)[i] = Scan(x, d)[i]
<1> DEFINE z == x \o y
           g == Scan(z, d)
           h == Scan(x, d)
           G == {i \in Nat : i < Len(x) => g[i] = h[i]}
<1>1. /\ Len(x) \in Nat /\ Len(y) \in Nat /\ z \in Seq(C) /\ Len(z) = Len(x) + Len(y)
      /\ \A i \in 1 .. Len(x) : z[i] = x[i]
  <2>1. Len(x) \in Nat /\ Len(y) \in Nat BY LenProperties
  <2>2. /\ z \in Seq(C) /\ Len(z) = Len(x) + Len(y)
        /\ \A i \in 1 .. Len(x) + Len(y) : z[i] = IF i <= Len(x) THEN x[i] ELSE y[i - Len(x)]
    BY ConcatProperties
  <2> HIDE DEF z
  <2>3. QED BY <2>1, <2>2
<1>2. /\ g[0] = h[0]
      /\ \A i \in 1 .. Len(z) : g[i] = SplitStep(z, d, g[i - 1], i)
      /\ \A i \in 1 .. Len(x) : h[i] = SplitStep(x, d, h[i - 1], i)
  <2> HIDE DEF z
  <2>1. QED BY <1>1, ScanTurns
<1>3. ASSUME NEW i \in Nat, i \in G PROVE i + 1 \in G
  <2> DEFINE j == i + 1
             st == h[i]
  <2> SUFFICES ASSUME j < Len(x) PROVE g[j] = h[j] OBVIOUS
  <2>1. /\ j \in 1 .. Len(x) /\ j \in 1 .. Len(z) /\ j - 1 = i /\ i < Len(x)
        /\ j # Len(x) /\ j # Len(z) /\ z[j] = x[j] /\ j \in Nat
    <3> HIDE DEF z
    <3>1. QED BY <1>1
  <2>2. g[j] = SplitStep(z, d, st, j) /\ h[j] = SplitStep(x, d, st, j)
    <3>1. g[i] = h[i] BY <1>3, <2>1
    <3> HIDE DEF g, h, z, j
    <3>2. QED BY <1>2, <2>1, <3>1
  <2>3. st \in States(x) /\ Within(x, d, i, st) BY <2>1, ScanWithin
  <2> HIDE DEF st, g, h, j
  <2>4. CASE x[j] \in d /\ st.length > 0
    <3> DEFINE a == st.start
               b == st.start + st.length - 1
    <3>1. a \in Int /\ b \in Int /\ 1 <= a /\ b <= Len(x)
      BY <1>1, <2>1, <2>3 DEF Within, States
    <3> HIDE DEF a, b
    <3>2. SubSeq(z, a, b) = SubSeq(x, a, b) BY <3>1, PartOfFirst
    <3> HIDE DEF z
    <3>3. st.length # 0 BY <2>4
    <3>4. SplitStep(z, d, st, j) =
            [tokens |-> Append(st.tokens, SubSeq(z, a, b)), start |-> j + 1, length |-> 0]
      BY <2>1, <2>4, <3>3 DEF SplitStep, a, b
    <3>5. SplitStep(x, d, st, j) =
            [tokens |-> Append(st.tokens, SubSeq(x, a, b)), start |-> j + 1, length |-> 0]
      BY <2>1, <2>4, <3>3 DEF SplitStep, a, b
    <3>6. QED BY <2>2, <3>2, <3>4, <3>5
  <2>5. CASE ~(x[j] \in d /\ st.length > 0)
    <3> HIDE DEF z
    <3>1. QED BY <2>1, <2>2, <2>5 DEF SplitStep
  <2>6. QED BY <2>4, <2>5
<1>4. 0 \in G BY <1>2
<1>5. \A i \in Nat : i \in G
  <2> HIDE DEF G
  <2>1. QED BY <1>3, <1>4, Induction
<1>6. QED BY <1>5

\* The state of the loop behind a text x that was split into found.
Shifted(x, found, st) ==
  [tokens |-> found \o st.tokens, start |-> Len(x) + st.start, length |-> st.length]

LEMMA CatAppend ==
  ASSUME NEW T, NEW u \in Seq(T), NEW v \in Seq(T), NEW t \in T
  PROVE  u \o Append(v, t) = Append(u \o v, t)
<1>1. <<t>> \in Seq(T) /\ u \o v \in Seq(T) BY ConcatProperties
<1>2. u \o (v \o <<t>>) = (u \o v) \o <<t>> BY <1>1, ConcatAssociative
<1>3. QED BY <1>1, <1>2, AppendIsConcat

LEMMA StepShifted ==
  ASSUME NEW C, NEW x \in Seq(C), NEW y \in Seq(C), NEW d, NEW found \in Seq(Seq(C)),
         NEW i \in 1 .. Len(y), NEW st \in States(y), Within(y, d, i - 1, st),
         st.tokens \in Seq(Seq(C))
  PROVE  SplitStep(x \o y, d, Shifted(x, found, st), Len(x) + i)
           = Shifted(x, found, SplitStep(y, d, st, i))
<1> DEFINE z == x \o y
           n == Len(x)
           isDelim == y[i] \in d
           length  == IF isDelim THEN st.length ELSE st.length + 1
           start   == IF isDelim /\ st.length = 0 THEN i + 1 ELSE st.start
           token   == SubSeq(y, start, start + length - 1)
           start2  == IF isDelim /\ st.length = 0 THEN n + i + 1 ELSE n + st.start
           token2  == SubSeq(z, start2, start2 + length - 1)
<1>1. /\ n \in Nat /\ Len(y) \in Nat /\ i \in Nat /\ 1 <= i /\ i <= Len(y)
      /\ Len(z) = n + Len(y) /\ z[n + i] = y[i]
  <2>1. n \in Nat /\ Len(y) \in Nat BY LenProperties
  <2>2. /\ Len(z) = n + Len(y)
        /\ \A k \in 1 .. n + Len(y) : z[k] = IF k <= n THEN x[k] ELSE y[k - n]
    BY ConcatProperties
  <2>3. n + i \in 1 .. n + Len(y) /\ ~(n + i <= n) /\ n + i - n = i BY <2>1
  <2> HIDE DEF z
  <2>4. QED BY <2>1, <2>2, <2>3
<1>2. /\ start \in Int /\ length \in Int /\ 1 <= start /\ start + length - 1 <= i
      /\ start2 = n + start
  <2> DEFINE a == st.start
             b == st.length
  <2>1. a \in Nat /\ b \in Nat /\ 1 <= a /\ a <= i /\ b = i - a
    BY <1>1 DEF Within, States
  <2>2. /\ length = IF isDelim THEN b ELSE b + 1
        /\ start = IF isDelim /\ b = 0 THEN i + 1 ELSE a
        /\ start2 = IF isDelim /\ b = 0 THEN n + i + 1 ELSE n + a
    OBVIOUS
  <2> HIDE DEF a, b, isDelim, length, start, n, start2
  <2>3. QED BY <1>1, <2>1, <2>2
<1>3. token2 = token
  <2> DEFINE b == start + length - 1
  <2>1. b \in Int /\ b <= Len(y) /\ start2 + length - 1 = n + b
    <3> HIDE DEF start, length, start2, n
    <3>1. QED BY <1>1, <1>2
  <2> HIDE DEF start, length, b, start2
  <2>2. SubSeq(x \o y, n + start, n + b) = SubSeq(y, start, b) BY <1>2, <2>1, PartOfSecond
  <2>3. QED BY <1>2, <2>1, <2>2 DEF b
<1>4. token \in Seq(C)
  <2> HIDE DEF start, length
  <2>1. start + length - 1 \in Int /\ start + length - 1 <= Len(y) BY <1>1, <1>2
  <2>2. QED BY <1>2, <2>1, PartType
<1>5. found \o Append(st.tokens, token) = Append(found \o st.tokens, token)
  <2> DEFINE T == Seq(C)
             v == st.tokens
  <2>1. found \in Seq(T) /\ v \in Seq(T) /\ token \in T BY <1>4
  <2> HIDE DEF token, v, T
  <2>2. found \o Append(v, token) = Append(found \o v, token) BY <2>1, CatAppend
  <2>3. QED BY <2>2 DEF v
<1>6. SplitStep(y, d, st, i) =
        IF (isDelim /\ st.length > 0) \/ i = Len(y)
        THEN [tokens |-> Append(st.tokens, token), start |-> i + 1, length |-> 0]
        ELSE [tokens |-> st.tokens, start |-> start, length |-> length]
  BY DEF SplitStep
<1> DEFINE u == Shifted(x, found, st)
<1>7. /\ u.tokens = found \o st.tokens /\ u.start = n + st.start /\ u.length = st.length
  BY DEF Shifted
<1>8. (n + i = Len(z)) <=> (i = Len(y))
  <2> DEFINE p == Len(z)
             q == Len(y)
  <2>1. n \in Nat /\ q \in Nat /\ i \in Nat /\ p = n + q BY <1>1
  <2> HIDE DEF n, z, p, q
  <2>2. (n + i = p) <=> (i = q) BY <2>1
  <2>3. QED BY <2>2 DEF p, q
<1>9. SplitStep(z, d, u, n + i) =
        IF (isDelim /\ st.length > 0) \/ i = Len(y)
        THEN [tokens |-> Append(found \o st.tokens, token2), start |-> n + i + 1, length |-> 0]
        ELSE [tokens |-> found \o st.tokens, start |-> start2, length |-> length]
  <2> HIDE DEF z, u, n
  <2>1. QED BY <1>1, <1>7, <1>8 DEF SplitStep
<1>10. n + (i + 1) = n + i + 1 BY <1>1
<1> HIDE DEF z, u, start, start2, length, token, token2, isDelim, n
<1>11. SplitStep(z, d, u, n + i) = Shifted(x, found, SplitStep(y, d, st, i))
  <2>1. CASE (isDelim /\ st.length > 0) \/ i = Len(y)
    <3>1. SplitStep(y, d, st, i) =
            [tokens |-> Append(st.tokens, token), start |-> i + 1, length |-> 0]
      BY <1>6, <2>1
    <3>2. SplitStep(z, d, u, n + i) =
            [tokens |-> Append(found \o st.tokens, token2), start |-> n + i + 1, length |-> 0]
      BY <1>9, <2>1
    <3> DEFINE w == SplitStep(y, d, st, i)
    <3>3. w.tokens = Append(st.tokens, token) /\ w.start = i + 1 /\ w.length = 0 BY <3>1
    <3> HIDE DEF w
    <3>4. Shifted(x, found, w) =
            [tokens |-> Append(found \o st.tokens, token), start |-> n + i + 1, length |-> 0]
      BY <1>5, <1>10, <3>3 DEF Shifted, n
    <3>5. QED BY <1>3, <3>2, <3>4 DEF w
  <2>2. CASE ~((isDelim /\ st.length > 0) \/ i = Len(y))
    <3>1. SplitStep(y, d, st, i) =
            [tokens |-> st.tokens, start |-> start, length |-> length]
      BY <1>6, <2>2
    <3>2. SplitStep(z, d, u, n + i) =
            [tokens |-> found \o st.tokens, start |-> start2, length |-> length]
      BY <1>9, <2>2
    <3> DEFINE w == SplitStep(y, d, st, i)
    <3>3. w.tokens = st.tokens /\ w.start = start /\ w.length = length BY <3>1
    <3> HIDE DEF w
    <3>4. Shifted(x, found, w) =
            [tokens |-> found \o st.tokens, start |-> n + start, length |-> length]
      BY <3>3 DEF Shifted, n
    <3>5. QED BY <1>2, <3>2, <3>4 DEF w
  <2>3. QED BY <2>1, <2>2
<1>12. QED BY <1>11 DEF z, u, n

LEMMA CatFacts ==
  ASSUME NEW C, NEW x \in Seq(C), NEW y \in Seq(C)
  PROVE  /\ Len(x) \in Nat /\ Len(y) \in Nat
         /\ x \o y \in Seq(C) /\ Len(x \o y) = Len(x) + Len(y)
         /\ \A i \in 1 .. Len(x) : (x \o y)[i] = x[i]
         /\ \A i \in 1 .. Len(y) : (x \o y)[Len(x) + i] = y[i]
<1> DEFINE z == x \o y
           n == Len(x)
           m == Len(y)
<1>1. n \in Nat /\ m \in Nat BY LenProperties
<1>2. /\ z \in Seq(C) /\ Len(z) = n + m
      /\ \A i \in 1 .. n + m : z[i] = IF i <= n THEN x[i] ELSE y[i - n]
  BY ConcatProperties
<1> HIDE DEF z, n, m
<1>3. \A i \in 1 .. n : z[i] = x[i] BY <1>1, <1>2
<1>4. ASSUME NEW i \in 1 .. m PROVE z[n + i] = y[i]
  <2>1. n + i \in 1 .. n + m /\ ~(n + i <= n) /\ n + i - n = i BY <1>1
  <2> DEFINE j == n + i
  <2>2. j \in 1 .. n + m /\ ~(j <= n) /\ j - n = i BY <1>1, <2>1
  <2> HIDE DEF j
  <2>3. z[j] = y[j - n] BY <1>2, <2>2
  <2>4. QED BY <2>2, <2>3 DEF j
<1>5. QED BY <1>1, <1>2, <1>3, <1>4 DEF z, n, m

\* The last turn of the loop over a text that does not end in a delimiter.
LEMMA LastRun ==
  ASSUME NEW C, NEW x \in Seq(C), NEW d, x # <<>>, x[Len(x)] \notin d
  PROVE  LET st == Scan(x, d)[Len(x) - 1]
         IN  /\ st \in States(x) /\ Within(x, d, Len(x) - 1, st)
             /\ st.tokens \in Seq(Seq(C))
             /\ st.start + st.length = Len(x)
             /\ Split(x, d) = Append(st.tokens, SubSeq(x, st.start, Len(x)))
<1> DEFINE n == Len(x)
           st == Scan(x, d)[n - 1]
<1>1. n \in Nat /\ n # 0 BY EmptySeq, LenProperties
<1>2. n - 1 \in Nat /\ n - 1 < n /\ n \in 1 .. n BY <1>1
<1>3. st \in States(x) /\ Within(x, d, n - 1, st) /\ st.tokens \in Seq(Seq(C))
  BY <1>2, ScanWithin
<1>4. Scan(x, d)[n] = SplitStep(x, d, st, n) BY <1>2, ScanTurns
<1>5. st.start + st.length = n
  <2> DEFINE a == st.start
             b == st.length
  <2>1. a \in Nat /\ b = (n - 1) + 1 - a BY <1>3 DEF Within, States
  <2> HIDE DEF a, b, n
  <2>2. a + b = n BY <1>1, <2>1
  <2>3. QED BY <2>2 DEF a, b
<1>6. SplitStep(x, d, st, n).tokens =
        Append(st.tokens, SubSeq(x, st.start, st.start + (st.length + 1) - 1))
  BY <1>2 DEF SplitStep
<1>7. st.start + (st.length + 1) - 1 = n
  <2> DEFINE a == st.start
             b == st.length
  <2>1. a \in Nat /\ b \in Nat BY <1>3 DEF States
  <2> HIDE DEF n
  <2>2. a + b = n BY <1>5
  <2> HIDE DEF a, b
  <2>3. a + (b + 1) - 1 = n BY <2>1, <2>2
  <2>4. QED BY <2>3 DEF a, b
<1> HIDE DEF st
<1>8. QED BY <1>3, <1>4, <1>5, <1>6, <1>7 DEF Split, st

LEMMA SplitCat ==
  ASSUME NEW C, NEW x \in Seq(C), NEW y \in Seq(C), NEW d,
         x # <<>>, x[Len(x)] \notin d, Len(y) > 1, y[1] \in d
  PROVE  Split(x \o y, d) = Split(x, d) \o Split(y, d)
<1> DEFINE z == x \o y
           n == Len(x)
           m == Len(y)
           f == Split(x, d)
           g == Scan(z, d)
           k == Scan(y, d)
           st == Scan(x, d)[n - 1]
           a == st.start
           b == st.length
<1>1. /\ n \in Nat /\ n # 0 /\ m \in Nat /\ m > 1 /\ z \in Seq(C) /\ Len(z) = n + m
      /\ \A i \in 1 .. n : z[i] = x[i]
      /\ \A i \in 1 .. m : z[n + i] = y[i]
  BY CatFacts, EmptySeq
<1>2. /\ st \in States(x) /\ Within(x, d, n - 1, st)
      /\ st.tokens \in Seq(Seq(C)) /\ a + b = n
      /\ f = Append(st.tokens, SubSeq(x, a, n))
  BY LastRun
<1>3. f \in Seq(Seq(C)) BY SplitType
<1>4. a \in Nat /\ b \in Nat /\ 1 <= a BY <1>2 DEF Within, States
<1>5. \A i \in 1 .. n + m : g[i] = SplitStep(z, d, g[i - 1], i)
  <2> HIDE DEF z
  <2>1. z \in Seq(C) BY <1>1
  <2>2. \A i \in 1 .. Len(z) : g[i] = SplitStep(z, d, g[i - 1], i) BY ONLY <2>1, ScanTurns
  <2>3. QED BY <1>1, <2>2, Zenon
<1>6. g[n - 1] = st
  <2>1. n - 1 \in Nat /\ n - 1 < n BY <1>1
  <2>2. QED BY <2>1, ScanPrefix
<1> HIDE DEF f, g, st, z
<1>7. g[n] = [tokens |-> st.tokens, start |-> a, length |-> b + 1]
  <2>1. n \in 1 .. n + m /\ n # n + m /\ n \in 1 .. n BY <1>1
  <2>2. g[n] = SplitStep(z, d, st, n) BY <1>5, <1>6, <2>1
  <2>3. z[n] \notin d BY <1>1, <2>1
  <2> HIDE DEF n, m
  <2>4. SplitStep(z, d, st, n) = [tokens |-> st.tokens, start |-> a, length |-> b + 1]
    BY <1>1, <2>1, <2>3 DEF SplitStep
  <2>5. QED BY <2>2, <2>4
<1>8. g[n + 1] = [tokens |-> f, start |-> n + 2, length |-> 0]
  <2>1. /\ n + 1 \in 1 .. n + m /\ (n + 1) - 1 = n /\ 1 \in 1 .. m /\ n + 1 # n + m
        /\ (n + 1) + 1 = n + 2
    BY <1>1
  <2>2. z[n + 1] \in d BY <1>1, <2>1
  <2> DEFINE st2 == g[n]
             t == SubSeq(z, a, a + (b + 1) - 1)
  <2>3. g[n + 1] = SplitStep(z, d, st2, n + 1) BY <1>5, <2>1
  <2>4. st2.tokens = st.tokens /\ st2.start = a /\ st2.length = b + 1 BY <1>7
  <2>5. b + 1 > 0 /\ b + 1 # 0 /\ a + (b + 1) - 1 = n
    <3> HIDE DEF a, b, n
    <3>1. QED BY <1>1, <1>2, <1>4
  <2>6. t = SubSeq(x, a, n)
    <3>1. SubSeq(z, a, n) = SubSeq(x, a, n)
      <4>1. a \in Int /\ n \in Int /\ n <= Len(x) BY <1>1, <1>4
      <4> HIDE DEF n, a
      <4>2. QED BY <1>4, <4>1, PartOfFirst DEF z
    <3>2. QED BY <2>5, <3>1
  <2> HIDE DEF st2, a, b, n, m
  <2>7. SplitStep(z, d, st2, n + 1) =
          [tokens |-> Append(st.tokens, t), start |-> (n + 1) + 1, length |-> 0]
    BY <1>1, <2>1, <2>2, <2>4, <2>5 DEF SplitStep
  <2>8. QED BY <1>2, <2>1, <2>3, <2>6, <2>7
<1>9. k[1] = [tokens |-> <<>>, start |-> 2, length |-> 0]
  <2>1. /\ k[0] = [tokens |-> <<>>, start |-> 1, length |-> 0]
        /\ k[1] = SplitStep(y, d, k[0], 1)
    <3>1. 1 \in 1 .. m /\ 1 - 1 = 0 BY <1>1
    <3>2. QED BY <3>1, ScanTurns
  <2>2. SplitStep(y, d, k[0], 1) = [tokens |-> <<>>, start |-> 2, length |-> 0]
    <3> DEFINE s0 == k[0]
    <3>1. s0.tokens = <<>> /\ s0.start = 1 /\ s0.length = 0 BY <2>1
    <3>2. Len(y) # 1 BY <1>1
    <3> HIDE DEF s0
    <3>3. QED BY <3>1, <3>2 DEF SplitStep, s0
  <2>3. QED BY <2>1, <2>2
<1>10. \A i \in Nat : i <= m /\ i > 0 => g[n + i] = Shifted(x, f, k[i])
  <2> DEFINE G == {i \in Nat : i <= m /\ i > 0 => g[n + i] = Shifted(x, f, k[i])}
  <2>1. 0 \in G OBVIOUS
  <2>2. ASSUME NEW i \in Nat, i \in G PROVE i + 1 \in G
    <3> SUFFICES ASSUME i + 1 <= m PROVE g[n + (i + 1)] = Shifted(x, f, k[i + 1]) OBVIOUS
    <3>1. CASE i = 0
      <4>1. Shifted(x, f, k[1]) = [tokens |-> f, start |-> n + 2, length |-> 0]
        <5>1. f \o <<>> = f BY <1>3, ConcatEmptySeq
        <5>2. QED BY <1>9, <5>1 DEF Shifted
      <4>2. n + (i + 1) = n + 1 /\ i + 1 = 1 BY <3>1
      <4>3. QED BY <1>8, <4>1, <4>2
    <3>2. CASE i # 0
      <4> DEFINE j == i + 1
                 v == k[i]
      <4>1. /\ j \in 1 .. m /\ j - 1 = i /\ i < m /\ n + j \in 1 .. n + m /\ (n + j) - 1 = n + i
            /\ i <= m /\ i > 0
        BY <1>1, <3>2
      <4>2. g[n + i] = Shifted(x, f, v)
        <5> HIDE DEF n, m
        <5>1. QED BY <2>2, <4>1
      <4>3. g[n + j] = SplitStep(z, d, g[n + i], n + j) BY <1>5, <4>1
      <4>4. v \in States(y) /\ Within(y, d, i, v) /\ v.tokens \in Seq(Seq(C))
        BY <4>1, ScanWithin
      <4>5. k[j] = SplitStep(y, d, v, j) BY <4>1, ScanTurns
      <4> HIDE DEF j, v, k
      <4>6. SplitStep(x \o y, d, Shifted(x, f, v), Len(x) + j)
              = Shifted(x, f, SplitStep(y, d, v, j))
        BY <1>3, <4>1, <4>4, StepShifted
      <4>7. g[n + j] = Shifted(x, f, k[j]) BY <4>2, <4>3, <4>5, <4>6 DEF z
      <4>8. QED BY <4>7 DEF j
    <3>3. QED BY <3>1, <3>2
  <2> HIDE DEF G
  <2>3. \A i \in Nat : i \in G BY <2>1, <2>2, Induction
  <2>4. QED BY <2>3 DEF G
<1>11. g[n + m] = Shifted(x, f, k[m])
  <2>1. m \in Nat /\ m <= m /\ m > 0 BY <1>1
  <2>2. QED BY <1>10, <2>1, Zenon
<1>12. g[n + m].tokens = f \o k[m].tokens BY <1>11 DEF Shifted
<1>13. Split(z, d) = g[n + m].tokens BY <1>1 DEF Split, g
<1>14. QED BY <1>12, <1>13 DEF Split, f, z

LEMMA SplitOne ==
  ASSUME NEW C, NEW x \in Seq(C), NEW d, x # <<>>, \A i \in 1 .. Len(x) : x[i] \notin d
  PROVE  Split(x, d) = <<x>>
<1> DEFINE n == Len(x)
           st == Scan(x, d)[n - 1]
<1>1. n \in Nat /\ n # 0 /\ n \in 1 .. n BY EmptySeq, LenProperties
<1>2. /\ st \in States(x) /\ Within(x, d, n - 1, st)
      /\ st.tokens \in Seq(Seq(C)) /\ st.start + st.length = n
      /\ Split(x, d) = Append(st.tokens, SubSeq(x, st.start, n))
  BY <1>1, LastRun
<1>3. st.start = 1
  <2> DEFINE a == st.start
  <2>1. a \in Nat /\ 1 <= a /\ a <= n /\ (a > 1 => x[a - 1] \in d)
    BY <1>1, <1>2 DEF Within, States
  <2> HIDE DEF a, st
  <2>2. QED BY <1>1, <2>1 DEF a
<1>4. st.tokens = <<>>
  <2>1. Before(x, d, 1) = {} BY <1>1, RunFacts DEF Before
  <2>2. Len(st.tokens) = Cardinality(Before(x, d, 1)) BY <1>2, <1>3 DEF Within, Tokens
  <2>3. Len(st.tokens) = 0 BY <2>1, <2>2, FS_EmptySet
  <2> HIDE DEF st
  <2>4. QED BY <1>2, <2>3, EmptySeq
<1> HIDE DEF st
<1>5. SubSeq(x, 1, n) = x BY SubSeqFull
<1>6. Append(<<>>, x) = <<x>> OBVIOUS
<1>7. QED BY <1>2, <1>3, <1>4, <1>5, <1>6

LEMMA LeadFacts ==
  ASSUME NEW C, NEW c \in C, NEW x \in Seq(C)
  PROVE  /\ <<c>> \in Seq(C) /\ Len(<<c>>) = 1
         /\ <<c>> \o x \in Seq(C) /\ Len(<<c>> \o x) = 1 + Len(x)
         /\ (<<c>> \o x)[1] = c
         /\ \A i \in 1 .. Len(x) : (<<c>> \o x)[1 + i] = x[i]
<1> DEFINE w == <<c>>
<1>1. w \in Seq(C) /\ Len(w) = 1 /\ w[1] = c OBVIOUS
<1> HIDE DEF w
<1>2. /\ w \o x \in Seq(C) /\ Len(w \o x) = Len(w) + Len(x)
      /\ \A i \in 1 .. Len(w) : (w \o x)[i] = w[i]
      /\ \A i \in 1 .. Len(x) : (w \o x)[Len(w) + i] = x[i]
  <2>1. w \in Seq(C) /\ x \in Seq(C) BY <1>1
  <2>2. QED BY ONLY <2>1, CatFacts
<1>3. 1 \in 1 .. Len(w) BY <1>1
<1>4. (w \o x)[1] = c BY <1>1, <1>2, <1>3
<1>5. \A i \in 1 .. Len(x) : (w \o x)[1 + i] = x[i] BY <1>1, <1>2
<1>6. QED BY <1>1, <1>2, <1>4, <1>5 DEF w

\* A delimiter before a run makes no token.
LEMMA SplitLead ==
  ASSUME NEW C, NEW c \in C, NEW x \in Seq(C), NEW d, x # <<>>, c \in d,
         \A i \in 1 .. Len(x) : x[i] \notin d
  PROVE  Split(<<c>> \o x, d) = <<x>>
<1> DEFINE y == <<c>> \o x
           n == Len(y)
           m == Len(x)
           st == Scan(y, d)[n - 1]
<1>1. m \in Nat /\ m # 0 BY EmptySeq, LenProperties
<1>2. /\ y \in Seq(C) /\ n = 1 + m /\ y[1] = c
      /\ \A i \in 1 .. m : y[1 + i] = x[i]
  <2>1. QED BY LeadFacts
<1> HIDE DEF y
<1>3. y # <<>> /\ y[n] \notin d
  <2>1. n = 1 + m /\ m \in 1 .. m /\ n # 0 BY <1>1, <1>2
  <2>2. y[1 + m] = x[m] BY <1>2, <2>1
  <2>3. QED BY <1>2, <2>1, <2>2, EmptySeq
<1>4. /\ st \in States(y) /\ Within(y, d, n - 1, st)
      /\ st.tokens \in Seq(Seq(C)) /\ st.start + st.length = n
      /\ Split(y, d) = Append(st.tokens, SubSeq(y, st.start, n))
  BY <1>2, <1>3, LastRun
<1>5. \A i \in 2 .. n : y[i] \notin d
  <2> TAKE i \in 2 .. n
  <2>1. i - 1 \in 1 .. m /\ 1 + (i - 1) = i BY <1>1, <1>2
  <2>2. y[1 + (i - 1)] = x[i - 1] BY <1>2, <2>1
  <2>3. QED BY <2>1, <2>2
<1>6. st.start = 2
  <2> DEFINE a == st.start
  <2>1. /\ a \in Nat /\ 1 <= a /\ a <= n /\ (a > 1 => y[a - 1] \in d)
        /\ \A j \in a .. n - 1 : y[j] \notin d
    <3>1. n - 1 + 1 = n BY <1>1, <1>2
    <3>2. QED BY <1>4, <3>1 DEF Within, States
  <2> HIDE DEF a, st
  <2>2. a # 1
    <3>1. SUFFICES ASSUME a = 1 PROVE FALSE OBVIOUS
    <3>2. 1 \in a .. n - 1 BY <1>1, <1>2, <3>1
    <3>3. QED BY <1>2, <2>1, <3>2
  <2>3. ~(a > 2)
    <3>1. SUFFICES ASSUME a > 2 PROVE FALSE OBVIOUS
    <3>2. a - 1 \in 2 .. n BY <1>1, <1>2, <2>1, <3>1
    <3>3. QED BY <1>5, <2>1, <3>1, <3>2
  <2>4. a = 2 BY <2>1, <2>2, <2>3
  <2>5. QED BY <2>4 DEF a
<1>7. st.tokens = <<>>
  <2>1. Before(y, d, 2) = {}
    <3>1. ASSUME NEW r \in Runs(y, d) PROVE ~(r[2] < 2)
      <4>1. Len(y) \in Nat BY <1>1, <1>2
      <4>2. r[1] \in 1 .. n /\ r[2] \in 1 .. n /\ r[1] <= r[2]
            /\ \A i \in r[1] .. r[2] : y[i] \notin d
        BY <4>1, RunFacts
      <4>3. r[2] < 2 => r[1] = 1 /\ r[2] = 1 BY <4>1, <4>2
      <4>4. QED BY <1>2, <4>2, <4>3
    <3>2. QED BY <3>1 DEF Before
  <2>2. Len(st.tokens) = Cardinality(Before(y, d, 2)) BY <1>4, <1>6 DEF Within, Tokens
  <2>3. Len(st.tokens) = 0 BY <2>1, <2>2, FS_EmptySet
  <2> HIDE DEF st
  <2>4. QED BY <1>4, <2>3, EmptySeq
<1> HIDE DEF st
<1>8. SubSeq(y, 2, n) = x
  <2>1. n = Len(y) /\ \A i \in 2 .. n : y[i] \in C BY <1>1, <1>2, ElementOfSeq
  <2>2. n \in Int /\ n - 2 + 1 = m /\ 2 <= n /\ 2 \in Int BY <1>1, <1>2
  <2>3. /\ SubSeq(y, 2, n) \in Seq(C) /\ Len(SubSeq(y, 2, n)) = n - 2 + 1
        /\ \A i \in 1 .. n - 2 + 1 : SubSeq(y, 2, n)[i] = y[2 + i - 1]
    BY <2>1, <2>2, SubSeqProperties
  <2> DEFINE t == SubSeq(y, 2, n)
  <2> HIDE DEF t, n
  <2>4. t \in Seq(C) /\ Len(t) = m /\ \A i \in 1 .. m : t[i] = y[2 + i - 1]
    BY <2>2, <2>3 DEF t
  <2>5. \A i \in 1 .. m : t[i] = x[i]
    <3> TAKE i \in 1 .. m
    <3>1. 2 + i - 1 = 1 + i BY <1>1
    <3>2. QED BY <1>2, <2>4, <3>1
  <2>6. QED BY <2>4, <2>5, SeqEqual DEF t
<1>9. Append(<<>>, x) = <<x>> OBVIOUS
<1>10. QED BY <1>4, <1>6, <1>7, <1>8, <1>9 DEF y

\* A name for the blank: the provers do better without the character.
Blank == "_"

\* The blanks are left out turn by turn.
BareUpTo(s) ==
  LET upTo[i \in 0 .. Len(s)] ==
        IF i = 0 THEN <<>> ELSE IF s[i] = "_" THEN upTo[i - 1]
        ELSE Append(upTo[i - 1], s[i])
  IN  upTo

LEMMA BareTurns ==
  ASSUME NEW C, NEW s \in Seq(C)
  PROVE  /\ BareUpTo(s)[0] = <<>>
         /\ \A i \in 1 .. Len(s) :
              BareUpTo(s)[i] = IF s[i] = Blank THEN BareUpTo(s)[i - 1]
                               ELSE Append(BareUpTo(s)[i - 1], s[i])
         /\ \A i \in Nat : i <= Len(s) => BareUpTo(s)[i] \in Seq(C)
         /\ Bare(s) = BareUpTo(s)[Len(s)]
<1> DEFINE n == Len(s)
           After(v, i) == IF s[i] = Blank THEN v ELSE Append(v, s[i])
           step == [x \in Seq(C) \X (1 .. n) |-> After(x[1], x[2])]
           P(f) == f = [i \in 0 .. n |->
                          IF i = 0 THEN <<>> ELSE IF s[i] = Blank THEN f[i - 1]
                          ELSE Append(f[i - 1], s[i])]
           h == BareUpTo(s)
<1>1. n \in Nat BY LenProperties
<1>2. <<>> \in Seq(C) BY EmptySeq
<1>3. \A v \in Seq(C), i \in 1 .. n : After(v, i) \in Seq(C)
  BY ElementOfSeq, AppendProperties
<1>4. step \in Turns(Seq(C), n)
  <2> SUFFICES ASSUME NEW x \in Seq(C) \X (1 .. n) PROVE After(x[1], x[2]) \in Seq(C)
    BY DEF Turns
  <2>1. x[1] \in Seq(C) /\ x[2] \in 1 .. n OBVIOUS
  <2> HIDE DEF After
  <2>2. QED BY <1>3, <2>1
<1>5. PICK f \in [0 .. n -> Seq(C)] : Follows(f, <<>>, step, n)
  <2> DEFINE T == Seq(C)
             c == <<>>
  <2> HIDE DEF step, n, T, c
  <2>1. c \in T /\ step \in Turns(T, n) BY <1>2, <1>4 DEF c, T
  <2>2. \E f \in [0 .. n -> T] : Follows(f, c, step, n) BY <1>1, <2>1, Recursion
  <2>3. QED BY <2>2 DEF T, c
<1>6. \A i \in 1 .. n : f[i] = After(f[i - 1], i)
  <2> TAKE i \in 1 .. n
  <2>1. <<f[i - 1], i>> \in Seq(C) \X (1 .. n)
    <3>1. i - 1 \in 0 .. n BY <1>1
    <3>2. QED BY <1>5, <3>1
  <2> HIDE DEF After
  <2>2. QED BY <1>5, <2>1 DEF Follows
<1>7. P(f)
  <2>1. \A i \in 0 .. n : f[i] = IF i = 0 THEN <<>> ELSE After(f[i - 1], i)
    <3> HIDE DEF After
    <3>1. QED BY <1>1, <1>5, <1>6 DEF Follows
  <2>2. QED BY <1>5, <2>1
<1>8. h = CHOOSE g : P(g) BY DEF BareUpTo, Blank
<1>9. P(h)
  <2> HIDE DEF P, h
  <2>1. P(CHOOSE g : P(g)) BY <1>7
  <2>2. QED BY <1>8, <2>1
<1> HIDE DEF h
<1>10. h[0] = <<>> /\ \A i \in 1 .. n : h[i] = After(h[i - 1], i)
  <2>1. \A i \in 0 .. n : h[i] = IF i = 0 THEN <<>> ELSE After(h[i - 1], i) BY <1>9
  <2> HIDE DEF After
  <2>2. QED BY <1>1, <2>1
<1>11. \A i \in Nat : i <= n => h[i] \in Seq(C)
  <2> DEFINE G == {i \in Nat : i <= n => h[i] \in Seq(C)}
  <2>1. 0 \in G BY <1>2, <1>10
  <2>2. ASSUME NEW i \in Nat, i \in G PROVE i + 1 \in G
    <3> SUFFICES ASSUME i + 1 <= n PROVE h[i + 1] \in Seq(C) OBVIOUS
    <3>1. h[i] \in Seq(C) /\ i + 1 \in 1 .. n /\ (i + 1) - 1 = i BY <1>1, <2>2
    <3> HIDE DEF After
    <3>2. h[i + 1] = After(h[i], i + 1) BY <1>10, <3>1
    <3>3. QED BY <1>3, <3>1, <3>2
  <2> HIDE DEF G
  <2>3. \A i \in Nat : i \in G BY <2>1, <2>2, Induction
  <2>4. QED BY <2>3 DEF G
<1>12. Bare(s) = h[n] BY DEF Bare, BareUpTo, h
<1>13. QED BY <1>10, <1>11, <1>12 DEF h

LEMMA BareType ==
  ASSUME NEW C, NEW s \in Seq(C)
  PROVE  Bare(s) \in Seq(C)
<1>1. Len(s) \in Nat BY LenProperties
<1>2. QED BY <1>1, BareTurns

LEMMA BareEmpty == Bare(<<>>) = <<>>
<1> DEFINE e == <<>>
           C == {}
<1>1. e \in Seq(C) /\ Len(e) = 0 BY EmptySeq
<1> HIDE DEF e, C
<1>2. Bare(e) = BareUpTo(e)[Len(e)] /\ BareUpTo(e)[0] = <<>> BY <1>1, BareTurns
<1>3. Bare(e) = <<>> BY <1>1, <1>2
<1>4. QED BY <1>3 DEF e

LEMMA LastFacts ==
  ASSUME NEW C, NEW s \in Seq(C), NEW c \in C
  PROVE  /\ Append(s, c) \in Seq(C) /\ Len(Append(s, c)) = Len(s) + 1 /\ Len(s) \in Nat
         /\ \A i \in 1 .. Len(s) : Append(s, c)[i] = s[i]
         /\ Append(s, c)[Len(s) + 1] = c
BY AppendProperties, LenProperties

LEMMA BareAppend ==
  ASSUME NEW C, NEW s \in Seq(C), NEW c \in C
  PROVE  Bare(Append(s, c)) = IF c = Blank THEN Bare(s) ELSE Append(Bare(s), c)
<1> DEFINE t == Append(s, c)
           n == Len(s)
           g == BareUpTo(t)
           h == BareUpTo(s)
           G == {i \in Nat : i <= n => g[i] = h[i]}
<1>1. /\ t \in Seq(C) /\ Len(t) = n + 1 /\ n \in Nat
      /\ \A i \in 1 .. n : t[i] = s[i]
      /\ t[n + 1] = c
  BY LastFacts
<1>2. /\ h[0] = <<>>
      /\ \A i \in 1 .. n : h[i] = IF s[i] = Blank THEN h[i - 1] ELSE Append(h[i - 1], s[i])
      /\ Bare(s) = h[n]
  BY BareTurns
<1> HIDE DEF t
<1>3. /\ g[0] = <<>>
      /\ \A i \in 1 .. n + 1 : g[i] = IF t[i] = Blank THEN g[i - 1] ELSE Append(g[i - 1], t[i])
      /\ Bare(t) = g[n + 1]
  <2>1. /\ g[0] = <<>>
        /\ \A i \in 1 .. Len(t) : g[i] = IF t[i] = Blank THEN g[i - 1] ELSE Append(g[i - 1], t[i])
        /\ Bare(t) = g[Len(t)]
    BY <1>1, BareTurns
  <2>2. QED BY <1>1, <2>1, Zenon
<1> HIDE DEF g, h, n
<1>4. 0 \in G BY <1>2, <1>3
<1>5. ASSUME NEW i \in Nat, i \in G PROVE i + 1 \in G
  <2> SUFFICES ASSUME i + 1 <= n PROVE g[i + 1] = h[i + 1] OBVIOUS
  <2> DEFINE j == i + 1
  <2>1. j \in 1 .. n /\ j \in 1 .. n + 1 /\ j - 1 = i /\ i <= n BY <1>1
  <2>2. g[i] = h[i] BY <1>5, <2>1
  <2> HIDE DEF j
  <2>3. t[j] = s[j] BY <1>1, <2>1
  <2>4. g[j] = h[j] BY <1>2, <1>3, <2>1, <2>2, <2>3
  <2>5. QED BY <2>4 DEF j
<1>6. \A i \in Nat : i \in G
  <2> HIDE DEF G
  <2>1. QED BY <1>4, <1>5, Induction
<1>7. g[n] = h[n] BY <1>1, <1>6
<1>8. n + 1 \in 1 .. n + 1 /\ (n + 1) - 1 = n BY <1>1
<1>9. g[n + 1] = IF c = Blank THEN g[n] ELSE Append(g[n], c)
  <2> DEFINE j == n + 1
  <2>1. j \in 1 .. n + 1 /\ j - 1 = n /\ t[j] = c BY <1>1, <1>8
  <2>2. \A i \in 1 .. n + 1 : g[i] = IF t[i] = Blank THEN g[i - 1] ELSE Append(g[i - 1], t[i])
    BY <1>3
  <2> HIDE DEF j
  <2>3. g[j] = IF c = Blank THEN g[n] ELSE Append(g[n], c) BY <2>1, <2>2
  <2>4. QED BY <2>3 DEF j
<1>10. QED BY <1>2, <1>3, <1>7, <1>9 DEF t

LEMMA TextInduction ==
  ASSUME NEW C, NEW G, <<>> \in G,
         \A s \in Seq(C), c \in C : s \in G => Append(s, c) \in G
  PROVE  \A s \in Seq(C) : s \in G
<1> DEFINE H == {n \in Nat : \A s \in Seq(C) : Len(s) = n => s \in G}
<1>1. 0 \in H
  <2> SUFFICES ASSUME NEW s \in Seq(C), Len(s) = 0 PROVE s \in G OBVIOUS
  <2>1. s = <<>> BY EmptySeq
  <2>2. QED BY <2>1
<1>2. ASSUME NEW n \in Nat, n \in H PROVE n + 1 \in H
  <2> SUFFICES ASSUME NEW s \in Seq(C), Len(s) = n + 1 PROVE s \in G OBVIOUS
  <2>1. s # <<>> BY EmptySeq
  <2>2. PICK t \in Seq(C), c \in C : s = Append(t, c) BY <2>1, SequenceEmptyOrAppend
  <2>3. Len(s) = Len(t) + 1 /\ Len(t) \in Nat BY <2>2, LastFacts
  <2>4. Len(t) = n BY <2>3
  <2>5. t \in G BY <1>2, <2>4
  <2>6. QED BY <2>2, <2>5
<1> HIDE DEF H
<1>3. \A n \in Nat : n \in H BY <1>1, <1>2, Induction
<1>4. QED BY <1>3, LenProperties DEF H

LEMMA BareCat ==
  ASSUME NEW C, NEW x \in Seq(C), NEW y \in Seq(C)
  PROVE  Bare(x \o y) = Bare(x) \o Bare(y)
<1> DEFINE G == {s \in Seq(C) : Bare(x \o s) = Bare(x) \o Bare(s)}
<1>1. <<>> \in G
  <2>1. x \o <<>> = x BY ConcatEmptySeq
  <2>2. Bare(x) \in Seq(C) BY BareType
  <2>3. Bare(x) \o <<>> = Bare(x) BY <2>2, ConcatEmptySeq
  <2>4. QED BY <2>1, <2>3, BareEmpty, EmptySeq
<1>2. ASSUME NEW s \in Seq(C), NEW c \in C, s \in G PROVE Append(s, c) \in G
  <2>1. Append(s, c) \in Seq(C) BY AppendProperties
  <2>2. x \o Append(s, c) = Append(x \o s, c) BY CatAppend
  <2>3. x \o s \in Seq(C) BY ConcatProperties
  <2>4. Bare(Append(x \o s, c)) = IF c = Blank THEN Bare(x \o s) ELSE Append(Bare(x \o s), c)
    BY <2>3, BareAppend
  <2>5. Bare(Append(s, c)) = IF c = Blank THEN Bare(s) ELSE Append(Bare(s), c) BY BareAppend
  <2>6. Bare(x) \in Seq(C) /\ Bare(s) \in Seq(C) BY BareType
  <2>7. Bare(x) \o Append(Bare(s), c) = Append(Bare(x) \o Bare(s), c) BY <2>6, CatAppend
  <2>8. Bare(x \o s) = Bare(x) \o Bare(s) BY <1>2
  <2>9. QED BY <2>1, <2>2, <2>4, <2>5, <2>7, <2>8
<1> HIDE DEF G
<1>3. \A s \in Seq(C) : s \in G BY <1>1, <1>2, TextInduction
<1>4. QED BY <1>3 DEF G

LEMMA BareOne ==
  ASSUME NEW C, NEW c \in C
  PROVE  Bare(<<c>>) = IF c = Blank THEN <<>> ELSE <<c>>
<1> DEFINE e == <<>>
<1>1. e \in Seq(C) /\ Bare(e) = <<>> BY EmptySeq, BareEmpty
<1>2. Append(e, c) = <<c>> OBVIOUS
<1> HIDE DEF e
<1>3. Bare(Append(e, c)) = IF c = Blank THEN Bare(e) ELSE Append(Bare(e), c) BY <1>1, BareAppend
<1>4. QED BY <1>1, <1>2, <1>3 DEF e

\* A text can be cut at each character that is no blank.
\* Two texts with a character between them.
Around(x, c, y) == x \o (<<c>> \o y)

\* A text f falls into a part that bears A, the character c, and one that bears B.
Divides(C, f, A, c, B) ==
  \E x, y \in Seq(C) : f = Around(x, c, y) /\ Bare(x) = A /\ Bare(y) = B

LEMMA Cut ==
  ASSUME NEW C, NEW A \in Seq(C), NEW c \in C, c # Blank, NEW B \in Seq(C),
         NEW f \in Seq(C), Bare(f) = Around(A, c, B)
  PROVE  Divides(C, f, A, c, B)
<1> DEFINE p == <<c>>
<1> DEFINE Cuts(s, D) == \E x, y \in Seq(C) : s = x \o (p \o y) /\ Bare(x) = A /\ Bare(y) = D
           G == {s \in Seq(C) : \A D \in Seq(C) : Bare(s) = A \o (p \o D) => Cuts(s, D)}
<1> HIDE DEF p
<1>1. Bare(f) = A \o (p \o B) BY DEF Around, p
<1>2. \A D \in Seq(C) : /\ p \in Seq(C) /\ p \o D \in Seq(C)
                        /\ A \o (p \o D) \in Seq(C) /\ A \o (p \o D) # <<>>
  <2> TAKE D \in Seq(C)
  <2>1. /\ p \in Seq(C) /\ p \o D \in Seq(C) /\ Len(p \o D) = 1 + Len(D)
    BY LeadFacts DEF p
  <2>2. Len(A) \in Nat /\ Len(D) \in Nat BY LenProperties
  <2>3. /\ A \o (p \o D) \in Seq(C)
        /\ Len(A \o (p \o D)) = Len(A) + Len(p \o D)
    BY <2>1, ConcatProperties
  <2>4. Len(A \o (p \o D)) # 0 BY <2>1, <2>2, <2>3
  <2>5. QED BY <2>1, <2>3, <2>4, EmptySeq
<1>3. <<>> \in G BY <1>2, BareEmpty, EmptySeq
<1>4. ASSUME NEW s \in Seq(C), NEW e \in C, s \in G PROVE Append(s, e) \in G
  <2>1. Append(s, e) \in Seq(C) BY AppendProperties
  <2> SUFFICES ASSUME NEW D \in Seq(C), Bare(Append(s, e)) = A \o (p \o D)
      PROVE  Cuts(Append(s, e), D)
    BY <2>1
  <2>2. Bare(Append(s, e)) = IF e = Blank THEN Bare(s) ELSE Append(Bare(s), e) BY BareAppend
  <2>3. ASSUME NEW x \in Seq(C), NEW y \in Seq(C), s = x \o (p \o y)
        PROVE  Append(s, e) = x \o (p \o Append(y, e)) /\ Append(y, e) \in Seq(C)
    <3>1. p \in Seq(C) /\ p \o y \in Seq(C) BY <1>2
    <3>2. p \o Append(y, e) = Append(p \o y, e) BY <3>1, CatAppend
    <3> DEFINE w == p \o y
    <3>3. x \in Seq(C) /\ w \in Seq(C) /\ e \in C BY <3>1
    <3> HIDE DEF w
    <3>4. x \o Append(w, e) = Append(x \o w, e) BY ONLY <3>3, CatAppend
    <3>5. x \o Append(p \o y, e) = Append(x \o (p \o y), e) BY <3>4 DEF w
    <3>6. QED BY <2>3, <3>2, <3>5, AppendProperties
  <2>4. CASE e = Blank
    <3>1. Cuts(s, D) BY <1>4, <2>2, <2>4
    <3>2. PICK x \in Seq(C), y \in Seq(C) :
            s = x \o (p \o y) /\ Bare(x) = A /\ Bare(y) = D
      BY <3>1
    <3>3. Bare(Append(y, e)) = D BY <2>4, <3>2, BareAppend
    <3>4. QED BY <2>3, <3>2, <3>3
  <2>5. CASE e # Blank /\ D = <<>>
    <3>1. p \o D = p BY <1>2, <2>5, ConcatEmptySeq
    <3>2. A \o p = Append(A, c) BY AppendIsConcat DEF p
    <3>3. Append(Bare(s), e) = Append(A, c) BY <2>2, <2>5, <3>1, <3>2
    <3>4. Bare(s) = A /\ e = c BY <3>3, BareType, AppendInjective
    <3>5. Append(s, e) = s \o (p \o <<>>)
      <4>1. p \o <<>> = p BY <1>2, ConcatEmptySeq
      <4>2. s \o p = Append(s, c) BY AppendIsConcat DEF p
      <4>3. QED BY <3>4, <4>1, <4>2
    <3>6. <<>> \in Seq(C) BY EmptySeq
    <3>7. QED BY <2>5, <3>4, <3>5, <3>6, BareEmpty
  <2>6. CASE e # Blank /\ D # <<>>
    <3>1. PICK E \in Seq(C), b \in C : D = Append(E, b) BY <2>6, SequenceEmptyOrAppend
    <3>2. p \in Seq(C) /\ p \o E \in Seq(C) /\ A \o (p \o E) \in Seq(C) BY <1>2
    <3>3. p \o D = Append(p \o E, b) BY <3>1, <3>2, CatAppend
    <3> DEFINE q == p \o E
               r == A \o q
    <3> HIDE DEF q, r
    <3>4. q \in Seq(C) /\ r \in Seq(C) /\ p \o D = Append(q, b)
      BY <3>2, <3>3 DEF q, r
    <3>5. A \in Seq(C) /\ q \in Seq(C) /\ b \in C BY <3>4
    <3>6. A \o Append(q, b) = Append(A \o q, b) BY ONLY <3>5, CatAppend
    <3>7. Append(Bare(s), e) = Append(r, b) BY <2>2, <2>6, <3>4, <3>6 DEF r
    <3>8. Bare(s) \in Seq(C) BY BareType
    <3>9. Bare(s) = r /\ e = b BY <3>4, <3>7, <3>8, AppendInjective
    <3>10. Bare(s) = A \o (p \o E) /\ e = b BY <3>9 DEF q, r
    <3>11. PICK x \in Seq(C), y \in Seq(C) :
            s = x \o (p \o y) /\ Bare(x) = A /\ Bare(y) = E
      BY <1>4, <3>10
    <3>12. Bare(Append(y, e)) = D BY <2>6, <3>1, <3>10, <3>11, BareAppend
    <3>13. QED BY <2>3, <3>11, <3>12
  <2>7. QED BY <2>4, <2>5, <2>6
<1> HIDE DEF G
<1>5. \A s \in Seq(C) : s \in G BY <1>3, <1>4, TextInduction
<1>6. Cuts(f, B) BY <1>1, <1>5 DEF G
<1>7. QED BY <1>6 DEF Divides, Around, p

\* A character that is no blank stays.
LEMMA BareChars ==
  ASSUME NEW C, NEW s \in Seq(C), NEW i \in 1 .. Len(s), s[i] # Blank
  PROVE  \E j \in 1 .. Len(Bare(s)) : Bare(s)[j] = s[i]
<1> DEFINE Stays(t) == \A k \in 1 .. Len(t) : t[k] # Blank =>
                         \E j \in 1 .. Len(Bare(t)) : Bare(t)[j] = t[k]
           G == {t \in Seq(C) : Stays(t)}
<1>1. <<>> \in G
  <2>1. <<>> \in Seq(C) /\ Len(<<>>) = 0 BY EmptySeq
  <2>2. 1 .. Len(<<>>) = {} BY <2>1
  <2>3. Stays(<<>>) BY <2>2, Zenon
  <2>4. QED BY <2>1, <2>3
<1>2. ASSUME NEW t \in Seq(C), NEW c \in C, t \in G PROVE Append(t, c) \in G
  <2> DEFINE u == Append(t, c)
             b == Bare(t)
  <2>1. /\ u \in Seq(C) /\ Len(u) = Len(t) + 1 /\ Len(t) \in Nat
        /\ \A k \in 1 .. Len(t) : u[k] = t[k]
        /\ u[Len(t) + 1] = c
    BY LastFacts
  <2>2. Bare(u) = IF c = Blank THEN b ELSE Append(b, c) BY BareAppend
  <2>3. b \in Seq(C) BY BareType
  <2> HIDE DEF b
  <2>4. /\ Len(Append(b, c)) = Len(b) + 1 /\ Len(b) \in Nat
        /\ \A k \in 1 .. Len(b) : Append(b, c)[k] = b[k]
        /\ Append(b, c)[Len(b) + 1] = c
    BY <2>3, LastFacts
  <2>5. Stays(t) BY <1>2
  <2> HIDE DEF u
  <2>6. ASSUME NEW k \in 1 .. Len(u), u[k] # Blank
        PROVE  \E j \in 1 .. Len(Bare(u)) : Bare(u)[j] = u[k]
    <3>1. CASE k = Len(t) + 1
      <4>1. u[k] = c BY <2>1, <3>1
      <4>2. Bare(u) = Append(b, c) BY <2>2, <2>6, <4>1
      <4>3. Len(b) + 1 \in 1 .. Len(Bare(u)) BY <2>4, <4>2
      <4>4. Bare(u)[Len(b) + 1] = u[k] BY <2>4, <4>1, <4>2
      <4>5. QED BY <4>3, <4>4
    <3>2. CASE k # Len(t) + 1
      <4>1. k \in 1 .. Len(t) /\ u[k] = t[k] BY <2>1, <3>2
      <4>2. PICK j \in 1 .. Len(b) : b[j] = t[k] BY <2>5, <2>6, <4>1 DEF b
      <4>3. j \in 1 .. Len(Bare(u)) /\ Bare(u)[j] = b[j]
        <5>1. CASE c = Blank BY <2>2, <5>1
        <5>2. CASE c # Blank
          <6>1. Bare(u) = Append(b, c) BY <2>2, <5>2
          <6>2. QED BY <2>4, <6>1
        <5>3. QED BY <5>1, <5>2
      <4>4. QED BY <4>1, <4>2, <4>3
    <3>3. QED BY <3>1, <3>2
  <2>7. QED BY <2>1, <2>6 DEF u
<1> HIDE DEF G
<1>3. \A t \in Seq(C) : t \in G BY <1>1, <1>2, TextInduction
<1>4. QED BY <1>3 DEF G

LEMMA BareWithin ==
  ASSUME NEW C, NEW s \in Seq(C), NEW K,
         \A j \in 1 .. Len(Bare(s)) : Bare(s)[j] \in K
  PROVE  \A i \in 1 .. Len(s) : s[i] # Blank => s[i] \in K
BY BareChars

LEMMA FirstAndRest ==
  ASSUME NEW C, NEW s \in Seq(C), s # <<>>
  PROVE  \E y \in Seq(C) : s[1] \in C /\ s = <<s[1]>> \o y
<1>1. Len(s) \in Nat /\ Len(s) # 0 BY EmptySeq, LenProperties
<1>2. 1 \in 1 .. Len(s) /\ Len(s) \in 1 .. Len(s) BY <1>1
<1>3. SubSeq(s, 1, Len(s)) = <<s[1]>> \o SubSeq(s, 1 + 1, Len(s))
  BY <1>2, SubSeqRecursiveFirst
<1>4. SubSeq(s, 1, Len(s)) = s BY SubSeqFull
<1>5. SubSeq(s, 1 + 1, Len(s)) \in Seq(C)
  <2>1. 1 + 1 \in Int /\ Len(s) \in Int /\ 1 <= 1 + 1 /\ Len(s) <= Len(s) BY <1>1
  <2>2. QED BY <2>1, PartType
<1>6. s[1] \in C BY <1>2, ElementOfSeq
<1>7. QED BY <1>3, <1>4, <1>5, <1>6

LEMMA BareLead ==
  ASSUME NEW C, NEW c \in C, NEW y \in Seq(C)
  PROVE  Bare(<<c>> \o y) = IF c = Blank THEN Bare(y) ELSE <<c>> \o Bare(y)
<1> DEFINE p == <<c>>
<1>1. p \in Seq(C) BY LeadFacts
<1>2. Bare(p) = IF c = Blank THEN <<>> ELSE p BY BareOne
<1> HIDE DEF p
<1>3. Bare(p \o y) = Bare(p) \o Bare(y) BY <1>1, BareCat
<1>4. Bare(y) \in Seq(C) BY BareType
<1>5. <<>> \o Bare(y) = Bare(y) BY <1>4, ConcatEmptySeq
<1>6. Bare(p \o y) = IF c = Blank THEN Bare(y) ELSE p \o Bare(y) BY <1>2, <1>3, <1>5
<1>7. QED BY <1>6 DEF p

LEMMA BareFirst ==
  ASSUME NEW C, NEW s \in Seq(C), s # <<>>, s[1] # Blank
  PROVE  Bare(s) # <<>> /\ Bare(s)[1] = s[1]
<1>1. PICK y \in Seq(C) : s[1] \in C /\ s = <<s[1]>> \o y BY FirstAndRest
<1> DEFINE c == s[1]
           b == Bare(y)
<1>2. Bare(s) = <<c>> \o b BY <1>1, BareLead
<1>3. b \in Seq(C) /\ c \in C BY <1>1, BareType
<1> HIDE DEF b, c
<1>4. Len(<<c>> \o b) = 1 + Len(b) /\ (<<c>> \o b)[1] = c /\ <<c>> \o b \in Seq(C)
  BY <1>3, LeadFacts
<1>5. Len(b) \in Nat BY <1>3, LenProperties
<1>6. Len(<<c>> \o b) # 0 BY <1>4, <1>5
<1>7. <<c>> \o b # <<>> BY <1>6, EmptySeq
<1>8. QED BY <1>2, <1>4, <1>7 DEF c

LEMMA BareLast ==
  ASSUME NEW C, NEW s \in Seq(C), s # <<>>, s[Len(s)] # Blank
  PROVE  Bare(s) # <<>> /\ Bare(s)[Len(Bare(s))] = s[Len(s)]
<1>1. PICK t \in Seq(C), c \in C : s = Append(t, c) BY SequenceEmptyOrAppend
<1>2. s[Len(s)] = c BY <1>1, LastFacts
<1> DEFINE b == Bare(t)
<1>3. Bare(s) = Append(b, c) BY <1>1, <1>2, BareAppend
<1>4. b \in Seq(C) BY BareType
<1> HIDE DEF b
<1>5. Append(b, c) # <<>> /\ Append(b, c)[Len(Append(b, c))] = c
  BY <1>4, AppendProperties
<1>6. QED BY <1>2, <1>3, <1>5

LEMMA NoBlanks ==
  ASSUME NEW C, NEW s \in Seq(C), s # <<>>, Bare(s) = <<>>
  PROVE  s[1] = Blank
BY BareFirst

\* What is around a text, all of it to be trimmed, is.
LEMMA TrimCore ==
  ASSUME NEW C, NEW x \in Seq(C), NEW w \in Seq(C), NEW y \in Seq(C), NEW charset,
         w # <<>>, w[1] \notin charset, w[Len(w)] \notin charset,
         \A i \in 1 .. Len(x) : x[i] \in charset, \A i \in 1 .. Len(y) : y[i] \in charset
  PROVE  Trim(x \o (w \o y), charset) = w
<1> DEFINE v == w \o y
           s == x \o v
           a == Len(x)
           b == Len(w)
           e == Len(y)
<1>1. a \in Nat /\ b \in Nat /\ e \in Nat /\ b # 0 BY EmptySeq, LenProperties
<1>2. /\ v \in Seq(C) /\ Len(v) = b + e
      /\ \A i \in 1 .. b : v[i] = w[i]
      /\ \A i \in 1 .. e : v[b + i] = y[i]
  BY CatFacts
<1> HIDE DEF v
<1>3. /\ s \in Seq(C) /\ Len(s) = a + (b + e)
      /\ \A i \in 1 .. a : s[i] = x[i]
      /\ \A i \in 1 .. b + e : s[a + i] = v[i]
  <2>1. x \in Seq(C) /\ v \in Seq(C) BY <1>2
  <2>2. /\ x \o v \in Seq(C) /\ Len(x \o v) = Len(x) + Len(v)
        /\ \A i \in 1 .. Len(x) : (x \o v)[i] = x[i]
        /\ \A i \in 1 .. Len(v) : (x \o v)[Len(x) + i] = v[i]
    BY ONLY <2>1, CatFacts
  <2>3. QED BY <1>2, <2>2
<1> HIDE DEF s, a, b, e
<1>4. DOMAIN s = 1 .. Len(s) /\ Len(s) \in Nat BY <1>3, LenProperties
<1>5. a + 1 \in 1 .. Len(s) /\ a + b \in 1 .. Len(s) BY <1>1, <1>3
<1>6. s[a + 1] \notin charset /\ s[a + b] \notin charset
  <2>1. 1 \in 1 .. b /\ b \in 1 .. b /\ 1 \in 1 .. b + e /\ b \in 1 .. b + e BY <1>1
  <2>2. s[a + 1] = v[1] /\ s[a + b] = v[b] BY <1>3, <2>1
  <2>3. v[1] = w[1] /\ v[b] = w[b] BY <1>2, <2>1
  <2>4. QED BY <2>2, <2>3 DEF b
<1>7. ASSUME NEW i \in 1 .. Len(s), s[i] \notin charset PROVE a + 1 <= i /\ i <= a + b
  <2>1. ~(i <= a)
    <3>1. SUFFICES ASSUME i <= a PROVE FALSE OBVIOUS
    <3>2. i \in 1 .. a BY <1>1, <1>4, <3>1
    <3>3. s[i] \in charset BY <1>3, <3>2 DEF a
    <3>4. QED BY <1>7, <3>3
  <2>2. ~(a + b < i)
    <3>1. SUFFICES ASSUME a + b < i PROVE FALSE OBVIOUS
    <3> DEFINE j == i - a - b
    <3>2. j \in 1 .. e /\ b + j \in 1 .. b + e /\ a + (b + j) = i BY <1>1, <1>3, <3>1
    <3> HIDE DEF j
    <3>3. s[a + (b + j)] = v[b + j] /\ v[b + j] = y[j] BY <1>2, <1>3, <3>2
    <3>4. y[j] \in charset BY <3>2 DEF e
    <3>5. QED BY <1>7, <3>2, <3>3, <3>4
  <2>3. QED BY <1>1, <1>4, <2>1, <2>2
<1>8. Trim(s, charset) = SubSeq(s, a + 1, a + b) BY <1>4, <1>5, <1>6, <1>7, TrimIs
<1>9. SubSeq(s, a + 1, a + b) = SubSeq(v, 1, b)
  <2>1. b \in Int /\ b <= Len(v) BY <1>1, <1>2
  <2>2. QED BY <1>2, <2>1, PartOfSecond DEF s, a
<1>10. SubSeq(v, 1, b) = SubSeq(w, 1, b)
  <2>1. b \in Int /\ b <= Len(w) BY <1>1 DEF b
  <2>2. QED BY <2>1, PartOfFirst DEF v
<1>11. SubSeq(w, 1, b) = w BY SubSeqFull DEF b
<1>12. QED BY <1>8, <1>9, <1>10, <1>11 DEF s, v

-----------------------------------------------------------------------------
CountOf(s, c) == Cardinality({j \in 1 .. Len(s) : s[j] = c})

LEMMA CountFinite ==
  ASSUME NEW n \in Nat, NEW s, NEW c
  PROVE  /\ IsFiniteSet({j \in 1 .. n : s[j] = c})
         /\ Cardinality({j \in 1 .. n : s[j] = c}) \in Nat
<1>1. IsFiniteSet(1 .. n) BY FS_Interval
<1>2. {j \in 1 .. n : s[j] = c} \in SUBSET (1 .. n) OBVIOUS
<1>3. IsFiniteSet({j \in 1 .. n : s[j] = c}) BY <1>1, <1>2, FS_Subset
<1>4. QED BY <1>3, FS_CardinalityType

LEMMA CountAppend ==
  ASSUME NEW C, NEW s \in Seq(C), NEW e \in C, NEW c
  PROVE  /\ CountOf(Append(s, e), c) = CountOf(s, c) + IF e = c THEN 1 ELSE 0
         /\ CountOf(s, c) \in Nat
<1> DEFINE t == Append(s, e)
           n == Len(s)
           S == {j \in 1 .. n : s[j] = c}
           T == {j \in 1 .. Len(t) : t[j] = c}
<1>1. /\ t \in Seq(C) /\ Len(t) = n + 1 /\ n \in Nat
      /\ \A i \in 1 .. n : t[i] = s[i]
      /\ t[n + 1] = e
  BY LastFacts
<1>2. IsFiniteSet(S) /\ Cardinality(S) \in Nat BY <1>1, CountFinite
<1> HIDE DEF t, n
<1>3. T = IF e = c THEN S \cup {n + 1} ELSE S
  <2>1. \A j \in 1 .. n + 1 : j \in 1 .. n \/ j = n + 1 BY <1>1
  <2>2. \A j \in 1 .. n : j \in 1 .. n + 1 /\ j # n + 1 BY <1>1
  <2>3. n + 1 \in 1 .. n + 1 BY <1>1
  <2>4. QED BY <1>1, <2>1, <2>2, <2>3
<1>4. n + 1 \notin S BY <1>1
<1> HIDE DEF S, T
<1>5. e = c => Cardinality(T) = Cardinality(S) + 1 BY <1>2, <1>3, <1>4, FS_AddElement
<1>6. e # c => Cardinality(T) = Cardinality(S) BY <1>3
<1>7. Cardinality(T) = Cardinality(S) + IF e = c THEN 1 ELSE 0 BY <1>2, <1>5, <1>6
<1>8. QED BY <1>2, <1>7 DEF CountOf, S, T, t, n

LEMMA CountEmpty == ASSUME NEW c PROVE CountOf(<<>>, c) = 0
<1>1. Len(<<>>) = 0 OBVIOUS
<1>2. {j \in 1 .. Len(<<>>) : <<>>[j] = c} = {} BY <1>1
<1>3. QED BY <1>2, FS_EmptySet DEF CountOf

LEMMA CountType ==
  ASSUME NEW C, NEW s \in Seq(C), NEW c
  PROVE  CountOf(s, c) \in Nat
<1>1. Len(s) \in Nat BY LenProperties
<1>2. QED BY <1>1, CountFinite DEF CountOf

LEMMA CountBare ==
  ASSUME NEW C, NEW s \in Seq(C), NEW c, c # Blank
  PROVE  CountOf(Bare(s), c) = CountOf(s, c)
<1> DEFINE G == {t \in Seq(C) : CountOf(Bare(t), c) = CountOf(t, c)}
<1>1. <<>> \in G BY BareEmpty, EmptySeq
<1>2. ASSUME NEW t \in Seq(C), NEW e \in C, t \in G PROVE Append(t, e) \in G
  <2>1. Append(t, e) \in Seq(C) BY AppendProperties
  <2>2. CountOf(Append(t, e), c) = CountOf(t, c) + IF e = c THEN 1 ELSE 0 BY CountAppend
  <2> DEFINE b == Bare(t)
  <2>3. Bare(Append(t, e)) = IF e = Blank THEN b ELSE Append(b, e) BY BareAppend
  <2>4. b \in Seq(C) BY BareType
  <2> HIDE DEF b
  <2>5. CountOf(Append(b, e), c) = CountOf(b, c) + IF e = c THEN 1 ELSE 0 BY <2>4, CountAppend
  <2>6. CountOf(b, c) = CountOf(t, c) BY <1>2 DEF b
  <2>7. CountOf(t, c) \in Nat BY CountType
  <2>8. CountOf(Bare(Append(t, e)), c) = CountOf(Append(t, e), c)
    BY <2>2, <2>3, <2>5, <2>6, <2>7
  <2>9. QED BY <2>1, <2>8
<1> HIDE DEF G
<1>3. \A t \in Seq(C) : t \in G BY <1>1, <1>2, TextInduction
<1>4. QED BY <1>3 DEF G

LEMMA CountCat ==
  ASSUME NEW C, NEW x \in Seq(C), NEW y \in Seq(C), NEW c
  PROVE  CountOf(x \o y, c) = CountOf(x, c) + CountOf(y, c)
<1> DEFINE G == {t \in Seq(C) : CountOf(x \o t, c) = CountOf(x, c) + CountOf(t, c)}
<1>1. CountOf(x, c) \in Nat BY CountType
<1>2. <<>> \in G
  <2>1. x \o <<>> = x BY ConcatEmptySeq
  <2>2. QED BY <1>1, <2>1, CountEmpty, EmptySeq
<1>3. ASSUME NEW t \in Seq(C), NEW e \in C, t \in G PROVE Append(t, e) \in G
  <2>1. Append(t, e) \in Seq(C) BY AppendProperties
  <2>2. CountOf(Append(t, e), c) = CountOf(t, c) + IF e = c THEN 1 ELSE 0 BY CountAppend
  <2>3. x \o Append(t, e) = Append(x \o t, e) BY CatAppend
  <2> DEFINE b == x \o t
  <2>4. b \in Seq(C) BY ConcatProperties
  <2>5. CountOf(b, c) = CountOf(x, c) + CountOf(t, c) BY <1>3
  <2> HIDE DEF b
  <2>6. CountOf(Append(b, e), c) = CountOf(b, c) + IF e = c THEN 1 ELSE 0 BY <2>4, CountAppend
  <2>7. CountOf(t, c) \in Nat BY CountType
  <2>8. CountOf(Append(b, e), c) = CountOf(x, c) + CountOf(Append(t, e), c)
    BY <1>1, <2>2, <2>5, <2>6, <2>7
  <2>9. QED BY <2>1, <2>3, <2>8 DEF b
<1> HIDE DEF G
<1>4. \A t \in Seq(C) : t \in G BY <1>2, <1>3, TextInduction
<1>5. QED BY <1>4 DEF G

LEMMA CountOne ==
  ASSUME NEW C, NEW e \in C, NEW c
  PROVE  CountOf(<<e>>, c) = IF e = c THEN 1 ELSE 0
<1> DEFINE z == <<>>
<1>1. z \in Seq(C) /\ CountOf(z, c) = 0 BY EmptySeq, CountEmpty
<1>2. Append(z, e) = <<e>> OBVIOUS
<1> HIDE DEF z
<1>3. CountOf(Append(z, e), c) = CountOf(z, c) + IF e = c THEN 1 ELSE 0 BY <1>1, CountAppend
<1>4. QED BY <1>1, <1>2, <1>3

\* A character that does not occur.
LEMMA CountNone ==
  ASSUME NEW C, NEW s \in Seq(C), NEW c, \A i \in 1 .. Len(s) : s[i] # c
  PROVE  CountOf(s, c) = 0
<1>1. {j \in 1 .. Len(s) : s[j] = c} = {} OBVIOUS
<1>2. QED BY <1>1, FS_EmptySet DEF CountOf

\* Names for the characters, for the same reason.
Opening == "{"
Closing == "}"
Left    == "["
Right   == "]"
Colon   == ":"
Comma   == ","
Data    == "data"
Names   == {"vlan", "src-ip", "cur-state"}
Words   == Names \cup {"7", "ip", "fin"}
Signs   == Byte \cup Words \cup {Blank, Opening, Closing, Left, Right, Colon, Comma, Data, Tab}

LEMMA Distinct ==
  /\ Words \cap {Blank, Opening, Closing, Left, Right, Colon, Comma, Data, Tab, Nul} = {}
  /\ Blank \notin {Opening, Closing, Left, Right, Colon, Comma, Data, Tab, Nul}
  /\ Opening \notin {Closing, Left, Right, Colon, Comma, Data, Tab, Nul}
  /\ Closing \notin {Left, Right, Colon, Comma, Data, Tab, Nul}
  /\ Left \notin {Right, Colon, Comma, Data, Tab, Nul}
  /\ Right \notin {Colon, Comma, Data, Tab, Nul}
  /\ Colon \notin {Comma, Data, Tab, Nul}
  /\ Comma \notin {Data, Tab, Nul}
  /\ Data \notin {Tab, Nul}
  /\ "?" \notin {Left, Right}
BY DEF Words, Names, Blank, Opening, Closing, Left, Right, Colon, Comma, Data, Tab, Nul

LEMMA SignFacts ==
  /\ Words \subseteq Signs /\ Names \subseteq Words /\ Byte \subseteq Signs
  /\ Blank \in Signs /\ Opening \in Signs /\ Closing \in Signs /\ Left \in Signs
  /\ Right \in Signs /\ Colon \in Signs /\ Comma \in Signs /\ Data \in Signs /\ Tab \in Signs
BY DEF Words, Signs

LEMMA CatAssoc ==
  ASSUME NEW C, NEW u \in Seq(C), NEW v \in Seq(C), NEW w \in Seq(C)
  PROVE  (u \o v) \o w = u \o (v \o w)
BY ConcatAssociative

\* The parts are joined turn by turn.
JoinedUpTo(parts) ==
  LET upTo[i \in 0 .. Len(parts)] ==
        IF i = 0 THEN <<>> ELSE IF i = 1 THEN parts[1]
        ELSE upTo[i - 1] \o <<",">> \o parts[i]
  IN  upTo

LEMMA JoinedTurns ==
  ASSUME NEW parts \in Seq(Seq(Signs))
  PROVE  /\ 0 < Len(parts) => JoinedUpTo(parts)[1] = parts[1]
         /\ \A i \in 2 .. Len(parts) :
              JoinedUpTo(parts)[i] = JoinedUpTo(parts)[i - 1] \o (<<Comma>> \o parts[i])
         /\ \A i \in Nat : i <= Len(parts) => JoinedUpTo(parts)[i] \in Seq(Signs)
         /\ Joined(parts) = JoinedUpTo(parts)[Len(parts)]
<1> DEFINE n == Len(parts)
           p == <<Comma>>
           After(v, i) == IF i = 1 THEN parts[1] ELSE v \o p \o parts[i]
           step == [x \in Seq(Signs) \X (1 .. n) |-> After(x[1], x[2])]
           P(f) == f = [i \in 0 .. n |->
                          IF i = 0 THEN <<>> ELSE IF i = 1 THEN parts[1]
                          ELSE f[i - 1] \o p \o parts[i]]
           h == JoinedUpTo(parts)
<1>1. n \in Nat BY LenProperties
<1>2. <<>> \in Seq(Signs) /\ p \in Seq(Signs)
  BY EmptySeq, SignFacts
<1>3. h = CHOOSE g : P(g) BY DEF JoinedUpTo, Comma
<1>4. Joined(parts) = h[n] BY DEF Joined, JoinedUpTo, h
<1> HIDE DEF p, h
<1>5. \A v \in Seq(Signs), i \in 1 .. n : After(v, i) \in Seq(Signs)
  <2> TAKE v \in Seq(Signs), i \in 1 .. n
  <2>1. parts[i] \in Seq(Signs) /\ (i = 1 => parts[1] \in Seq(Signs)) BY ElementOfSeq
  <2>2. v \o p \in Seq(Signs) BY <1>2, ConcatProperties
  <2>3. (v \o p) \o parts[i] \in Seq(Signs) BY <2>1, <2>2, ConcatProperties
  <2>4. QED BY <2>1, <2>3
<1>6. step \in Turns(Seq(Signs), n)
  <2> SUFFICES ASSUME NEW x \in Seq(Signs) \X (1 .. n) PROVE After(x[1], x[2]) \in Seq(Signs)
    BY DEF Turns
  <2>1. x[1] \in Seq(Signs) /\ x[2] \in 1 .. n OBVIOUS
  <2> HIDE DEF After
  <2>2. QED BY <1>5, <2>1
<1>7. PICK f \in [0 .. n -> Seq(Signs)] : Follows(f, <<>>, step, n)
  <2> DEFINE T == Seq(Signs)
             c == <<>>
  <2> HIDE DEF step, n, T, c
  <2>1. c \in T /\ step \in Turns(T, n) BY <1>2, <1>6 DEF c, T
  <2>2. \E f \in [0 .. n -> T] : Follows(f, c, step, n) BY <1>1, <2>1, Recursion
  <2>3. QED BY <2>2 DEF T, c
<1>8. \A i \in 1 .. n : f[i] = After(f[i - 1], i)
  <2> TAKE i \in 1 .. n
  <2>1. <<f[i - 1], i>> \in Seq(Signs) \X (1 .. n)
    <3>1. i - 1 \in 0 .. n BY <1>1
    <3>2. QED BY <1>7, <3>1
  <2> HIDE DEF After
  <2>2. QED BY <1>7, <2>1 DEF Follows
<1>9. P(f)
  <2>1. \A i \in 0 .. n : f[i] = IF i = 0 THEN <<>> ELSE After(f[i - 1], i)
    <3> HIDE DEF After
    <3>1. QED BY <1>1, <1>7, <1>8 DEF Follows
  <2>2. QED BY <1>7, <2>1
<1>10. P(h)
  <2> HIDE DEF P, h
  <2>1. P(CHOOSE g : P(g)) BY <1>9
  <2>2. QED BY <1>3, <2>1
<1>11. h[0] = <<>> /\ \A i \in 1 .. n : h[i] = After(h[i - 1], i)
  <2>1. \A i \in 0 .. n : h[i] = IF i = 0 THEN <<>> ELSE After(h[i - 1], i) BY <1>10
  <2> HIDE DEF After
  <2>2. QED BY <1>1, <2>1
<1>12. \A i \in Nat : i <= n => h[i] \in Seq(Signs)
  <2> DEFINE G == {i \in Nat : i <= n => h[i] \in Seq(Signs)}
  <2>1. 0 \in G BY <1>2, <1>11
  <2>2. ASSUME NEW i \in Nat, i \in G PROVE i + 1 \in G
    <3> SUFFICES ASSUME i + 1 <= n PROVE h[i + 1] \in Seq(Signs) OBVIOUS
    <3>1. h[i] \in Seq(Signs) /\ i + 1 \in 1 .. n /\ (i + 1) - 1 = i BY <1>1, <2>2
    <3> HIDE DEF After
    <3>2. h[i + 1] = After(h[i], i + 1) BY <1>11, <3>1
    <3>3. QED BY <1>5, <3>1, <3>2
  <2> HIDE DEF G
  <2>3. \A i \in Nat : i \in G BY <2>1, <2>2, Induction
  <2>4. QED BY <2>3 DEF G
<1>13. 0 < n => h[1] = parts[1]
  <2> SUFFICES ASSUME 0 < n PROVE h[1] = parts[1] OBVIOUS
  <2>1. 1 \in 1 .. n BY <1>1
  <2>2. QED BY <1>11, <2>1
<1>14. \A i \in 2 .. n : h[i] = h[i - 1] \o (p \o parts[i])
  <2> TAKE i \in 2 .. n
  <2>1. i \in 1 .. n /\ i # 1 /\ i - 1 \in Nat /\ i - 1 <= n BY <1>1
  <2>2. h[i] = (h[i - 1] \o p) \o parts[i] BY <1>11, <2>1
  <2>3. h[i - 1] \in Seq(Signs) /\ parts[i] \in Seq(Signs) BY <1>12, <2>1, ElementOfSeq
  <2> DEFINE u == h[i - 1]
             w == parts[i]
  <2> HIDE DEF u, w, n, P, step, After
  <2>4. u \in Seq(Signs) /\ p \in Seq(Signs) /\ w \in Seq(Signs) BY <1>2, <2>3 DEF u, w
  <2>5. (u \o p) \o w = u \o (p \o w) BY ONLY <2>4, CatAssoc
  <2>6. QED BY <2>2, <2>5 DEF u, w
<1>15. QED BY <1>12, <1>4, <1>13, <1>14 DEF h, p

LEMMA CatEnds ==
  ASSUME NEW C, NEW u \in Seq(C), NEW v \in Seq(C), v # <<>>
  PROVE  /\ u \o v # <<>> /\ (u \o v)[Len(u \o v)] = v[Len(v)]
         /\ u # <<>> => (u \o v)[1] = u[1]
         /\ \A K : /\ \A i \in 1 .. Len(u) : u[i] \in K
                   /\ \A i \in 1 .. Len(v) : v[i] \in K
                   => \A i \in 1 .. Len(u \o v) : (u \o v)[i] \in K
<1> DEFINE z == u \o v
           a == Len(u)
           b == Len(v)
<1>1. /\ a \in Nat /\ b \in Nat /\ z \in Seq(C) /\ Len(z) = a + b
      /\ \A i \in 1 .. a : z[i] = u[i]
      /\ \A i \in 1 .. b : z[a + i] = v[i]
  BY CatFacts
<1>2. b # 0 /\ (u # <<>> => a # 0) BY EmptySeq
<1> HIDE DEF z, a, b
<1>3. Len(z) # 0 BY <1>1, <1>2
<1>4. z # <<>> BY <1>3, EmptySeq
<1>5. z[Len(z)] = v[b]
  <2>1. b \in 1 .. b BY <1>1, <1>2
  <2>2. QED BY <1>1, <2>1
<1>6. u # <<>> => z[1] = u[1]
  <2> SUFFICES ASSUME u # <<>> PROVE z[1] = u[1] OBVIOUS
  <2>1. 1 \in 1 .. a BY <1>1, <1>2
  <2>2. QED BY <1>1, <2>1
<1>7. ASSUME NEW K, \A i \in 1 .. a : u[i] \in K, \A i \in 1 .. b : v[i] \in K
      PROVE  \A i \in 1 .. Len(z) : z[i] \in K
  <2> TAKE i \in 1 .. Len(z)
  <2>1. CASE i <= a
    <3>1. i \in 1 .. a BY <1>1, <2>1
    <3>2. QED BY <1>1, <1>7, <3>1
  <2>2. CASE ~(i <= a)
    <3> DEFINE j == i - a
    <3>1. j \in 1 .. b /\ a + j = i BY <1>1, <2>2
    <3> HIDE DEF j
    <3>2. z[a + j] = v[j] BY <1>1, <3>1
    <3>3. QED BY <1>7, <3>1, <3>2
  <2>3. QED BY <2>1, <2>2
<1>8. QED BY <1>4, <1>5, <1>6, <1>7 DEF z, a, b

-----------------------------------------------------------------------------
(***************************************************************************)
(* The items of a record.                                                  *)
(***************************************************************************)
ItemText(name) == <<name, ":", ValueOf(name)>>
PartsOf(names) == [i \in DOMAIN names |-> <<names[i], ":", ValueOf(names[i])>>]

LEMMA ItemTextFacts ==
  ASSUME NEW name \in Names
  PROVE  /\ ItemText(name) \in Seq(Signs) /\ Len(ItemText(name)) = 3
         /\ ItemText(name)[1] = name /\ ItemText(name)[2] = Colon
         /\ ItemText(name)[3] = ValueOf(name)
         /\ name \in Words /\ ValueOf(name) \in Words
<1>1. ValueOf(name) \in Words BY DEF ValueOf, Words
<1>2. name \in Words BY DEF Words
<1>3. name \in Signs /\ ValueOf(name) \in Signs /\ Colon \in Signs BY <1>1, <1>2, SignFacts
<1> DEFINE v == ValueOf(name)
<1>4. ItemText(name) = <<name, Colon, v>> BY DEF ItemText, Colon
<1> HIDE DEF v
<1>5. /\ <<name, Colon, v>> \in Seq(Signs) /\ Len(<<name, Colon, v>>) = 3
      /\ <<name, Colon, v>>[1] = name /\ <<name, Colon, v>>[2] = Colon
      /\ <<name, Colon, v>>[3] = v
  BY <1>3 DEF v
<1>6. QED BY <1>1, <1>2, <1>4, <1>5 DEF v

LEMMA ItemEnds ==
  ASSUME NEW name \in Names
  PROVE  /\ ItemText(name) # <<>>
         /\ ItemText(name)[1] \in Words /\ ItemText(name)[Len(ItemText(name))] \in Words
         /\ \A i \in 1 .. Len(ItemText(name)) : ItemText(name)[i] \in Words \cup {Colon}
<1> DEFINE t == ItemText(name)
<1>1. /\ t \in Seq(Signs) /\ Len(t) = 3 /\ t[1] \in Words /\ t[2] = Colon /\ t[3] \in Words
  BY ItemTextFacts
<1> HIDE DEF t
<1>2. t # <<>>
  <2>1. Len(t) # 0 BY <1>1
  <2>2. QED BY <2>1, EmptySeq
<1>3. \A i \in 1 .. Len(t) : i \in {1, 2, 3} BY <1>1
<1>4. \A i \in 1 .. Len(t) : t[i] \in Words \cup {Colon} BY <1>1, <1>3
<1>5. QED BY <1>1, <1>2, <1>4 DEF t

LEMMA PartsFacts ==
  ASSUME NEW names \in Seq(Names)
  PROVE  /\ PartsOf(names) \in Seq(Seq(Signs)) /\ Len(PartsOf(names)) = Len(names)
         /\ \A i \in 1 .. Len(names) :
              PartsOf(names)[i] = ItemText(names[i]) /\ names[i] \in Names
<1>1. Len(names) \in Nat /\ DOMAIN names = 1 .. Len(names)
      /\ \A i \in 1 .. Len(names) : names[i] \in Names
  BY LenProperties, ElementOfSeq
<1>2. PartsOf(names) = [i \in 1 .. Len(names) |-> ItemText(names[i])]
  BY <1>1 DEF PartsOf, ItemText
<1>3. \A i \in 1 .. Len(names) : ItemText(names[i]) \in Seq(Signs)
  BY <1>1, ItemTextFacts
<1>4. PartsOf(names) \in [1 .. Len(names) -> Seq(Signs)] BY <1>2, <1>3
<1>5. QED BY <1>1, <1>2, <1>4, FunctionIsSeq

LEMMA ItemsChars ==
  ASSUME NEW names \in Seq(Names)
  PROVE  \A m \in Nat : 1 <= m /\ m <= Len(names) =>
           LET u == JoinedUpTo(PartsOf(names))[m]
           IN  /\ u \in Seq(Signs) /\ u # <<>> /\ u[1] \in Words /\ u[Len(u)] \in Words
               /\ \A i \in 1 .. Len(u) : u[i] \in Words \cup {Colon, Comma}
<1> DEFINE parts == PartsOf(names)
           U(m) == JoinedUpTo(parts)[m]
           n == Len(names)
           K == Words \cup {Colon, Comma}
           Good(u) == /\ u \in Seq(Signs) /\ u # <<>> /\ u[1] \in Words /\ u[Len(u)] \in Words
                      /\ \A i \in 1 .. Len(u) : u[i] \in K
           G == {m \in Nat : 1 <= m /\ m <= n => Good(U(m))}
<1>1. n \in Nat /\ parts \in Seq(Seq(Signs)) /\ Len(parts) = n
      /\ \A i \in 1 .. n : parts[i] = ItemText(names[i]) /\ names[i] \in Names
  BY PartsFacts, LenProperties
<1>2. ASSUME NEW i \in 1 .. n PROVE Good(parts[i])
  <2> DEFINE t == ItemText(names[i])
  <2>1. names[i] \in Names BY <1>1
  <2>2. t \in Seq(Signs) BY <2>1, ItemTextFacts
  <2>3. /\ t # <<>> /\ t[1] \in Words /\ t[Len(t)] \in Words
        /\ \A j \in 1 .. Len(t) : t[j] \in Words \cup {Colon}
    BY <2>1, ItemEnds
  <2> HIDE DEF t
  <2>4. Good(t) BY <2>2, <2>3
  <2>5. QED BY <1>1, <2>4 DEF t
<1>3. /\ 0 < n => U(1) = parts[1]
      /\ \A i \in 2 .. n : U(i) = U(i - 1) \o (<<Comma>> \o parts[i])
  BY <1>1, JoinedTurns
<1> HIDE DEF parts, U, n
<1>4. 0 \in G OBVIOUS
<1>5. ASSUME NEW m \in Nat, m \in G PROVE m + 1 \in G
  <2> SUFFICES ASSUME m + 1 <= n PROVE Good(U(m + 1)) OBVIOUS
  <2>1. CASE m = 0
    <3>1. 1 \in 1 .. n /\ 0 < n BY <1>1, <2>1
    <3>2. U(1) = parts[1] BY <1>3, <3>1
    <3> HIDE DEF Good
    <3>3. Good(U(1)) BY <1>2, <3>1, <3>2
    <3>4. m + 1 = 1 BY <2>1
    <3>5. QED BY <3>3, <3>4
  <2>2. CASE m # 0
    <3> DEFINE j == m + 1
               u == U(m)
               p == parts[j]
               v == <<Comma>> \o p
    <3>1. j \in 2 .. n /\ j \in 1 .. n /\ j - 1 = m /\ 1 <= m /\ m <= n BY <1>1, <2>2
    <3>2. Good(u) BY <1>5, <3>1
    <3>3. Good(p) BY <1>2, <3>1
    <3> HIDE DEF j
    <3>4. U(j) = u \o v BY <1>3, <3>1
    <3> HIDE DEF u, p
    <3>5. Comma \in Signs BY SignFacts
    <3>6. <<Comma>> \in Seq(Signs) /\ Len(<<Comma>>) = 1 /\ <<Comma>>[1] = Comma
          /\ v \in Seq(Signs)
      BY <3>3, <3>5, LeadFacts
    <3>7. /\ v # <<>> /\ v[Len(v)] \in Words /\ \A i \in 1 .. Len(v) : v[i] \in K
      <4> DEFINE q == <<Comma>>
      <4>1. q \in Seq(Signs) /\ \A i \in 1 .. Len(q) : q[i] \in K BY <3>6
      <4> HIDE DEF q, K
      <4>2. /\ q \o p # <<>> /\ (q \o p)[Len(q \o p)] = p[Len(p)]
            /\ \A i \in 1 .. Len(q \o p) : (q \o p)[i] \in K
        BY <3>3, <4>1, CatEnds
      <4>3. QED BY <3>3, <4>2 DEF q
    <3> HIDE DEF v, K
    <3>8. /\ u \o v # <<>> /\ (u \o v)[Len(u \o v)] = v[Len(v)] /\ (u \o v)[1] = u[1]
          /\ \A i \in 1 .. Len(u \o v) : (u \o v)[i] \in K
      BY <3>2, <3>6, <3>7, CatEnds
    <3>9. u \o v \in Seq(Signs) BY <3>2, <3>6, ConcatProperties
    <3>10. Good(u \o v) BY <3>2, <3>7, <3>8, <3>9
    <3>11. QED BY <3>4, <3>10 DEF j
  <2>3. QED BY <2>1, <2>2
<1>6. \A m \in Nat : m \in G
  <2> HIDE DEF G
  <2>1. QED BY <1>4, <1>5, Induction
<1>7. QED BY <1>6 DEF U, parts, n

Has(z, x, c, y) ==
  /\ Len(z) = Len(x) + 1 + Len(y) /\ Len(x) \in Nat /\ Len(y) \in Nat
  /\ \A i \in 1 .. Len(x) : z[i] = x[i]
  /\ z[Len(x) + 1] = c
  /\ \A i \in 1 .. Len(y) : z[Len(x) + 1 + i] = y[i]

LEMMA AroundFacts ==
  ASSUME NEW C, NEW x \in Seq(C), NEW c \in C, NEW y \in Seq(C)
  PROVE  Around(x, c, y) \in Seq(C) /\ Has(Around(x, c, y), x, c, y)
<1> DEFINE v == <<c>> \o y
           n == Len(x)
           m == Len(y)
<1>1. v \in Seq(C) /\ Len(v) = 1 + m /\ v[1] = c /\ \A i \in 1 .. m : v[1 + i] = y[i]
  BY LeadFacts
<1>2. Around(x, c, y) = x \o v BY DEF Around
<1> HIDE DEF v
<1>3. /\ n \in Nat /\ x \o v \in Seq(C) /\ Len(x \o v) = n + Len(v)
      /\ \A i \in 1 .. n : (x \o v)[i] = x[i]
      /\ \A i \in 1 .. Len(v) : (x \o v)[n + i] = v[i]
  BY <1>1, CatFacts
<1>4. m \in Nat BY LenProperties
<1> DEFINE z == x \o v
<1> HIDE DEF z, n, m
<1>5. z[n + 1] = c
  <2>1. 1 \in 1 .. Len(v) BY <1>1, <1>4
  <2>2. QED BY <1>1, <1>3, <2>1 DEF z
<1>6. \A i \in 1 .. m : z[n + 1 + i] = y[i]
  <2> TAKE i \in 1 .. m
  <2>1. 1 + i \in 1 .. Len(v) /\ n + (1 + i) = n + 1 + i BY <1>1, <1>3, <1>4
  <2>2. z[n + (1 + i)] = v[1 + i] BY <1>3, <2>1 DEF z
  <2>3. QED BY <1>1, <2>1, <2>2
<1>7. n + Len(v) = n + 1 + m BY <1>1, <1>3, <1>4
<1>8. z \in Seq(C) /\ Len(z) = n + 1 + m /\ \A i \in 1 .. n : z[i] = x[i]
  BY <1>3, <1>7 DEF z
<1>9. z \in Seq(C) /\ Has(z, x, c, y) BY <1>3, <1>4, <1>5, <1>6, <1>8 DEF Has, n, m
<1>10. QED BY <1>2, <1>9 DEF z

LEMMA SplitAt ==
  ASSUME NEW C, NEW x \in Seq(C), NEW c \in C, NEW y \in Seq(C), NEW d,
         x # <<>>, x[Len(x)] \notin d, c \in d, y # <<>>, \A i \in 1 .. Len(y) : y[i] \notin d
  PROVE  Split(Around(x, c, y), d) = Append(Split(x, d), y)
<1> DEFINE v == <<c>> \o y
<1>1. v \in Seq(C) /\ Len(v) = 1 + Len(y) /\ v[1] = c BY LeadFacts
<1>2. Split(v, d) = <<y>> BY SplitLead
<1>3. Len(y) \in Nat /\ Len(y) # 0 BY EmptySeq, LenProperties
<1> HIDE DEF v
<1>4. Len(v) > 1 BY <1>1, <1>3
<1>5. v[1] \in d BY <1>1
<1>6. Split(x \o v, d) = Split(x, d) \o Split(v, d) BY <1>1, <1>4, <1>5, SplitCat
<1> DEFINE T == Seq(C)
<1>7. Split(x, d) \in Seq(T) /\ y \in T BY SplitType
<1> HIDE DEF T
<1>8. Split(x, d) \o <<y>> = Append(Split(x, d), y) BY <1>7, AppendIsConcat
<1>9. QED BY <1>2, <1>6, <1>8 DEF v, Around

\* What a text without its blanks says of the text.
LEMMA WithoutSign ==
  ASSUME NEW C, NEW s \in Seq(C), NEW K, NEW c, c \notin K, c # Blank,
         \A j \in 1 .. Len(Bare(s)) : Bare(s)[j] \in K
  PROVE  \A i \in 1 .. Len(s) : s[i] # c
<1>1. \A i \in 1 .. Len(s) : s[i] # Blank => s[i] \in K BY BareWithin
<1>2. QED BY <1>1

LEMMA EndsWithout ==
  ASSUME NEW C, NEW s \in Seq(C), NEW K, NEW c, c \notin K, c # Blank,
         Bare(s) # <<>>, Bare(s)[1] \in K, Bare(s)[Len(Bare(s))] \in K
  PROVE  s # <<>> /\ s[1] # c /\ s[Len(s)] # c
<1>1. s # <<>> BY BareEmpty
<1>2. s[1] # c BY <1>1, BareFirst
<1>3. s[Len(s)] # c BY <1>1, BareLast
<1>4. QED BY <1>1, <1>2, <1>3

\* A text that bears the joined items falls into them at its commas.
LEMMA ItemsSplit ==
  ASSUME NEW names \in Seq(Names)
  PROVE  \A m \in Nat : 1 <= m /\ m <= Len(names) =>
           \A t \in Seq(Signs) : Bare(t) = JoinedUpTo(PartsOf(names))[m] =>
             /\ Split(t, {Comma}) \in Seq(Seq(Signs)) /\ Len(Split(t, {Comma})) = m
             /\ \A i \in 1 .. m : Bare(Split(t, {Comma})[i]) = ItemText(names[i])
<1> DEFINE parts == PartsOf(names)
           U(m) == JoinedUpTo(parts)[m]
           n == Len(names)
           d == {Comma}
           Good(t, m) == /\ Split(t, d) \in Seq(Seq(Signs)) /\ Len(Split(t, d)) = m
                         /\ \A i \in 1 .. m : Bare(Split(t, d)[i]) = ItemText(names[i])
           G == {m \in Nat : 1 <= m /\ m <= n =>
                   \A t \in Seq(Signs) : Bare(t) = U(m) => Good(t, m)}
<1>1. n \in Nat /\ parts \in Seq(Seq(Signs)) /\ Len(parts) = n
      /\ \A i \in 1 .. n : parts[i] = ItemText(names[i]) /\ names[i] \in Names
  BY PartsFacts, LenProperties
<1>2. \A i \in 1 .. n :
        /\ parts[i] \in Seq(Signs) /\ parts[i] # <<>>
        /\ \A j \in 1 .. Len(parts[i]) : parts[i][j] \in Words \cup {Colon}
  BY <1>1, ItemTextFacts, ItemEnds
<1>3. /\ 0 < n => U(1) = parts[1]
      /\ \A i \in 2 .. n : U(i) = U(i - 1) \o (<<Comma>> \o parts[i])
  BY <1>1, JoinedTurns
<1>4. \A m \in Nat : 1 <= m /\ m <= n =>
        U(m) \in Seq(Signs) /\ U(m) # <<>> /\ U(m)[1] \in Words /\ U(m)[Len(U(m))] \in Words
  BY ItemsChars
<1>5. Comma \in Signs /\ Comma # Blank /\ Comma \notin Words /\ Comma \notin Words \cup {Colon}
      /\ <<>> \in Seq(Signs)
  BY SignFacts, Distinct, EmptySeq
<1> HIDE DEF parts, U, n
<1>6. ASSUME NEW i \in 1 .. n, NEW y \in Seq(Signs), Bare(y) = parts[i]
      PROVE  y # <<>> /\ \A j \in 1 .. Len(y) : y[j] \notin d
  <2>1. y # <<>> BY <1>2, <1>6, BareEmpty
  <2> DEFINE K == Words \cup {Colon}
  <2>2. (\A j \in 1 .. Len(Bare(y)) : Bare(y)[j] \in K) /\ Comma \notin K BY <1>2, <1>5, <1>6
  <2> HIDE DEF K
  <2>3. \A j \in 1 .. Len(y) : y[j] # Comma BY <1>5, <2>2, WithoutSign
  <2>4. QED BY <2>1, <2>3
<1>7. 0 \in G OBVIOUS
<1>8. ASSUME NEW m \in Nat, m \in G PROVE m + 1 \in G
  <2> HIDE DEF Good
  <2> SUFFICES ASSUME m + 1 <= n, NEW t \in Seq(Signs), Bare(t) = U(m + 1)
               PROVE  Good(t, m + 1)
    OBVIOUS
  <2> USE DEF Good
  <2>1. CASE m = 0
    <3>1. 1 \in 1 .. n /\ 0 < n /\ m + 1 = 1 BY <1>1, <2>1
    <3>2. Bare(t) = parts[1] BY <1>3, <3>1
    <3>3. t # <<>> /\ \A j \in 1 .. Len(t) : t[j] \notin d BY <1>6, <3>1, <3>2
    <3> HIDE DEF d
    <3>4. Split(t, d) = <<t>> BY <3>3, SplitOne
    <3> DEFINE T == Seq(Signs)
    <3>5. t \in T OBVIOUS
    <3> HIDE DEF T
    <3>6. <<t>> \in Seq(T) /\ Len(<<t>>) = 1 /\ <<t>>[1] = t BY <3>5
    <3>7. Bare(t) = ItemText(names[1]) BY <1>1, <3>1, <3>2
    <3>8. \A i \in 1 .. 1 : i = 1 OBVIOUS
    <3>9. Good(t, 1) BY <3>4, <3>6, <3>7, <3>8 DEF T
    <3> HIDE DEF Good
    <3>10. QED BY <3>1, <3>9
  <2>2. CASE m # 0
    <3> DEFINE k == m + 1
               u == U(m)
               p == parts[k]
    <3>1. k \in 2 .. n /\ k \in 1 .. n /\ k - 1 = m /\ 1 <= m /\ m <= n BY <1>1, <2>2
    <3>2. \A x \in Seq(Signs) : Bare(x) = u => Good(x, m) BY <1>8, <3>1
    <3>3. u \in Seq(Signs) /\ u # <<>> /\ u[1] \in Words /\ u[Len(u)] \in Words BY <1>4, <3>1
    <3>4. p \in Seq(Signs) BY <1>2, <3>1
    <3> HIDE DEF k
    <3>5. Bare(t) = Around(u, Comma, p) BY <1>3, <3>1 DEF k, Around
    <3> HIDE DEF u, p
    <3>6. PICK x, y \in Seq(Signs) : t = Around(x, Comma, y) /\ Bare(x) = u /\ Bare(y) = p
      <4>1. /\ u \in Seq(Signs) /\ p \in Seq(Signs) /\ Comma \in Signs /\ Comma # Blank
            /\ t \in Seq(Signs) /\ Bare(t) = Around(u, Comma, p)
        BY <1>5, <3>3, <3>4, <3>5
      <4>2. Divides(Signs, t, u, Comma, p) BY ONLY <4>1, Cut
      <4>3. QED BY <4>2 DEF Divides
    <3>7. x # <<>> /\ x[Len(x)] # Comma BY <1>5, <3>3, <3>6, EndsWithout
    <3>8. y # <<>> /\ \A j \in 1 .. Len(y) : y[j] \notin d BY <1>6, <3>1, <3>6 DEF p
    <3>9. x[Len(x)] \notin d /\ Comma \in d BY <3>7
    <3> HIDE DEF d
    <3>10. Split(t, d) = Append(Split(x, d), y)
      <4>1. /\ x \in Seq(Signs) /\ y \in Seq(Signs) /\ Comma \in Signs /\ x # <<>> /\ y # <<>>
            /\ x[Len(x)] \notin d /\ Comma \in d /\ \A j \in 1 .. Len(y) : y[j] \notin d
        BY <1>5, <3>7, <3>8, <3>9
      <4>2. Split(Around(x, Comma, y), d) = Append(Split(x, d), y) BY ONLY <4>1, SplitAt
      <4>3. QED BY <3>6, <4>2
    <3> DEFINE T == Seq(Signs)
               s == Split(x, d)
               r == Split(t, d)
    <3>11. s \in Seq(T) /\ Len(s) = m /\ \A i \in 1 .. m : Bare(s[i]) = ItemText(names[i])
      BY <3>2, <3>6
    <3>12. y \in T OBVIOUS
    <3>13. r = Append(s, y) BY <3>10
    <3>14. Bare(y) = ItemText(names[k]) BY <1>1, <3>1, <3>6 DEF p
    <3> HIDE DEF T, s, r
    <3>15. /\ r \in Seq(T) /\ Len(r) = Len(s) + 1
           /\ \A i \in 1 .. Len(s) : r[i] = s[i]
           /\ r[Len(s) + 1] = y
      BY <3>11, <3>12, <3>13, LastFacts
    <3>16. \A i \in 1 .. k : Bare(r[i]) = ItemText(names[i])
      <4> TAKE i \in 1 .. k
      <4>1. k = m + 1 BY DEF k
      <4>2. i \in 1 .. m \/ i = k BY <4>1
      <4>3. CASE i = k BY <3>11, <3>14, <3>15, <4>1, <4>3
      <4>4. CASE i \in 1 .. m BY <3>11, <3>15, <4>4
      <4>5. QED BY <4>2, <4>3, <4>4
    <3>17. Len(r) = k BY <3>11, <3>15 DEF k
    <3>18. Good(t, k) BY <3>15, <3>16, <3>17 DEF r, T
    <3>19. QED BY <3>18 DEF k
  <2>3. QED BY <2>1, <2>2
<1>9. \A m \in Nat : m \in G
  <2> HIDE DEF G
  <2>1. QED BY <1>7, <1>8, Induction
<1>10. QED BY <1>9 DEF U, parts, n

\* A text that bears nothing is all blanks.
LEMMA AllBlank ==
  ASSUME NEW C, NEW s \in Seq(C), Bare(s) = <<>>
  PROVE  \A i \in 1 .. Len(s) : s[i] = Blank
<1> DEFINE K == {}
<1>1. \A j \in 1 .. Len(Bare(s)) : Bare(s)[j] \in K
  <2>1. Len(Bare(s)) = 0 BY EmptySeq
  <2>2. QED BY <2>1
<1>2. \A i \in 1 .. Len(s) : s[i] # Blank => s[i] \in K
  <2> HIDE DEF K
  <2>1. QED BY <1>1, BareWithin
<1>3. QED BY <1>2

\* A word between characters that are cut off.
LEMMA TrimWord ==
  ASSUME NEW C, NEW x \in Seq(C), NEW A \in Seq(C), NEW c \in C, NEW B \in Seq(C), NEW charset,
         Bare(x) = Around(A, c, B), c # Blank, c \notin charset, Blank \in charset,
         \A i \in 1 .. Len(A) : A[i] \in charset, \A i \in 1 .. Len(B) : B[i] \in charset
  PROVE  Trim(x, charset) = <<c>>
<1>1. Divides(C, x, A, c, B) BY Cut
<1>2. PICK a, b \in Seq(C) : x = Around(a, c, b) /\ Bare(a) = A /\ Bare(b) = B
  BY <1>1 DEF Divides
<1>3. \A i \in 1 .. Len(a) : a[i] \in charset
  <2>1. \A j \in 1 .. Len(Bare(a)) : Bare(a)[j] \in charset BY <1>2
  <2>2. \A i \in 1 .. Len(a) : a[i] # Blank => a[i] \in charset BY <2>1, BareWithin
  <2>3. QED BY <2>2
<1>4. \A i \in 1 .. Len(b) : b[i] \in charset
  <2>1. \A j \in 1 .. Len(Bare(b)) : Bare(b)[j] \in charset BY <1>2
  <2>2. \A i \in 1 .. Len(b) : b[i] # Blank => b[i] \in charset BY <2>1, BareWithin
  <2>3. QED BY <2>2
<1> DEFINE w == <<c>>
<1>5. w \in Seq(C) /\ Len(w) = 1 /\ w[1] = c OBVIOUS
<1>6. x = a \o (w \o b) BY <1>2 DEF Around
<1> HIDE DEF w
<1>7. w # <<>>
  <2>1. Len(w) # 0 BY <1>5
  <2>2. QED BY <2>1, EmptySeq
<1>8. w[1] \notin charset /\ w[Len(w)] \notin charset BY <1>5
<1>9. Trim(a \o (w \o b), charset) = w
  <2>1. a \in Seq(C) /\ b \in Seq(C) /\ w \in Seq(C) BY <1>5
  <2>2. QED BY ONLY <2>1, <1>3, <1>4, <1>7, <1>8, TrimCore
<1>10. QED BY <1>6, <1>9 DEF w

\* The singleton texts.
LEMMA OneText ==
  ASSUME NEW C, NEW c \in C
  PROVE  /\ <<c>> \in Seq(C) /\ Len(<<c>>) = 1 /\ <<c>>[1] = c /\ <<c>> # <<>>
         /\ Around(<<>>, c, <<>>) = <<c>>
<1>1. <<c>> \in Seq(C) /\ Len(<<c>>) = 1 /\ <<c>>[1] = c /\ <<c>> # <<>> OBVIOUS
<1> DEFINE w == <<c>>
<1>2. w \in Seq(C) BY <1>1
<1> HIDE DEF w
<1>3. w \o <<>> = w /\ <<>> \o w = w BY <1>2, ConcatEmptySeq
<1>4. QED BY <1>1, <1>3 DEF Around, w

LEMMA ThreeText ==
  ASSUME NEW C, NEW a \in C, NEW b \in C, NEW c \in C
  PROVE  <<a, b, c>> = Around(<<a>>, b, <<c>>)
<1> DEFINE u == <<a>>
           v == <<c>>
           z == Around(u, b, v)
           w == <<a, b, c>>
<1>1. u \in Seq(C) /\ v \in Seq(C) /\ Len(u) = 1 /\ Len(v) = 1 /\ u[1] = a /\ v[1] = c
  BY OneText
<1>2. w \in Seq(C) /\ Len(w) = 3 /\ w[1] = a /\ w[2] = b /\ w[3] = c OBVIOUS
<1> HIDE DEF u, v, w
<1>3. /\ z \in Seq(C) /\ Len(z) = Len(u) + 1 + Len(v)
      /\ \A i \in 1 .. Len(u) : z[i] = u[i]
      /\ z[Len(u) + 1] = b
      /\ \A i \in 1 .. Len(v) : z[Len(u) + 1 + i] = v[i]
  <2>1. u \in Seq(C) /\ b \in C /\ v \in Seq(C) BY <1>1
  <2>2. z \in Seq(C) /\ Has(z, u, b, v) BY <2>1, AroundFacts
  <2>3. QED BY <2>2 DEF Has
<1> HIDE DEF z
<1>4. Len(z) = 3 /\ z[1] = a /\ z[2] = b /\ z[3] = c
  <2>1. 1 \in 1 .. 1 /\ 1 + 1 = 2 /\ 1 + 1 + 1 = 3 OBVIOUS
  <2>2. QED BY <1>1, <1>3, <2>1
<1>5. DOMAIN w = 1 .. 3 /\ DOMAIN z = 1 .. 3 BY <1>2, <1>3, <1>4, LenProperties
<1>6. \A i \in 1 .. 3 : i \in {1, 2, 3} OBVIOUS
<1>7. w = [i \in 1 .. 3 |-> w[i]] /\ z = [i \in 1 .. 3 |-> z[i]]
  <2>1. w \in [1 .. 3 -> C] /\ z \in [1 .. 3 -> C] BY <1>2, <1>3, <1>4, LenProperties
  <2>2. QED BY <2>1
<1>8. \A i \in 1 .. 3 : w[i] = z[i] BY <1>2, <1>4, <1>6
<1>9. w = z BY <1>7, <1>8
<1>10. QED BY <1>9 DEF w, z, u, v

Bears(x, c) ==
  /\ Trim(x, {Blank}) = <<c>> /\ x # <<>>
  /\ \A e : e # c /\ e # Blank => \A i \in 1 .. Len(x) : x[i] # e

LEMMA OneWord ==
  ASSUME NEW C, NEW x \in Seq(C), NEW c \in C, c # Blank, Bare(x) = <<c>>
  PROVE  Bears(x, c)
<1> DEFINE none == <<>>
           charset == {Blank}
<1>1. none \in Seq(C) /\ Len(none) = 0 BY EmptySeq
<1>2. Bare(x) = Around(none, c, none) BY OneText
<1>3. c \notin charset /\ Blank \in charset OBVIOUS
<1> HIDE DEF none, charset
<1>4. \A i \in 1 .. Len(none) : none[i] \in charset BY <1>1
<1>5. Trim(x, charset) = <<c>>
  <2>1. x \in Seq(C) /\ c \in C /\ c # Blank OBVIOUS
  <2>2. none \in Seq(C) BY <1>1
  <2>3. QED BY ONLY <2>1, <2>2, <1>2, <1>3, <1>4, TrimWord
<1>6. x # <<>>
  <2>1. <<c>> # <<>> OBVIOUS
  <2>2. QED BY <2>1, BareEmpty
<1>7. ASSUME NEW e, e # c, e # Blank PROVE \A i \in 1 .. Len(x) : x[i] # e
  <2> DEFINE K == {c}
  <2>1. e \notin K BY <1>7
  <2>2. \A j \in 1 .. Len(Bare(x)) : Bare(x)[j] \in K
    <3>1. Len(<<c>>) = 1 /\ <<c>>[1] = c OBVIOUS
    <3>2. \A j \in 1 .. 1 : j = 1 OBVIOUS
    <3>3. QED BY <3>1, <3>2
  <2> HIDE DEF K
  <2>3. QED BY <1>7, <2>1, <2>2, WithoutSign
<1>8. QED BY <1>5, <1>6, <1>7 DEF charset, Bears

\* An item that bears a name and a value sets the field the name stands for.
LEMMA ItemAdded ==
  ASSUME NEW data, NEW item \in Seq(Signs), NEW name \in Names, Bare(item) = ItemText(name)
  PROVE  AddItem(data, item) = SetItem(data, <<name>>, <<ValueOf(name)>>)
<1> DEFINE v == ValueOf(name)
           C == Signs
<1>1. /\ name \in C /\ v \in C /\ Colon \in C /\ Tab \in C
      /\ name # Colon /\ v # Colon /\ name # Blank /\ v # Blank /\ name # Tab /\ v # Tab
      /\ Colon # Blank /\ Tab # Colon /\ Tab # Blank
  <2>1. name \in Words /\ v \in Words BY ItemTextFacts
  <2>2. Words \subseteq C /\ Colon \in C /\ Tab \in C BY SignFacts
  <2>3. Colon \notin Words /\ Blank \notin Words /\ Tab \notin Words BY Distinct
  <2>4. Colon # Blank /\ Tab # Colon /\ Tab # Blank BY Distinct
  <2>5. QED BY <2>1, <2>2, <2>3, <2>4
<1>2. ItemText(name) = <<name, Colon, v>> BY DEF ItemText, Colon
<1> HIDE DEF v, C
<1>3. Bare(item) = Around(<<name>>, Colon, <<v>>) BY <1>1, <1>2, ThreeText
<1>4. <<name>> \in Seq(C) /\ <<v>> \in Seq(C) /\ item \in Seq(C) BY <1>1, OneText DEF C
<1>5. Divides(C, item, <<name>>, Colon, <<v>>) BY ONLY <1>1, <1>3, <1>4, Cut
<1>6. PICK x, y \in Seq(C) : item = Around(x, Colon, y) /\ Bare(x) = <<name>> /\ Bare(y) = <<v>>
  BY <1>5 DEF Divides
<1>7. /\ Trim(x, {Blank}) = <<name>> /\ x # <<>>
      /\ \A i \in 1 .. Len(x) : x[i] # Colon /\ x[i] # Tab
  <2>1. Bears(x, name) BY <1>1, <1>6, OneWord
  <2>2. QED BY <1>1, <2>1 DEF Bears
<1>8. /\ Trim(y, {Blank}) = <<v>> /\ y # <<>>
      /\ \A i \in 1 .. Len(y) : y[i] # Colon /\ y[i] # Tab
  <2>1. Bears(y, v) BY <1>1, <1>6, OneWord
  <2>2. QED BY <1>1, <2>1 DEF Bears
<1> DEFINE n == Len(x)
           m == Len(y)
           k == n + 1
           other == Around(x, Tab, y)
<1>9. /\ item \in Seq(C) /\ Len(item) = n + 1 + m /\ n \in Nat /\ m \in Nat
      /\ \A i \in 1 .. n : item[i] = x[i]
      /\ item[n + 1] = Colon
      /\ \A i \in 1 .. m : item[n + 1 + i] = y[i]
  <2>1. x \in Seq(C) /\ Colon \in C /\ y \in Seq(C) BY <1>1
  <2>2. item \in Seq(C) /\ Has(item, x, Colon, y) BY <1>6, <2>1, AroundFacts
  <2>3. QED BY <2>2 DEF Has
<1>10. /\ other \in Seq(C) /\ Len(other) = n + 1 + m
       /\ \A i \in 1 .. n : other[i] = x[i]
       /\ other[n + 1] = Tab
       /\ \A i \in 1 .. m : other[n + 1 + i] = y[i]
  <2>1. x \in Seq(C) /\ Tab \in C /\ y \in Seq(C) BY <1>1
  <2>2. other \in Seq(C) /\ Has(other, x, Tab, y) BY <2>1, AroundFacts
  <2>3. QED BY <2>2 DEF Has
<1> HIDE DEF other, n, m
<1>11. k \in Nat /\ DOMAIN item = 1 .. n + 1 + m /\ DOMAIN other = 1 .. n + 1 + m
       /\ k \in 1 .. n + 1 + m
  BY <1>9, <1>10, LenProperties
<1>12. \A i \in 1 .. n + 1 + m :
         \/ i \in 1 .. n \/ i = k \/ \E j \in 1 .. m : i = n + 1 + j
  <2> TAKE i \in 1 .. n + 1 + m
  <2>1. CASE i <= n + 1 BY <1>9, <2>1
  <2>2. CASE ~(i <= n + 1)
    <3>1. i - (n + 1) \in 1 .. m /\ i = n + 1 + (i - (n + 1)) BY <1>9, <2>2
    <3>2. QED BY <3>1
  <2>3. QED BY <2>1, <2>2
<1>13. \A i \in 1 .. n + 1 + m : (i # k) => item[i] = other[i] /\ item[i] # Colon
  <2> TAKE i \in 1 .. n + 1 + m
  <2>1. CASE i \in 1 .. n BY <1>7, <1>9, <1>10, <2>1 DEF n
  <2>2. CASE \E j \in 1 .. m : i = n + 1 + j
    <3>1. PICK j \in 1 .. m : i = n + 1 + j BY <2>2
    <3>2. item[n + 1 + j] = y[j] /\ other[n + 1 + j] = y[j] BY <1>9, <1>10
    <3>3. y[j] # Colon BY <1>8 DEF m
    <3>4. QED BY <3>1, <3>2, <3>3
  <2>3. QED BY <1>12, <2>1, <2>2
<1> DEFINE colons == {i \in DOMAIN item : item[i] = ":"}
           parts  == Split([item EXCEPT ![Smallest(colons)] = Tab], {Tab})
<1>14. colons = {k}
  <2>1. colons = {i \in 1 .. n + 1 + m : item[i] = Colon} BY <1>11 DEF Colon
  <2> HIDE DEF colons
  <2>2. QED BY <1>9, <1>11, <1>13, <2>1
<1>15. Smallest(colons) = k
  <2>1. {k} \in SUBSET Int /\ k \in {k} /\ \A j \in {k} : k <= j BY <1>11
  <2>2. Smallest({k}) = k
    <3> DEFINE S == {k}
    <3>1. S \in SUBSET Int /\ k \in S /\ \A j \in S : k <= j BY <2>1
    <3> HIDE DEF S, k
    <3>2. Smallest(S) = k BY <3>1, SmallestIs
    <3>3. QED BY <3>2 DEF S, k
  <2>3. QED BY <1>14, <2>2
<1>16. [item EXCEPT ![k] = Tab] = other
  <2> DEFINE e == [item EXCEPT ![k] = Tab]
             N == n + 1 + m
  <2>1. e = [i \in 1 .. N |-> IF i = k THEN Tab ELSE item[i]] BY <1>11
  <2>2. other = [i \in 1 .. N |-> other[i]] BY <1>10, <1>11
  <2> HIDE DEF e, N, k
  <2>3. \A i \in 1 .. N : (IF i = k THEN Tab ELSE item[i]) = other[i]
    BY <1>10, <1>13 DEF N, k
  <2>4. QED BY <2>1, <2>2, <2>3 DEF e
<1>17. parts = Append(<<x>>, y)
  <2> DEFINE d == {Tab}
  <2>1. Tab \in d /\ (\A i \in 1 .. Len(x) : x[i] \notin d) /\ \A i \in 1 .. Len(y) : y[i] \notin d
    BY <1>7, <1>8
  <2>2. x[Len(x)] \notin d
    <3>1. Len(x) # 0 BY <1>7, EmptySeq
    <3>2. Len(x) \in 1 .. Len(x) BY <3>1, LenProperties
    <3>3. QED BY <2>1, <3>2
  <2> HIDE DEF d
  <2>3. Split(x, d) = <<x>> BY <1>7, <2>1, SplitOne
  <2>4. Split(other, d) = Append(Split(x, d), y)
    <3>1. /\ x \in Seq(C) /\ y \in Seq(C) /\ Tab \in C /\ x # <<>> /\ y # <<>>
      BY <1>1, <1>7, <1>8
    <3>2. Split(Around(x, Tab, y), d) = Append(Split(x, d), y)
      BY ONLY <2>1, <2>2, <3>1, SplitAt
    <3>3. QED BY <3>2 DEF other
  <2>5. QED BY <1>15, <1>16, <2>3, <2>4 DEF d
<1>18. Len(parts) = 2 /\ parts[1] = x /\ parts[2] = y
  <2> DEFINE T == Seq(C)
  <2>1. x \in T /\ y \in T OBVIOUS
  <2> HIDE DEF T, parts
  <2> DEFINE s == <<x>>
  <2>2. s \in Seq(T) /\ Len(s) = 1 /\ s[1] = x BY <2>1, OneText
  <2> HIDE DEF s
  <2>3. /\ Append(s, y) \in Seq(T) /\ Len(Append(s, y)) = Len(s) + 1 /\ Len(s) \in Nat
        /\ \A i \in 1 .. Len(s) : Append(s, y)[i] = s[i]
        /\ Append(s, y)[Len(s) + 1] = y
    <3>1. s \in Seq(T) /\ y \in T BY <2>1, <2>2
    <3>2. QED BY ONLY <3>1, LastFacts
  <2>4. 1 \in 1 .. 1 OBVIOUS
  <2>5. QED BY <1>17, <2>2, <2>3, <2>4 DEF s
<1>19. Trim(parts[1], {"_"}) = <<name>> /\ Trim(parts[2], {"_"}) = <<v>>
  <2> HIDE DEF parts
  <2>1. QED BY <1>7, <1>8, <1>18 DEF Blank
<1>20. colons # {} BY <1>14
<1>21. AddItem(data, item) =
         IF colons # {} /\ Len(parts) = 2
         THEN SetItem(data, Trim(parts[1], {"_"}), Trim(parts[2], {"_"})) ELSE data
  BY DEF AddItem
<1> HIDE DEF parts, colons
<1>22. QED BY <1>18, <1>19, <1>20, <1>21 DEF v

LEMMA AddressOf == ASSUME NEW before PROVE Address(<<"ip">>, before) = "ip"
<1> DEFINE s == <<"ip">>
           found == {i \in DOMAIN s : s[i] = "ip"}
<1>1. s # <<>> OBVIOUS
<1>2. found = {1} OBVIOUS
<1>3. Cardinality({1}) = 1 BY FS_Singleton
<1>4. Cardinality(found) = 1
  <2> HIDE DEF found
  <2>1. QED BY <1>2, <1>3
<1>5. Address(s, before) =
        CASE s = <<>> -> before [] Cardinality(found) = 1 -> "ip" [] OTHER -> "none"
  BY DEF Address
<1> HIDE DEF s, found
<1>6. Address(s, before) = "ip" BY <1>1, <1>4, <1>5
<1>7. QED BY <1>6 DEF s

\* The record with one more name in it.
With(data, name) ==
  [vlan  |-> IF name = "vlan" THEN 7 ELSE data.vlan,
   ip    |-> IF name = "src-ip" THEN "ip" ELSE data.ip,
   state |-> IF name = "cur-state" THEN "fin" ELSE data.state]

LEMMA FieldSet ==
  ASSUME NEW data \in Values, NEW name \in Names
  PROVE  SetItem(data, <<name>>, <<ValueOf(name)>>) = With(data, name)
<1>1. CASE name = "vlan"
  <2>1. ValueOf(name) = "7" BY <1>1 DEF ValueOf
  <2>2. Number(<<"7">>) = 7
    <3>1. <<"7">> # <<>> /\ Head(<<"7">>) = "7" OBVIOUS
    <3>2. QED BY <3>1 DEF Number
  <2>3. SetItem(data, <<name>>, <<ValueOf(name)>>) = [data EXCEPT !.vlan = 7]
    BY <1>1, <2>1, <2>2 DEF SetItem
  <2>4. [data EXCEPT !.vlan = 7] = With(data, name) BY <1>1 DEF With, Values
  <2>5. QED BY <2>3, <2>4
<1>2. CASE name = "src-ip"
  <2>1. ValueOf(name) = "ip" BY <1>2 DEF ValueOf
  <2>2. <<name>> # <<"vlan">> /\ <<name>> = <<"src-ip">>
    <3>1. <<name>>[1] # <<"vlan">>[1] BY <1>2
    <3>2. QED BY <1>2, <3>1
  <2>3. SetItem(data, <<name>>, <<"ip">>) = [data EXCEPT !.ip = Address(<<"ip">>, @)]
    BY <2>2 DEF SetItem
  <2>4. SetItem(data, <<name>>, <<"ip">>) = [data EXCEPT !.ip = "ip"] BY <2>3, AddressOf
  <2>5. [data EXCEPT !.ip = "ip"] = With(data, name) BY <1>2 DEF With, Values
  <2>6. QED BY <2>1, <2>4, <2>5
<1>3. CASE name = "cur-state"
  <2>1. ValueOf(name) = "fin" BY <1>3 DEF ValueOf
  <2>2. <<name>> # <<"vlan">> /\ <<name>> # <<"src-ip">> /\ <<name>> = <<"cur-state">>
    <3>1. <<name>>[1] # <<"vlan">>[1] /\ <<name>>[1] # <<"src-ip">>[1] BY <1>3
    <3>2. QED BY <1>3, <3>1
  <2>3. Flags(<<"fin">>, data.state) = "fin" BY DEF Flags
  <2>4. SetItem(data, <<name>>, <<"fin">>) = [data EXCEPT !.state = Flags(<<"fin">>, @)]
    BY <2>2 DEF SetItem
  <2>5. SetItem(data, <<name>>, <<"fin">>) = [data EXCEPT !.state = "fin"] BY <2>3, <2>4
  <2>6. [data EXCEPT !.state = "fin"] = With(data, name) BY <1>3 DEF With, Values
  <2>7. QED BY <2>1, <2>5, <2>6
<1>4. QED BY <1>1, <1>2, <1>3 DEF Names

\* What the first i names of a record mean.
MeantUpTo(names, i) ==
  [vlan  |-> IF \E j \in 1 .. i : names[j] = "vlan" THEN 7 ELSE 0,
   ip    |-> IF \E j \in 1 .. i : names[j] = "src-ip" THEN "ip" ELSE "none",
   state |-> IF \E j \in 1 .. i : names[j] = "cur-state" THEN "fin" ELSE "none"]

LEMMA MeantTurns ==
  ASSUME NEW names, NEW i \in Nat
  PROVE  /\ MeantUpTo(names, i) \in Values
         /\ MeantUpTo(names, i + 1) = With(MeantUpTo(names, i), names[i + 1])
         /\ MeantUpTo(names, 0) = Zero
<1>1. MeantUpTo(names, i) \in Values BY DEF MeantUpTo, Values
<1>2. MeantUpTo(names, i + 1) = With(MeantUpTo(names, i), names[i + 1])
  <2>1. ASSUME NEW c
        PROVE  (\E j \in 1 .. i + 1 : names[j] = c)
                 <=> (names[i + 1] = c \/ \E j \in 1 .. i : names[j] = c)
    <3>1. \A j : j \in 1 .. i + 1 <=> (j \in 1 .. i \/ j = i + 1) OBVIOUS
    <3>2. QED BY <3>1
  <2> DEFINE E(c) == \E j \in 1 .. i : names[j] = c
             F(c) == \E j \in 1 .. i + 1 : names[j] = c
             e == names[i + 1]
  <2>2. \A c : F(c) <=> (e = c \/ E(c)) BY <2>1
  <2>3. MeantUpTo(names, i) =
          [vlan  |-> IF E("vlan") THEN 7 ELSE 0, ip |-> IF E("src-ip") THEN "ip" ELSE "none",
           state |-> IF E("cur-state") THEN "fin" ELSE "none"]
    BY DEF MeantUpTo
  <2>4. MeantUpTo(names, i + 1) =
          [vlan  |-> IF F("vlan") THEN 7 ELSE 0, ip |-> IF F("src-ip") THEN "ip" ELSE "none",
           state |-> IF F("cur-state") THEN "fin" ELSE "none"]
    BY DEF MeantUpTo
  <2> HIDE DEF E, F, e
  <2>5. MeantUpTo(names, i + 1) = With(MeantUpTo(names, i), e) BY <2>2, <2>3, <2>4 DEF With
  <2>6. QED BY <2>5 DEF e
<1>3. MeantUpTo(names, 0) = Zero BY DEF MeantUpTo, Zero
<1>4. QED BY <1>1, <1>2, <1>3

\* Items that bear the names of a record, added one by one, mean the record.
LEMMA DataMeant ==
  ASSUME NEW names \in Seq(Names), NEW items \in Seq(Seq(Signs)), Len(items) = Len(names),
         \A i \in 1 .. Len(names) : Bare(items[i]) = ItemText(names[i])
  PROVE  DataOf(items, {}) = Meant(names)
<1> DEFINE n == Len(names)
           h == DataUpTo(items, {})
           G == {i \in Nat : i <= n => h[i] = MeantUpTo(names, i)}
<1>1. n \in Nat /\ DOMAIN names = 1 .. n BY LenProperties
<1>2. h[0] = Zero /\ \A i \in 1 .. n : h[i] = AddItem(h[i - 1], items[i])
  <2> DEFINE none == {}
             g == DataUpTo(items, none)
  <2>1. \A i : i \notin none OBVIOUS
  <2> HIDE DEF none
  <2>2. g[0] = Zero
        /\ \A i \in 1 .. Len(items) :
             g[i] = IF i \in none THEN g[i - 1] ELSE AddItem(g[i - 1], items[i])
    BY <1>1, DataTurns
  <2>3. \A i \in 1 .. n : g[i] = AddItem(g[i - 1], items[i]) BY <2>1, <2>2
  <2>4. QED BY <2>2, <2>3 DEF none
<1>3. \A i \in 1 .. n : /\ names[i] \in Names /\ items[i] \in Seq(Signs)
                        /\ Bare(items[i]) = ItemText(names[i])
  BY ElementOfSeq
<1>4. MeantUpTo(names, n) = Meant(names) BY <1>1 DEF MeantUpTo, Meant
<1>5. DataOf(items, {}) = h[n] BY DEF DataOf
<1> HIDE DEF h, n
<1>6. 0 \in G
  <2>1. MeantUpTo(names, 0) = Zero BY MeantTurns
  <2>2. QED BY <1>2, <2>1
<1>7. ASSUME NEW i \in Nat, i \in G PROVE i + 1 \in G
  <2> SUFFICES ASSUME i + 1 <= n PROVE h[i + 1] = MeantUpTo(names, i + 1) OBVIOUS
  <2> DEFINE k == i + 1
             before == MeantUpTo(names, i)
  <2>1. k \in 1 .. n /\ k - 1 = i /\ i <= n BY <1>1
  <2>2. before \in Values /\ MeantUpTo(names, k) = With(before, names[k]) BY MeantTurns
  <2>3. h[i] = before BY <1>7, <2>1
  <2> HIDE DEF k, before
  <2>4. h[k] = AddItem(before, items[k]) BY <1>2, <2>1, <2>3
  <2>5. names[k] \in Names /\ items[k] \in Seq(Signs) /\ Bare(items[k]) = ItemText(names[k])
    BY <1>3, <2>1
  <2>6. h[k] = SetItem(before, <<names[k]>>, <<ValueOf(names[k])>>) BY <2>4, <2>5, ItemAdded
  <2>7. h[k] = With(before, names[k]) BY <2>2, <2>5, <2>6, FieldSet
  <2>8. QED BY <2>2, <2>7 DEF k
<1>8. \A i \in Nat : i \in G
  <2> HIDE DEF G
  <2>1. QED BY <1>6, <1>7, Induction
<1>9. QED BY <1>1, <1>4, <1>5, <1>8

-----------------------------------------------------------------------------
(***************************************************************************)
(* No blank between records: none where as many braces are closed as are   *)
(* open.                                                                   *)
(***************************************************************************)
Level(x) == CountOf(x, Opening) = CountOf(x, Closing)

Tight(t) == \A x, y \in Seq(Signs) : t = Around(x, Blank, y) => ~Level(x)

\* A name for the operator that joins texts, to state facts the provers can use.
Cat(x, y) == x \o y

LEMMA CatCat ==
  ASSUME NEW C, NEW u \in Seq(C), NEW v \in Seq(C), NEW w \in Seq(C)
  PROVE  Cat(Cat(u, v), w) = Cat(u, Cat(v, w))
BY CatAssoc DEF Cat

LEMMA AroundBehind ==
  ASSUME NEW C, NEW x \in Seq(C), NEW c \in C, NEW y \in Seq(C), NEW v \in Seq(C)
  PROVE  Cat(Around(x, c, y), v) = Around(x, c, Cat(y, v))
<1> DEFINE w == <<c>>
           q == w \o y
<1>1. w \in Seq(C) BY LeadFacts
<1> HIDE DEF w
<1>2. q \in Seq(C) BY <1>1, ConcatProperties
<1>3. q \o v = w \o (y \o v) BY <1>1, CatAssoc
<1> HIDE DEF q
<1>4. (x \o q) \o v = x \o (q \o v) BY <1>2, CatAssoc
<1>5. QED BY <1>3, <1>4 DEF Around, Cat, w, q

LEMMA AroundBefore ==
  ASSUME NEW C, NEW x \in Seq(C), NEW c \in C, NEW y \in Seq(C), NEW v \in Seq(C)
  PROVE  Cat(v, Around(x, c, y)) = Around(Cat(v, x), c, y)
<1> DEFINE w == <<c>>
           q == w \o y
<1>1. w \in Seq(C) BY LeadFacts
<1> HIDE DEF w
<1>2. q \in Seq(C) BY <1>1, ConcatProperties
<1> HIDE DEF q
<1>3. (v \o x) \o q = v \o (x \o q) BY <1>2, CatAssoc
<1>4. QED BY <1>3 DEF Around, Cat, w, q

LEMMA TightFirst ==
  ASSUME NEW u \in Seq(Signs), NEW v \in Seq(Signs), Tight(u \o v)
  PROVE  Tight(u)
<1> SUFFICES ASSUME NEW x \in Seq(Signs), NEW y \in Seq(Signs), u = Around(x, Blank, y)
             PROVE  ~Level(x)
  BY DEF Tight
<1>1. Blank \in Signs BY SignFacts
<1>2. Around(x, Blank, y) \o v = Around(x, Blank, y \o v)
  <2>1. x \in Seq(Signs) /\ y \in Seq(Signs) /\ v \in Seq(Signs) OBVIOUS
  <2>2. Cat(Around(x, Blank, y), v) = Around(x, Blank, Cat(y, v))
    BY ONLY <1>1, <2>1, AroundBehind
  <2>3. QED BY <2>2 DEF Cat
<1>3. y \o v \in Seq(Signs) BY ConcatProperties
<1>4. QED BY <1>2, <1>3 DEF Tight

LEMMA TightSecond ==
  ASSUME NEW u \in Seq(Signs), NEW v \in Seq(Signs), Tight(u \o v), Level(u)
  PROVE  Tight(v)
<1> SUFFICES ASSUME NEW x \in Seq(Signs), NEW y \in Seq(Signs), v = Around(x, Blank, y)
             PROVE  ~Level(x)
  BY DEF Tight
<1>1. Blank \in Signs BY SignFacts
<1>2. u \o Around(x, Blank, y) = Around(u \o x, Blank, y)
  <2>1. x \in Seq(Signs) /\ y \in Seq(Signs) /\ u \in Seq(Signs) OBVIOUS
  <2>2. Cat(u, Around(x, Blank, y)) = Around(Cat(u, x), Blank, y)
    BY ONLY <1>1, <2>1, AroundBefore
  <2>3. QED BY <2>2 DEF Cat
<1>3. ~Level(u \o x)
  <2>1. u \o x \in Seq(Signs) BY ConcatProperties
  <2>2. QED BY <1>2, <2>1 DEF Tight
<1>4. \A c : CountOf(u \o x, c) = CountOf(u, c) + CountOf(x, c) BY CountCat
<1>5. \A c : CountOf(u, c) \in Nat /\ CountOf(x, c) \in Nat BY CountType
<1>6. QED BY <1>3, <1>4, <1>5 DEF Level

LEMMA TightBlank ==
  ASSUME NEW e \in Seq(Signs), Tight(e), Bare(e) = <<>>
  PROVE  e = <<>>
<1> SUFFICES ASSUME e # <<>> PROVE FALSE OBVIOUS
<1>1. e[1] = Blank BY NoBlanks
<1>2. PICK y \in Seq(Signs) : e = <<Blank>> \o y
  <2>1. PICK y \in Seq(Signs) : e[1] \in Signs /\ e = <<e[1]>> \o y BY FirstAndRest
  <2>2. QED BY <1>1, <2>1
<1> DEFINE none == <<>>
<1>3. none \in Seq(Signs) BY EmptySeq
<1>4. Level(none) BY CountEmpty DEF Level
<1>5. e = Around(none, Blank, y)
  <2> DEFINE q == <<Blank>> \o y
  <2>1. q \in Seq(Signs) BY SignFacts, LeadFacts
  <2> HIDE DEF q
  <2>2. <<>> \o q = q BY <2>1, ConcatEmptySeq
  <2>3. QED BY <1>2, <2>2 DEF Around, q
<1> HIDE DEF none
<1>6. QED BY <1>3, <1>4, <1>5 DEF Tight

\* A part without braces is level.
LEMMA LevelPlain ==
  ASSUME NEW s \in Seq(Signs), \A i \in 1 .. Len(s) : s[i] # Opening /\ s[i] # Closing
  PROVE  Level(s)
<1>1. CountOf(s, Opening) = 0
  <2>1. \A i \in 1 .. Len(s) : s[i] # Opening OBVIOUS
  <2>2. QED BY <2>1, CountNone
<1>2. CountOf(s, Closing) = 0
  <2>1. \A i \in 1 .. Len(s) : s[i] # Closing OBVIOUS
  <2>2. QED BY <2>1, CountNone
<1>3. QED BY <1>1, <1>2 DEF Level

LEMMA LevelCat ==
  ASSUME NEW u \in Seq(Signs), NEW v \in Seq(Signs), Level(u), Level(v)
  PROVE  Level(u \o v)
<1>1. \A c : CountOf(u \o v, c) = CountOf(u, c) + CountOf(v, c) BY CountCat
<1>2. QED BY <1>1 DEF Level

LEMMA LevelBare ==
  ASSUME NEW s \in Seq(Signs)
  PROVE  Level(Bare(s)) <=> Level(s)
<1>1. Opening # Blank /\ Closing # Blank BY Distinct
<1>2. CountOf(Bare(s), Opening) = CountOf(s, Opening) BY <1>1, CountBare
<1>3. CountOf(Bare(s), Closing) = CountOf(s, Closing) BY <1>1, CountBare
<1>4. QED BY <1>2, <1>3 DEF Level

\* A text in braces.
Braced(j) == <<Opening>> \o (j \o <<Closing>>)

LEMMA BracedFacts ==
  ASSUME NEW j \in Seq(Signs), \A i \in 1 .. Len(j) : j[i] # Opening /\ j[i] # Closing
  PROVE  /\ Braced(j) \in Seq(Signs) /\ Level(Braced(j))
         /\ j \o <<Closing>> \in Seq(Signs) /\ j \o <<Closing>> # <<>>
         /\ \A i \in 1 .. Len(j \o <<Closing>>) : (j \o <<Closing>>)[i] # Opening
<1> DEFINE a == <<Opening>>
           b == <<Closing>>
           q == j \o b
<1>1. Opening \in Signs /\ Closing \in Signs /\ Opening # Closing BY SignFacts, Distinct
<1>2. /\ a \in Seq(Signs) /\ b \in Seq(Signs) /\ b # <<>> /\ Len(b) = 1 /\ b[1] = Closing
  BY <1>1, OneText
<1>3. CountOf(a, Opening) = 1 /\ CountOf(a, Closing) = 0
      /\ CountOf(b, Opening) = 0 /\ CountOf(b, Closing) = 1
  BY <1>1, CountOne
<1>4. CountOf(j, Opening) = 0 /\ CountOf(j, Closing) = 0
  <2>1. \A i \in 1 .. Len(j) : j[i] # Opening OBVIOUS
  <2>2. \A i \in 1 .. Len(j) : j[i] # Closing OBVIOUS
  <2>3. QED BY <2>1, <2>2, CountNone
<1> HIDE DEF a, b
<1>5. q \in Seq(Signs) BY <1>2, ConcatProperties
<1>6. \A c : CountOf(q, c) = CountOf(j, c) + CountOf(b, c) BY <1>2, CountCat
<1>7. q # <<>> /\ \A i \in 1 .. Len(q) : q[i] \in Signs \ {Opening}
  <2> DEFINE K == Signs \ {Opening}
  <2>1. \A i \in 1 .. Len(j) : j[i] \in K BY ElementOfSeq
  <2>2. \A i \in 1 .. Len(b) : b[i] \in K BY <1>1, <1>2
  <2> HIDE DEF K
  <2>3. /\ j \o b # <<>> /\ (j \o b)[Len(j \o b)] = b[Len(b)]
        /\ j # <<>> => (j \o b)[1] = j[1]
        /\ \A L : /\ \A i \in 1 .. Len(j) : j[i] \in L
                  /\ \A i \in 1 .. Len(b) : b[i] \in L
                  => \A i \in 1 .. Len(j \o b) : (j \o b)[i] \in L
    BY <1>2, CatEnds
  <2>4. QED BY <2>1, <2>2, <2>3 DEF K
<1> HIDE DEF q
<1>8. a \o q \in Seq(Signs) BY <1>2, <1>5, ConcatProperties
<1>9. \A c : CountOf(a \o q, c) = CountOf(a, c) + CountOf(q, c) BY <1>2, <1>5, CountCat
<1>10. Level(a \o q)
  <2>1. CountOf(q, Opening) = 0 /\ CountOf(q, Closing) = 1 BY <1>3, <1>4, <1>6
  <2>2. CountOf(a \o q, Opening) = 1 /\ CountOf(a \o q, Closing) = 1 BY <1>3, <1>9, <2>1
  <2>3. QED BY <2>2 DEF Level
<1>11. \A i \in 1 .. Len(q) : q[i] # Opening BY <1>7
<1>12. QED BY <1>5, <1>7, <1>8, <1>10, <1>11 DEF Braced, a, b, q

-----------------------------------------------------------------------------
(***************************************************************************)
(* A record is its items in braces.                                        *)
(***************************************************************************)
ItemsOf(names) == Joined(PartsOf(names))

Plain(u) ==
  /\ u # <<>> /\ u[1] \in Words /\ u[Len(u)] \in Words
  /\ \A i \in 1 .. Len(u) : u[i] \in Words \cup {Colon, Comma}

LEMMA ItemsPlain ==
  ASSUME NEW names \in Seq(Names), names # <<>>
  PROVE  ItemsOf(names) \in Seq(Signs) /\ Plain(ItemsOf(names))
<1> DEFINE parts == PartsOf(names)
           n == Len(names)
           u == JoinedUpTo(parts)[n]
<1>1. n \in Nat /\ n # 0 BY LenProperties, EmptySeq
<1>2. parts \in Seq(Seq(Signs)) /\ Len(parts) = n BY PartsFacts
<1>3. Joined(parts) = u BY <1>2, JoinedTurns
<1>4. 1 <= n /\ n <= n BY <1>1
<1>5. /\ u \in Seq(Signs) /\ u # <<>> /\ u[1] \in Words /\ u[Len(u)] \in Words
      /\ \A i \in 1 .. Len(u) : u[i] \in Words \cup {Colon, Comma}
  BY <1>1, <1>4, ItemsChars
<1> HIDE DEF u, parts
<1>6. QED BY <1>3, <1>5 DEF ItemsOf, Plain, parts

\* A text that bears the items has no braces, and ends in none of them or a comma.
LEMMA PlainText ==
  ASSUME NEW j \in Seq(Signs), Plain(Bare(j))
  PROVE  /\ j # <<>> /\ \A i \in 1 .. Len(j) : j[i] # Opening /\ j[i] # Closing
         /\ j[1] \notin {Comma, Closing} /\ j[Len(j)] \notin {Comma, Closing}
<1> DEFINE K == Words \cup {Colon, Comma}
<1>1. /\ Opening \notin K /\ Closing \notin K /\ Opening # Blank /\ Closing # Blank
      /\ Comma \notin Words /\ Closing \notin Words /\ Comma # Blank
  BY Distinct
<1>2. /\ Bare(j) # <<>> /\ Bare(j)[1] \in Words /\ Bare(j)[Len(Bare(j))] \in Words
      /\ \A i \in 1 .. Len(Bare(j)) : Bare(j)[i] \in K
  BY DEF Plain
<1> HIDE DEF K
<1>3. \A i \in 1 .. Len(j) : j[i] # Opening BY <1>1, <1>2, WithoutSign
<1>4. \A i \in 1 .. Len(j) : j[i] # Closing BY <1>1, <1>2, WithoutSign
<1>5. j # <<>> /\ j[1] # Comma /\ j[Len(j)] # Comma BY <1>1, <1>2, EndsWithout
<1>6. j # <<>> /\ j[1] # Closing /\ j[Len(j)] # Closing BY <1>1, <1>2, EndsWithout
<1>7. QED BY <1>3, <1>4, <1>5, <1>6

IsRecord(y, names) == \E j \in Seq(Signs) : y = Braced(j) /\ Bare(j) = ItemsOf(names)

LEMMA RecordCut ==
  ASSUME NEW y \in Seq(Signs), NEW names \in Seq(Names), names # <<>>,
         Bare(y) = Braced(ItemsOf(names)), Tight(y)
  PROVE  IsRecord(y, names)
<1> DEFINE J == ItemsOf(names)
           none == <<>>
           open == <<Opening>>
           shut == <<Closing>>
           K == J \o shut
<1>1. J \in Seq(Signs) /\ Plain(J) BY ItemsPlain
<1>2. /\ Opening \in Signs /\ Closing \in Signs /\ Opening # Blank /\ Closing # Blank
  BY SignFacts, Distinct
<1>3. open \in Seq(Signs) /\ shut \in Seq(Signs) /\ none \in Seq(Signs) BY <1>2, OneText, EmptySeq
<1> HIDE DEF J
<1>4. K \in Seq(Signs) BY <1>1, <1>3, ConcatProperties
<1>5. Bare(y) = Around(none, Opening, K)
  <2>1. Bare(y) = open \o K BY DEF Braced, J
  <2> HIDE DEF open, K
  <2>2. open \o K \in Seq(Signs) BY <1>3, <1>4, ConcatProperties
  <2> DEFINE q == open \o K
  <2> HIDE DEF q
  <2>3. <<>> \o q = q BY <2>2, ConcatEmptySeq DEF q
  <2>4. QED BY <2>1, <2>3 DEF Around, open, q
<1>6. K = Around(J, Closing, none)
  <2> HIDE DEF shut
  <2>1. shut \o <<>> = shut BY <1>3, ConcatEmptySeq
  <2>2. QED BY <2>1 DEF Around, shut
<1> HIDE DEF none, open, shut, K
<1>7. Divides(Signs, y, none, Opening, K) BY <1>2, <1>3, <1>4, <1>5, Cut
<1>8. PICK a, b \in Seq(Signs) : y = Around(a, Opening, b) /\ Bare(a) = none /\ Bare(b) = K
  BY <1>7 DEF Divides
<1>9. Divides(Signs, b, J, Closing, none) BY <1>1, <1>2, <1>3, <1>6, <1>8, Cut
<1>10. PICK j, e \in Seq(Signs) : b = Around(j, Closing, e) /\ Bare(j) = J /\ Bare(e) = none
  BY <1>9 DEF Divides
<1>11. a = <<>>
  <2> DEFINE v == open \o b
  <2>1. v \in Seq(Signs) BY <1>3, ConcatProperties
  <2>2. y = a \o v BY <1>8 DEF Around, open
  <2> HIDE DEF v
  <2>3. Tight(a \o v) BY <2>2
  <2>4. Tight(a) BY <2>1, <2>3, TightFirst
  <2>5. QED BY <1>8, <2>4, TightBlank DEF none
<1>12. b = (j \o shut) \o e
  <2>1. (j \o shut) \o e = j \o (shut \o e)
    <3>1. j \in Seq(Signs) /\ shut \in Seq(Signs) /\ e \in Seq(Signs) BY <1>3
    <3>2. Cat(Cat(j, shut), e) = Cat(j, Cat(shut, e)) BY <3>1, CatCat
    <3>3. QED BY <3>2 DEF Cat
  <2>2. QED BY <1>10, <2>1 DEF Around, shut
<1>13. Plain(Bare(j)) BY <1>1, <1>10
<1>14. \A i \in 1 .. Len(j) : j[i] # Opening /\ j[i] # Closing BY <1>13, PlainText
<1>15. Braced(j) \in Seq(Signs) /\ Level(Braced(j))
  <2>1. /\ Braced(j) \in Seq(Signs) /\ Level(Braced(j))
        /\ j \o <<Closing>> \in Seq(Signs) /\ j \o <<Closing>> # <<>>
        /\ \A i \in 1 .. Len(j \o <<Closing>>) : (j \o <<Closing>>)[i] # Opening
    BY <1>14, BracedFacts
  <2>2. QED BY <2>1
<1>16. y = Braced(j) \o e
  <2> DEFINE q == j \o shut
  <2>1. q \in Seq(Signs) BY <1>3, ConcatProperties
  <2>2. Braced(j) = open \o q BY DEF Braced, open, shut
  <2>3. b = q \o e BY <1>12
  <2> HIDE DEF q
  <2>4. (open \o q) \o e = open \o (q \o e)
    <3>1. open \in Seq(Signs) /\ q \in Seq(Signs) /\ e \in Seq(Signs) BY <1>3, <2>1
    <3>2. Cat(Cat(open, q), e) = Cat(open, Cat(q, e)) BY <3>1, CatCat
    <3>3. QED BY <3>2 DEF Cat
  <2>5. open \o b \in Seq(Signs) BY <1>3, ConcatProperties
  <2> DEFINE z == open \o b
  <2>6. y = <<>> \o z BY <1>8, <1>11 DEF Around, open
  <2> HIDE DEF z
  <2>7. <<>> \o z = z BY <2>5, ConcatEmptySeq DEF z
  <2>8. QED BY <2>2, <2>3, <2>4, <2>6, <2>7 DEF z
<1>17. e = <<>>
  <2> DEFINE u == Braced(j)
  <2>1. u \in Seq(Signs) /\ Level(u) /\ y = u \o e BY <1>15, <1>16
  <2> HIDE DEF u
  <2>2. Tight(u \o e) BY <2>1
  <2>3. Tight(e) BY <2>1, <2>2, TightSecond
  <2>4. QED BY <1>10, <2>3, TightBlank DEF none
<1>18. y = Braced(j)
  <2>1. Braced(j) \o <<>> = Braced(j) BY <1>15, ConcatEmptySeq
  <2>2. QED BY <1>16, <1>17, <2>1
<1>19. QED BY <1>10, <1>18 DEF IsRecord, J

-----------------------------------------------------------------------------
(***************************************************************************)
(* The records of a document.                                              *)
(***************************************************************************)
RecordsOf(document) ==
  [i \in DOMAIN document |->
     <<"{">> \o Joined([k \in DOMAIN document[i] |->
       <<document[i][k], ":", ValueOf(document[i][k])>>]) \o <<"}">>]

IsDocument(d) == d \in Seq(Seq(Names)) /\ d # <<>> /\ \A i \in 1 .. Len(d) : d[i] # <<>>

Marks == Words \cup {Colon, Comma, Opening, Closing}

LEMMA BracedMarks ==
  ASSUME NEW j \in Seq(Signs), Plain(j)
  PROVE  /\ Braced(j) # <<>> /\ \A i \in 1 .. Len(Braced(j)) : Braced(j)[i] \in Marks
         /\ Level(Braced(j)) /\ Braced(j) \in Seq(Signs)
<1> DEFINE a == <<Opening>>
           b == <<Closing>>
           q == j \o b
           K == Words \cup {Colon, Comma}
<1>1. Opening \in Signs /\ Closing \in Signs /\ Opening \in Marks /\ Closing \in Marks
  BY SignFacts DEF Marks
<1>2. /\ a \in Seq(Signs) /\ b \in Seq(Signs) /\ b # <<>> /\ Len(b) = 1 /\ b[1] = Closing
      /\ Len(a) = 1 /\ a[1] = Opening
  BY <1>1, OneText
<1>3. \A i \in 1 .. Len(j) : j[i] \in K BY DEF Plain
<1>4. K \subseteq Marks /\ Opening \notin K /\ Closing \notin K BY Distinct DEF Marks
<1> HIDE DEF a, b, K
<1>5. \A i \in 1 .. Len(j) : j[i] \in Marks /\ j[i] # Opening /\ j[i] # Closing BY <1>3, <1>4
<1>6. /\ Braced(j) \in Seq(Signs) /\ Level(Braced(j))
      /\ j \o <<Closing>> \in Seq(Signs) /\ j \o <<Closing>> # <<>>
      /\ \A i \in 1 .. Len(j \o <<Closing>>) : (j \o <<Closing>>)[i] # Opening
  <2>1. \A i \in 1 .. Len(j) : j[i] # Opening /\ j[i] # Closing BY <1>5
  <2>2. QED BY <2>1, BracedFacts
<1>7. q \in Seq(Signs) /\ q # <<>> BY <1>6 DEF b
<1>8. \A i \in 1 .. Len(q) : q[i] \in Marks
  <2>1. \A i \in 1 .. Len(b) : b[i] \in Marks BY <1>1, <1>2
  <2>2. /\ j \o b # <<>> /\ (j \o b)[Len(j \o b)] = b[Len(b)]
        /\ j # <<>> => (j \o b)[1] = j[1]
        /\ \A L : /\ \A i \in 1 .. Len(j) : j[i] \in L
                  /\ \A i \in 1 .. Len(b) : b[i] \in L
                  => \A i \in 1 .. Len(j \o b) : (j \o b)[i] \in L
    BY <1>2, CatEnds
  <2>3. QED BY <1>5, <2>1, <2>2
<1> HIDE DEF q
<1>9. /\ a \o q # <<>> /\ \A i \in 1 .. Len(a \o q) : (a \o q)[i] \in Marks
  <2>1. \A i \in 1 .. Len(a) : a[i] \in Marks BY <1>1, <1>2
  <2>2. /\ a \o q # <<>> /\ (a \o q)[Len(a \o q)] = q[Len(q)]
        /\ a # <<>> => (a \o q)[1] = a[1]
        /\ \A L : /\ \A i \in 1 .. Len(a) : a[i] \in L
                  /\ \A i \in 1 .. Len(q) : q[i] \in L
                  => \A i \in 1 .. Len(a \o q) : (a \o q)[i] \in L
    BY <1>2, <1>7, CatEnds
  <2>3. QED BY <1>8, <2>1, <2>2
<1>10. Braced(j) = a \o q BY DEF Braced, a, b, q
<1>11. QED BY <1>6, <1>9, <1>10

LEMMA RecordsFacts ==
  ASSUME NEW d, IsDocument(d)
  PROVE  /\ RecordsOf(d) \in Seq(Seq(Signs)) /\ Len(RecordsOf(d)) = Len(d)
         /\ \A i \in 1 .. Len(d) :
              /\ RecordsOf(d)[i] = Braced(ItemsOf(d[i]))
              /\ d[i] \in Seq(Names) /\ d[i] # <<>>
<1>1. Len(d) \in Nat /\ DOMAIN d = 1 .. Len(d)
      /\ \A i \in 1 .. Len(d) : d[i] \in Seq(Names) /\ d[i] # <<>>
  BY LenProperties, ElementOfSeq DEF IsDocument
<1> DEFINE open == <<Opening>>
           shut == <<Closing>>
<1>2. open \in Seq(Signs) /\ shut \in Seq(Signs) BY SignFacts, OneText
<1>3. ASSUME NEW i \in 1 .. Len(d)
      PROVE  (open \o ItemsOf(d[i])) \o shut = Braced(ItemsOf(d[i]))
             /\ Braced(ItemsOf(d[i])) \in Seq(Signs)
  <2> DEFINE J == ItemsOf(d[i])
  <2>1. d[i] \in Seq(Names) /\ d[i] # <<>> BY <1>1
  <2>2. J \in Seq(Signs) /\ Plain(J) BY <2>1, ItemsPlain
  <2> HIDE DEF J, open, shut
  <2>3. Cat(Cat(open, J), shut) = Cat(open, Cat(J, shut)) BY <1>2, <2>2, CatCat
  <2>4. (open \o J) \o shut = Braced(J) BY <2>3 DEF Cat, Braced, open, shut
  <2>5. Braced(J) \in Seq(Signs) BY <2>2, BracedMarks
  <2>6. QED BY <2>4, <2>5 DEF J
<1>4. RecordsOf(d) = [i \in 1 .. Len(d) |-> (open \o ItemsOf(d[i])) \o shut]
  BY <1>1 DEF RecordsOf, ItemsOf, PartsOf, Opening, Closing
<1> HIDE DEF open, shut
<1>5. \A i \in 1 .. Len(d) : (open \o ItemsOf(d[i])) \o shut = Braced(ItemsOf(d[i]))
  BY <1>3
<1>6. RecordsOf(d) = [i \in 1 .. Len(d) |-> Braced(ItemsOf(d[i]))] BY <1>4, <1>5
<1>7. RecordsOf(d) \in [1 .. Len(d) -> Seq(Signs)] BY <1>3, <1>6
<1>8. RecordsOf(d) \in Seq(Seq(Signs)) /\ Len(RecordsOf(d)) = Len(d) BY <1>1, <1>7, FunctionIsSeq
<1>9. \A i \in 1 .. Len(d) : RecordsOf(d)[i] = Braced(ItemsOf(d[i])) BY <1>6
<1>10. QED BY <1>1, <1>8, <1>9

\* The records, joined, leave no brace open.
Balanced(u) ==
  /\ u \in Seq(Signs) /\ u # <<>> /\ Level(u)
  /\ \A i \in 1 .. Len(u) : u[i] \in Marks

LEMMA RecordsBalanced ==
  ASSUME NEW d, IsDocument(d)
  PROVE  \A m \in Nat : 1 <= m /\ m <= Len(d) => Balanced(JoinedUpTo(RecordsOf(d))[m])
<1> DEFINE parts == RecordsOf(d)
           U(m) == JoinedUpTo(parts)[m]
           n == Len(d)
           G == {m \in Nat : 1 <= m /\ m <= n => Balanced(U(m))}
<1>1. /\ parts \in Seq(Seq(Signs)) /\ Len(parts) = n
      /\ \A i \in 1 .. n : parts[i] = Braced(ItemsOf(d[i])) /\ d[i] \in Seq(Names) /\ d[i] # <<>>
  BY RecordsFacts
<1>2. n \in Nat BY LenProperties DEF IsDocument
<1>3. /\ 0 < n => U(1) = parts[1]
      /\ \A i \in 2 .. n : U(i) = U(i - 1) \o (<<Comma>> \o parts[i])
  BY <1>1, JoinedTurns
<1> HIDE DEF parts, U, n
<1>4. ASSUME NEW i \in 1 .. n PROVE Balanced(parts[i])
  <2> DEFINE J == ItemsOf(d[i])
  <2>1. J \in Seq(Signs) /\ Plain(J) BY <1>1, ItemsPlain
  <2> HIDE DEF J
  <2>2. Balanced(Braced(J)) BY <2>1, BracedMarks DEF Balanced
  <2>3. QED BY <1>1, <2>2 DEF J
<1>5. Comma \in Signs /\ Comma \in Marks /\ Comma # Opening /\ Comma # Closing
  BY SignFacts, Distinct DEF Marks
<1>6. 0 \in G OBVIOUS
<1>7. ASSUME NEW m \in Nat, m \in G PROVE m + 1 \in G
  <2> SUFFICES ASSUME m + 1 <= n PROVE Balanced(U(m + 1)) OBVIOUS
  <2>1. CASE m = 0
    <3>1. 1 \in 1 .. n /\ 0 < n /\ m + 1 = 1 BY <1>2, <2>1
    <3>2. QED BY <1>3, <1>4, <3>1
  <2>2. CASE m # 0
    <3> DEFINE k == m + 1
               u == U(m)
               p == parts[k]
               c == <<Comma>>
               v == c \o p
    <3>1. k \in 2 .. n /\ k \in 1 .. n /\ k - 1 = m /\ 1 <= m /\ m <= n BY <1>2, <2>2
    <3>2. Balanced(u) BY <1>7, <3>1
    <3>3. Balanced(p) BY <1>4, <3>1
    <3> HIDE DEF k
    <3>4. U(k) = u \o v BY <1>3, <3>1
    <3> HIDE DEF u, p
    <3>5. c \in Seq(Signs) /\ Len(c) = 1 /\ c[1] = Comma BY <1>5, OneText
    <3>6. \A i \in 1 .. Len(c) : c[i] = Comma BY <3>5
    <3> HIDE DEF c
    <3>7. Level(c)
      <4>1. \A i \in 1 .. Len(c) : c[i] # Opening /\ c[i] # Closing BY <1>5, <3>6
      <4>2. QED BY <3>5, <4>1, LevelPlain
    <3>8. \A i \in 1 .. Len(c) : c[i] \in Marks BY <1>5, <3>6
    <3>9. Balanced(v)
      <4>1. v \in Seq(Signs) BY <3>3, <3>5, ConcatProperties DEF Balanced
      <4>2. Level(v) BY <3>3, <3>5, <3>7, LevelCat DEF Balanced
      <4>3. p \in Seq(Signs) /\ p # <<>> /\ \A i \in 1 .. Len(p) : p[i] \in Marks
        BY <3>3 DEF Balanced
      <4>4. /\ c \o p # <<>> /\ (c \o p)[Len(c \o p)] = p[Len(p)]
            /\ c # <<>> => (c \o p)[1] = c[1]
            /\ \A L : /\ \A i \in 1 .. Len(c) : c[i] \in L
                      /\ \A i \in 1 .. Len(p) : p[i] \in L
                      => \A i \in 1 .. Len(c \o p) : (c \o p)[i] \in L
        BY <3>5, <4>3, CatEnds
      <4>5. QED BY <3>8, <4>1, <4>2, <4>3, <4>4 DEF Balanced
    <3> HIDE DEF v
    <3>10. Balanced(u \o v)
      <4>1. /\ u \in Seq(Signs) /\ (\A i \in 1 .. Len(u) : u[i] \in Marks) /\ Level(u)
            /\ v \in Seq(Signs) /\ v # <<>> /\ (\A i \in 1 .. Len(v) : v[i] \in Marks) /\ Level(v)
        BY <3>2, <3>9 DEF Balanced
      <4>2. u \o v \in Seq(Signs) BY <4>1, ConcatProperties
      <4>3. Level(u \o v) BY <4>1, LevelCat
      <4>4. /\ u \o v # <<>> /\ (u \o v)[Len(u \o v)] = v[Len(v)]
            /\ u # <<>> => (u \o v)[1] = u[1]
            /\ \A L : /\ \A i \in 1 .. Len(u) : u[i] \in L
                      /\ \A i \in 1 .. Len(v) : v[i] \in L
                      => \A i \in 1 .. Len(u \o v) : (u \o v)[i] \in L
        BY <4>1, CatEnds
      <4>5. QED BY <4>1, <4>2, <4>3, <4>4 DEF Balanced
    <3>11. QED BY <3>4, <3>10 DEF k
  <2>3. QED BY <2>1, <2>2
<1>8. \A m \in Nat : m \in G
  <2> HIDE DEF G
  <2>1. QED BY <1>6, <1>7, Induction
<1>9. QED BY <1>8 DEF U, parts, n

LEMMA CatWithin ==
  ASSUME NEW C, NEW u \in Seq(C), NEW v \in Seq(C), NEW K,
         \A i \in 1 .. Len(u) : u[i] \in K, \A i \in 1 .. Len(v) : v[i] \in K
  PROVE  \A i \in 1 .. Len(u \o v) : (u \o v)[i] \in K
<1>1. CASE v = <<>>
  <2>1. u \o v = u BY <1>1, ConcatEmptySeq
  <2>2. QED BY <2>1
<1>2. CASE v # <<>>
  <2>1. /\ u \o v # <<>> /\ (u \o v)[Len(u \o v)] = v[Len(v)]
        /\ u # <<>> => (u \o v)[1] = u[1]
        /\ \A L : /\ \A i \in 1 .. Len(u) : u[i] \in L
                  /\ \A i \in 1 .. Len(v) : v[i] \in L
                  => \A i \in 1 .. Len(u \o v) : (u \o v)[i] \in L
    BY <1>2, CatEnds
  <2>2. QED BY <2>1
<1>3. QED BY <1>1, <1>2

\* What a token of the records holds: the items, a brace and maybe a comma.
Ends == {<<>>, <<Comma>>}
Rest(z) == <<Closing>> \o z

IsToken(r, names) ==
  \E j, e \in Seq(Signs) :
    /\ r = Cat(j, e) /\ Bare(j) = ItemsOf(names)
    /\ \A i \in 1 .. Len(e) : e[i] \in {Comma, Closing}

LEMMA RestFacts ==
  ASSUME NEW z \in Ends
  PROVE  /\ z \in Seq(Signs) /\ Rest(z) \in Seq(Signs) /\ Rest(z) # <<>>
         /\ \A i \in 1 .. Len(Rest(z)) : Rest(z)[i] \in {Comma, Closing}
<1> DEFINE K == {Comma, Closing}
           b == <<Closing>>
           c == <<Comma>>
<1>1. Comma \in Signs /\ Closing \in Signs /\ Comma \in K /\ Closing \in K BY SignFacts
<1>2. /\ b \in Seq(Signs) /\ Len(b) = 1 /\ b[1] = Closing /\ b # <<>>
      /\ c \in Seq(Signs) /\ Len(c) = 1 /\ c[1] = Comma /\ c # <<>>
  BY <1>1, OneText
<1>3. \A i \in 1 .. 1 : i = 1 OBVIOUS
<1> HIDE DEF b, c, K
<1>4. (\A i \in 1 .. Len(b) : b[i] \in K) /\ (\A i \in 1 .. Len(c) : c[i] \in K)
  BY <1>1, <1>2, <1>3
<1>5. CASE z = <<>>
  <2>1. b \o z = b BY <1>2, <1>5, ConcatEmptySeq
  <2>2. z \in Seq(Signs) BY <1>5, EmptySeq
  <2>3. QED BY <1>2, <1>4, <2>1, <2>2 DEF Rest, b, K
<1>6. CASE z = c
  <2>1. b \o c \in Seq(Signs) BY <1>2, ConcatProperties
  <2>2. \A i \in 1 .. Len(b \o c) : (b \o c)[i] \in K BY <1>2, <1>4, CatWithin
  <2>3. /\ b \o c # <<>> /\ (b \o c)[Len(b \o c)] = c[Len(c)]
        /\ b # <<>> => (b \o c)[1] = b[1]
        /\ \A L : /\ \A i \in 1 .. Len(b) : b[i] \in L
                  /\ \A i \in 1 .. Len(c) : c[i] \in L
                  => \A i \in 1 .. Len(b \o c) : (b \o c)[i] \in L
    BY <1>2, CatEnds
  <2>4. Rest(z) = b \o c BY <1>6 DEF Rest, b
  <2>5. QED BY <1>2, <1>6, <2>1, <2>2, <2>3, <2>4 DEF K
<1>7. QED BY <1>5, <1>6 DEF Ends, c

\* The record at the end of a text, with what is behind it.
IsLastToken(y, z, names, q) ==
  /\ q \in Seq(Signs) /\ q # <<>> /\ IsToken(q, names)
  /\ \A i \in 1 .. Len(q) : q[i] # Opening
  /\ Cat(y, z) = <<Opening>> \o q

LEMMA LastToken ==
  ASSUME NEW y \in Seq(Signs), NEW names \in Seq(Names), names # <<>>,
         IsRecord(y, names), NEW z \in Ends
  PROVE  \E q : IsLastToken(y, z, names, q)
<1>1. PICK j \in Seq(Signs) : y = Braced(j) /\ Bare(j) = ItemsOf(names) BY DEF IsRecord
<1>2. Plain(Bare(j)) BY <1>1, ItemsPlain
<1>3. j # <<>> /\ \A i \in 1 .. Len(j) : j[i] # Opening /\ j[i] # Closing BY <1>2, PlainText
<1> DEFINE e == Rest(z)
           open == <<Opening>>
           shut == <<Closing>>
           q == Cat(j, e)
<1>4. /\ z \in Seq(Signs) /\ e \in Seq(Signs) /\ e # <<>>
      /\ \A i \in 1 .. Len(e) : e[i] \in {Comma, Closing}
  BY RestFacts
<1>5. open \in Seq(Signs) /\ shut \in Seq(Signs) BY SignFacts, OneText
<1>6. e = Cat(shut, z) BY DEF Rest, Cat
<1> HIDE DEF open, shut, e
<1>7. q \in Seq(Signs) BY <1>4, ConcatProperties DEF Cat
<1>8. q # <<>>
  <2>1. j \o e # <<>> /\ (j \o e)[Len(j \o e)] = e[Len(e)]
        /\ (j # <<>> => (j \o e)[1] = j[1])
        /\ \A K : /\ \A i \in 1 .. Len(j) : j[i] \in K
                  /\ \A i \in 1 .. Len(e) : e[i] \in K
                  => \A i \in 1 .. Len(j \o e) : (j \o e)[i] \in K
    BY <1>4, CatEnds
  <2>2. QED BY <2>1 DEF Cat
<1>9. \A i \in 1 .. Len(q) : q[i] # Opening
  <2> DEFINE K == Signs \ {Opening}
  <2>1. \A i \in 1 .. Len(j) : j[i] \in K BY <1>3, ElementOfSeq
  <2>2. \A i \in 1 .. Len(e) : e[i] \in K
    <3>1. Comma \in K /\ Closing \in K BY SignFacts, Distinct
    <3> HIDE DEF K
    <3>2. QED BY <1>4, <3>1
  <2>3. \A i \in 1 .. Len(j \o e) : (j \o e)[i] \in K
    <3> HIDE DEF K
    <3>1. QED BY <1>4, <2>1, <2>2, CatWithin
  <2>4. QED BY <2>3 DEF Cat
<1>10. IsToken(q, names) BY <1>1, <1>4 DEF IsToken
<1>11. Cat(y, z) = open \o q
  <2> DEFINE w == Cat(j, shut)
  <2>1. w \in Seq(Signs) BY <1>5, ConcatProperties DEF Cat
  <2>2. y = Cat(open, w) BY <1>1 DEF Braced, Cat, open, shut
  <2>3. Cat(w, z) = q
    <3>1. j \in Seq(Signs) /\ shut \in Seq(Signs) /\ z \in Seq(Signs) BY <1>4, <1>5
    <3>2. Cat(Cat(j, shut), z) = Cat(j, Cat(shut, z)) BY <3>1, CatCat
    <3>3. QED BY <1>6, <3>2
  <2> HIDE DEF w, q
  <2>4. Cat(Cat(open, w), z) = Cat(open, Cat(w, z))
    <3>1. open \in Seq(Signs) /\ w \in Seq(Signs) /\ z \in Seq(Signs) BY <1>4, <1>5, <2>1
    <3>2. QED BY <3>1, CatCat
  <2>5. Cat(y, z) = Cat(open, q) BY <2>2, <2>3, <2>4
  <2>6. QED BY <2>5 DEF Cat
<1>12. QED BY <1>7, <1>8, <1>9, <1>10, <1>11 DEF IsLastToken, open

\* A text that bears the records falls into them at the braces that open them.
LEMMA RecordsSplit ==
  ASSUME NEW d, IsDocument(d)
  PROVE  \A m \in Nat : 1 <= m /\ m <= Len(d) =>
           \A t \in Seq(Signs) : Bare(t) = JoinedUpTo(RecordsOf(d))[m] /\ Tight(t) =>
             \A z \in Ends :
               /\ Split(Cat(t, z), {Opening}) \in Seq(Seq(Signs))
               /\ Len(Split(Cat(t, z), {Opening})) = m
               /\ \A i \in 1 .. m : IsToken(Split(Cat(t, z), {Opening})[i], d[i])
<1> DEFINE parts == RecordsOf(d)
           U(m) == JoinedUpTo(parts)[m]
           n == Len(d)
           O == {Opening}
           Good(t, z, m) == /\ Split(Cat(t, z), O) \in Seq(Seq(Signs))
                            /\ Len(Split(Cat(t, z), O)) = m
                            /\ \A i \in 1 .. m : IsToken(Split(Cat(t, z), O)[i], d[i])
           G == {m \in Nat : 1 <= m /\ m <= n =>
                   \A t \in Seq(Signs) : Bare(t) = U(m) /\ Tight(t) =>
                     \A z \in Ends : Good(t, z, m)}
<1>1. /\ parts \in Seq(Seq(Signs)) /\ Len(parts) = n
      /\ \A i \in 1 .. n : parts[i] = Braced(ItemsOf(d[i])) /\ d[i] \in Seq(Names) /\ d[i] # <<>>
  BY RecordsFacts
<1>2. n \in Nat BY LenProperties DEF IsDocument
<1>3. /\ 0 < n => U(1) = parts[1]
      /\ \A i \in 2 .. n : U(i) = U(i - 1) \o (<<Comma>> \o parts[i])
  BY <1>1, JoinedTurns
<1>4. \A m \in Nat : 1 <= m /\ m <= n => Balanced(U(m)) BY RecordsBalanced
<1> HIDE DEF parts, U, n
<1>5. Comma \in Signs /\ Comma # Blank /\ Opening \in Signs /\ Comma # Opening /\ Comma # Closing
  BY SignFacts, Distinct
<1>6. \A i \in 1 .. n : parts[i] \in Seq(Signs) BY <1>1, ElementOfSeq
<1>7. ASSUME NEW i \in 1 .. n, NEW y \in Seq(Signs), Bare(y) = parts[i], Tight(y), NEW z \in Ends
      PROVE  \E q : IsLastToken(y, z, d[i], q)
  <2>1. d[i] \in Seq(Names) /\ d[i] # <<>> /\ Bare(y) = Braced(ItemsOf(d[i])) BY <1>1, <1>7
  <2>2. IsRecord(y, d[i]) BY <1>7, <2>1, RecordCut
  <2>3. QED BY <2>1, <2>2, LastToken
<1>8. 0 \in G OBVIOUS
<1>9. ASSUME NEW m \in Nat, m \in G PROVE m + 1 \in G
  <2> HIDE DEF Good
  <2> SUFFICES ASSUME m + 1 <= n, NEW t \in Seq(Signs), Bare(t) = U(m + 1), Tight(t),
                      NEW z \in Ends
               PROVE  Good(t, z, m + 1)
    OBVIOUS
  <2> USE DEF Good
  <2>1. CASE m = 0
    <3>1. 1 \in 1 .. n /\ 0 < n /\ m + 1 = 1 BY <1>2, <2>1
    <3>2. Bare(t) = parts[1] BY <1>3, <3>1
    <3>3. PICK q : IsLastToken(t, z, d[1], q) BY <1>7, <3>1, <3>2
    <3>4. q \in Seq(Signs) /\ q # <<>> /\ IsToken(q, d[1]) /\ Cat(t, z) = <<Opening>> \o q
          /\ \A i \in 1 .. Len(q) : q[i] # Opening
      BY <3>3 DEF IsLastToken
    <3>5. Opening \in O /\ \A i \in 1 .. Len(q) : q[i] \notin O BY <3>4
    <3> HIDE DEF O
    <3>6. Split(Cat(t, z), O) = <<q>>
      <4>1. Split(<<Opening>> \o q, O) = <<q>> BY <1>5, <3>4, <3>5, SplitLead
      <4>2. QED BY <3>4, <4>1
    <3> DEFINE T == Seq(Signs)
    <3>7. q \in T BY <3>4
    <3> HIDE DEF T
    <3>8. <<q>> \in Seq(T) /\ Len(<<q>>) = 1 /\ <<q>>[1] = q BY <3>7
    <3>9. \A i \in 1 .. 1 : i = 1 OBVIOUS
    <3>10. Good(t, z, 1) BY <3>4, <3>6, <3>8, <3>9 DEF T
    <3> HIDE DEF Good
    <3>11. QED BY <3>1, <3>10
  <2>2. CASE m # 0
    <3> DEFINE k == m + 1
               u == U(m)
               p == parts[k]
               c == <<Comma>>
    <3>1. k \in 2 .. n /\ k \in 1 .. n /\ k - 1 = m /\ 1 <= m /\ m <= n BY <1>2, <2>2
    <3>2. \A x \in Seq(Signs) : Bare(x) = u /\ Tight(x) => \A w \in Ends : Good(x, w, m)
      BY <1>9, <3>1
    <3>3. u \in Seq(Signs) /\ u # <<>> /\ Level(u) BY <1>4, <3>1 DEF Balanced
    <3>4. p \in Seq(Signs) BY <1>6, <3>1
    <3> HIDE DEF k
    <3>5. Bare(t) = Around(u, Comma, p) BY <1>3, <3>1 DEF k, Around
    <3> HIDE DEF u, p
    <3>6. Divides(Signs, t, u, Comma, p)
      <4>1. /\ u \in Seq(Signs) /\ p \in Seq(Signs) /\ t \in Seq(Signs)
        BY <3>3, <3>4
      <4>2. QED BY ONLY <1>5, <3>5, <4>1, Cut
    <3>7. PICK x, y \in Seq(Signs) : t = Around(x, Comma, y) /\ Bare(x) = u /\ Bare(y) = p
      BY <3>6 DEF Divides
    <3>8. c \in Seq(Signs) /\ Len(c) = 1 /\ c[1] = Comma /\ c # <<>> BY <1>5, OneText
    <3> HIDE DEF c
    <3> DEFINE X == Cat(x, c)
    <3>9. X \in Seq(Signs) BY <3>8, ConcatProperties DEF Cat
    <3>10. t = Cat(x, Cat(c, y)) /\ t = Cat(X, y)
      <4>1. t = Cat(x, Cat(c, y)) BY <3>7 DEF Around, Cat, c
      <4>2. x \in Seq(Signs) /\ y \in Seq(Signs) /\ c \in Seq(Signs) BY <3>8
      <4>3. Cat(Cat(x, c), y) = Cat(x, Cat(c, y)) BY <4>2, CatCat
      <4>4. QED BY <4>1, <4>3
    <3>11. Tight(x)
      <4> DEFINE v == Cat(c, y)
      <4>1. v \in Seq(Signs) BY <3>8, ConcatProperties DEF Cat
      <4> HIDE DEF v
      <4>2. Tight(x \o v) BY <3>10 DEF Cat, v
      <4>3. QED BY <4>1, <4>2, TightFirst
    <3>12. Level(X)
      <4>1. Level(x) BY <3>3, <3>7, LevelBare
      <4>2. \A i \in 1 .. Len(c) : c[i] # Opening /\ c[i] # Closing
        <5>1. \A i \in 1 .. 1 : i = 1 OBVIOUS
        <5>2. QED BY <1>5, <3>8, <5>1
      <4>3. Level(c) BY <3>8, <4>2, LevelPlain
      <4>4. QED BY <3>8, <4>1, <4>3, LevelCat DEF Cat
    <3>13. X # <<>> /\ X[Len(X)] = Comma
      <4>1. /\ x \o c # <<>> /\ (x \o c)[Len(x \o c)] = c[Len(c)]
            /\ x # <<>> => (x \o c)[1] = x[1]
            /\ \A L : /\ \A i \in 1 .. Len(x) : x[i] \in L
                      /\ \A i \in 1 .. Len(c) : c[i] \in L
                      => \A i \in 1 .. Len(x \o c) : (x \o c)[i] \in L
        BY <3>8, CatEnds
      <4>2. QED BY <3>8, <4>1 DEF Cat
    <3>14. Good(x, c, m)
      <4>1. c \in Ends BY DEF Ends, c
      <4>2. QED BY <3>2, <3>7, <3>11, <4>1
    <3> HIDE DEF X
    <3>15. Tight(y)
      <4>1. Tight(X \o y) BY <3>10 DEF Cat
      <4>2. QED BY <3>9, <3>12, <4>1, TightSecond
    <3>16. PICK q : IsLastToken(y, z, d[k], q) BY <1>7, <3>1, <3>7, <3>15 DEF p
    <3>17. q \in Seq(Signs) /\ q # <<>> /\ IsToken(q, d[k]) /\ Cat(y, z) = <<Opening>> \o q
           /\ \A i \in 1 .. Len(q) : q[i] # Opening
      BY <3>16 DEF IsLastToken
    <3>18. Cat(t, z) = Around(X, Opening, q)
      <4>1. z \in Seq(Signs) BY RestFacts
      <4>2. X \in Seq(Signs) /\ y \in Seq(Signs) BY <3>9
      <4>3. Cat(Cat(X, y), z) = Cat(X, Cat(y, z)) BY <4>1, <4>2, CatCat
      <4>4. QED BY <3>10, <3>17, <4>3 DEF Cat, Around
    <3>19. Opening \in O /\ X[Len(X)] \notin O /\ \A i \in 1 .. Len(q) : q[i] \notin O
      BY <1>5, <3>13, <3>17
    <3> HIDE DEF O
    <3> DEFINE s == Split(X, O)
               r == Split(Cat(t, z), O)
    <3>20. r = Append(s, q)
      <4>1. /\ X \in Seq(Signs) /\ q \in Seq(Signs) /\ Opening \in Signs /\ X # <<>> /\ q # <<>>
        BY <1>5, <3>9, <3>13, <3>17
      <4>2. Split(Around(X, Opening, q), O) = Append(Split(X, O), q)
        BY ONLY <3>19, <4>1, SplitAt
      <4>3. QED BY <3>18, <4>2
    <3> DEFINE T == Seq(Signs)
    <3>21. s \in Seq(T) /\ Len(s) = m /\ \A i \in 1 .. m : IsToken(s[i], d[i])
      BY <3>14 DEF X
    <3>22. q \in T BY <3>17
    <3> HIDE DEF T, s, r
    <3>23. /\ r \in Seq(T) /\ Len(r) = Len(s) + 1 /\ Len(s) \in Nat
           /\ \A i \in 1 .. Len(s) : r[i] = s[i]
           /\ r[Len(s) + 1] = q
      <4>1. /\ Append(s, q) \in Seq(T) /\ Len(Append(s, q)) = Len(s) + 1 /\ Len(s) \in Nat
            /\ \A i \in 1 .. Len(s) : Append(s, q)[i] = s[i]
            /\ Append(s, q)[Len(s) + 1] = q
        <5>1. s \in Seq(T) BY <3>21
        <5>2. QED BY ONLY <3>22, <5>1, LastFacts
      <4>2. QED BY <3>20, <4>1
    <3>24. \A i \in 1 .. k : IsToken(r[i], d[i])
      <4> TAKE i \in 1 .. k
      <4>1. k = m + 1 BY DEF k
      <4>2. i \in 1 .. m \/ i = k BY <4>1
      <4>3. CASE i = k BY <3>17, <3>21, <3>23, <4>1, <4>3
      <4>4. CASE i \in 1 .. m BY <3>21, <3>23, <4>4
      <4>5. QED BY <4>2, <4>3, <4>4
    <3>25. Len(r) = k BY <3>21, <3>23 DEF k
    <3>26. Good(t, z, k) BY <3>23, <3>24, <3>25 DEF r, T
    <3>27. QED BY <3>26 DEF k
  <2>3. QED BY <2>1, <2>2
<1>10. \A m \in Nat : m \in G
  <2> HIDE DEF G
  <2>1. QED BY <1>8, <1>9, Induction
<1>11. QED BY <1>10 DEF U, parts, n

\* Such a token has the items of its record, and they mean the record.
LEMMA TokenMeant ==
  ASSUME NEW names \in Seq(Names), names # <<>>, NEW r, IsToken(r, names)
  PROVE  Items(r) # <<>> /\ DataOf(Items(r), {}) = Meant(names)
<1> DEFINE n == Len(names)
           charset == {Comma, Closing}
           none == <<>>
<1>1. PICK j, e \in Seq(Signs) :
        /\ r = Cat(j, e) /\ Bare(j) = ItemsOf(names)
        /\ \A i \in 1 .. Len(e) : e[i] \in {Comma, Closing}
  BY DEF IsToken
<1>2. Plain(Bare(j)) BY <1>1, ItemsPlain
<1>3. j # <<>> /\ j[1] \notin charset /\ j[Len(j)] \notin charset BY <1>2, PlainText
<1>4. none \in Seq(Signs) /\ Len(none) = 0 BY EmptySeq
<1>5. r = none \o (j \o e)
  <2> DEFINE q == j \o e
  <2>1. q \in Seq(Signs) BY ConcatProperties
  <2> HIDE DEF q
  <2>2. <<>> \o q = q BY <2>1, ConcatEmptySeq
  <2>3. QED BY <1>1, <2>2 DEF Cat, q
<1>6. Trim(r, charset) = j
  <2>1. \A i \in 1 .. Len(e) : e[i] \in charset BY <1>1
  <2> HIDE DEF none, charset
  <2>2. \A i \in 1 .. Len(none) : none[i] \in charset BY <1>4
  <2>3. j \in Seq(Signs) /\ e \in Seq(Signs) /\ none \in Seq(Signs) BY <1>4
  <2>4. Trim(none \o (j \o e), charset) = j BY ONLY <1>3, <2>1, <2>2, <2>3, TrimCore
  <2>5. QED BY <1>5, <2>4
<1>7. Items(r) = Split(j, {Comma}) BY <1>6 DEF Items, Comma, Closing
<1>8. n \in Nat /\ 1 <= n /\ n <= n
  <2>1. n \in Nat /\ n # 0 BY LenProperties, EmptySeq
  <2>2. QED BY <2>1
<1>9. Bare(j) = JoinedUpTo(PartsOf(names))[n]
  <2>1. PartsOf(names) \in Seq(Seq(Signs)) /\ Len(PartsOf(names)) = n BY PartsFacts
  <2>2. Joined(PartsOf(names)) = JoinedUpTo(PartsOf(names))[n] BY <2>1, JoinedTurns
  <2>3. QED BY <1>1, <2>2 DEF ItemsOf
<1> DEFINE s == Split(j, {Comma})
<1> HIDE DEF n
<1>10. s \in Seq(Seq(Signs)) /\ Len(s) = n /\ \A i \in 1 .. n : Bare(s[i]) = ItemText(names[i])
  BY <1>8, <1>9, ItemsSplit DEF n
<1> HIDE DEF s
<1>11. s # <<>>
  <2>1. Len(s) # 0 BY <1>8, <1>10
  <2>2. QED BY <2>1, EmptySeq
<1>12. DataOf(s, {}) = Meant(names) BY <1>10, DataMeant DEF n
<1>13. QED BY <1>7, <1>11, <1>12 DEF s

LEMMA FourText ==
  ASSUME NEW C, NEW a \in C, NEW b \in C, NEW c \in C, NEW d \in C
  PROVE  Cat(<<a, b, c>>, <<d>>) = <<a, b, c, d>>
<1> DEFINE u == <<a, b, c>>
           v == <<d>>
           w == <<a, b, c, d>>
           z == u \o v
<1>1. /\ u \in Seq(C) /\ Len(u) = 3 /\ u[1] = a /\ u[2] = b /\ u[3] = c
      /\ v \in Seq(C) /\ Len(v) = 1 /\ v[1] = d
      /\ w \in Seq(C) /\ Len(w) = 4 /\ w[1] = a /\ w[2] = b /\ w[3] = c /\ w[4] = d
  OBVIOUS
<1> HIDE DEF u, v, w
<1>2. /\ Len(u) \in Nat /\ Len(v) \in Nat
      /\ z \in Seq(C) /\ Len(z) = Len(u) + Len(v)
      /\ \A i \in 1 .. Len(u) : z[i] = u[i]
      /\ \A i \in 1 .. Len(v) : z[Len(u) + i] = v[i]
  <2>1. u \in Seq(C) /\ v \in Seq(C) BY <1>1
  <2>2. QED BY ONLY <2>1, CatFacts
<1> HIDE DEF z
<1>3. Len(z) = 4 /\ z[1] = a /\ z[2] = b /\ z[3] = c /\ z[4] = d
  <2>1. 1 \in 1 .. 3 /\ 2 \in 1 .. 3 /\ 3 \in 1 .. 3 /\ 1 \in 1 .. 1 /\ 3 + 1 = 4 OBVIOUS
  <2>2. QED BY <1>1, <1>2, <2>1
<1>4. \A i \in 1 .. 4 : i \in {1, 2, 3, 4} OBVIOUS
<1>5. \A i \in 1 .. Len(z) : z[i] = w[i] BY <1>1, <1>3, <1>4
<1>6. z = w BY <1>1, <1>2, <1>3, <1>5, SeqEqual
<1>7. QED BY <1>6 DEF Cat, z, u, v, w

LEMMA TwoText ==
  ASSUME NEW C, NEW a \in C, NEW b \in C
  PROVE  Cat(<<a>>, <<b>>) = <<a, b>>
<1> DEFINE u == <<a>>
           v == <<b>>
           w == <<a, b>>
           z == u \o v
<1>1. /\ u \in Seq(C) /\ Len(u) = 1 /\ u[1] = a
      /\ v \in Seq(C) /\ Len(v) = 1 /\ v[1] = b
      /\ w \in Seq(C) /\ Len(w) = 2 /\ w[1] = a /\ w[2] = b
  OBVIOUS
<1> HIDE DEF u, v, w
<1>2. /\ Len(u) \in Nat /\ Len(v) \in Nat
      /\ z \in Seq(C) /\ Len(z) = Len(u) + Len(v)
      /\ \A i \in 1 .. Len(u) : z[i] = u[i]
      /\ \A i \in 1 .. Len(v) : z[Len(u) + i] = v[i]
  <2>1. u \in Seq(C) /\ v \in Seq(C) BY <1>1
  <2>2. QED BY ONLY <2>1, CatFacts
<1> HIDE DEF z
<1>3. Len(z) = 2 /\ z[1] = a /\ z[2] = b
  <2>1. 1 \in 1 .. 1 /\ 1 + 1 = 2 OBVIOUS
  <2>2. QED BY <1>1, <1>2, <2>1
<1>4. \A i \in 1 .. 2 : i \in {1, 2} OBVIOUS
<1>5. \A i \in 1 .. Len(z) : z[i] = w[i] BY <1>1, <1>3, <1>4
<1>6. z = w BY <1>1, <1>2, <1>3, <1>5, SeqEqual
<1>7. QED BY <1>6 DEF Cat, z, u, v, w
-----------------------------------------------------------------------------
(***************************************************************************)
(* A document, and its text.                                               *)
(***************************************************************************)
Front == <<Opening, Data, Colon>>
Body(d) == Joined(RecordsOf(d))

LEMMA BodyBalanced ==
  ASSUME NEW d, IsDocument(d)
  PROVE  Body(d) = JoinedUpTo(RecordsOf(d))[Len(d)] /\ Balanced(Body(d))
         /\ Len(d) \in Nat /\ 1 <= Len(d)
<1> DEFINE n == Len(d)
<1>1. n \in Nat /\ n # 0 BY LenProperties, EmptySeq DEF IsDocument
<1>2. 1 <= n /\ n <= n BY <1>1
<1>3. RecordsOf(d) \in Seq(Seq(Signs)) /\ Len(RecordsOf(d)) = n BY RecordsFacts
<1>4. Joined(RecordsOf(d)) = JoinedUpTo(RecordsOf(d))[n] BY <1>3, JoinedTurns
<1>5. Balanced(JoinedUpTo(RecordsOf(d))[n]) BY <1>1, <1>2, RecordsBalanced
<1>6. QED BY <1>1, <1>2, <1>4, <1>5 DEF Body

LEMMA FrontFacts ==
  /\ Front \in Seq(Signs) /\ Front = Around(<<Opening>>, Data, <<Colon>>)
  /\ \A i \in 1 .. Len(Front) : Front[i] \in {Opening, Data, Colon}
  /\ Front # <<>> /\ Front[Len(Front)] = Colon
<1>1. Opening \in Signs /\ Data \in Signs /\ Colon \in Signs BY SignFacts
<1>2. Front = Around(<<Opening>>, Data, <<Colon>>) BY <1>1, ThreeText DEF Front
<1>3. /\ <<Opening, Data, Colon>> \in Seq(Signs) /\ Len(<<Opening, Data, Colon>>) = 3
      /\ <<Opening, Data, Colon>>[1] = Opening /\ <<Opening, Data, Colon>>[2] = Data
      /\ <<Opening, Data, Colon>>[3] = Colon
  BY <1>1
<1>4. Front \in Seq(Signs) /\ Len(Front) = 3 /\ Front[1] = Opening /\ Front[2] = Data
      /\ Front[3] = Colon
  BY <1>3 DEF Front
<1>5. \A i \in 1 .. 3 : i \in {1, 2, 3} OBVIOUS
<1>6. Front # <<>>
  <2>1. Len(Front) # 0 BY <1>4
  <2>2. QED BY <2>1, EmptySeq
<1>7. QED BY <1>2, <1>4, <1>5, <1>6

\* The text of a document, with what surrounds its body.
LEMMA RenderedIs ==
  ASSUME NEW d, IsDocument(d)
  PROVE  Rendered(d) = Around(Front, Left, Around(Body(d), Right, <<Closing>>))
<1> DEFINE front4 == <<"{", "data", ":", "[">>
           back   == <<"]", "}">>
           left   == <<Left>>
           right  == <<Right>>
           shut   == <<Closing>>
           B == Body(d)
<1>1. B \in Seq(Signs) BY BodyBalanced DEF Balanced
<1>2. /\ left \in Seq(Signs) /\ right \in Seq(Signs) /\ shut \in Seq(Signs)
      /\ Front \in Seq(Signs)
  BY SignFacts, OneText, FrontFacts
<1>3. Rendered(d) = (front4 \o B) \o back BY DEF Rendered, Body, RecordsOf
<1>4. front4 = Cat(Front, left)
  <2>1. Opening \in Signs /\ Data \in Signs /\ Colon \in Signs /\ Left \in Signs BY SignFacts
  <2>2. Cat(<<Opening, Data, Colon>>, <<Left>>) = <<Opening, Data, Colon, Left>>
    BY <2>1, FourText
  <2>3. QED BY <2>2 DEF Front, Opening, Data, Colon, Left
<1>5. back = Cat(right, shut)
  <2>1. Right \in Signs /\ Closing \in Signs BY SignFacts
  <2>2. Cat(<<Right>>, <<Closing>>) = <<Right, Closing>> BY <2>1, TwoText
  <2>3. QED BY <2>2 DEF Right, Closing
<1> HIDE DEF front4, back, left, right, shut, B
<1>6. front4 \in Seq(Signs) /\ back \in Seq(Signs) BY <1>2, <1>4, <1>5, ConcatProperties DEF Cat
<1>7. Cat(Cat(front4, B), back) = Cat(front4, Cat(B, back)) BY <1>1, <1>6, CatCat
<1>8. Cat(B, back) \in Seq(Signs) BY <1>1, <1>6, ConcatProperties DEF Cat
<1> DEFINE w == Cat(B, back)
<1> HIDE DEF w
<1>9. Cat(Cat(Front, left), w) = Cat(Front, Cat(left, w)) BY <1>2, <1>8, CatCat DEF w
<1>10. Rendered(d) = Cat(Front, Cat(left, Cat(B, Cat(right, shut))))
  <2>1. Rendered(d) = Cat(Cat(front4, B), back) BY <1>3 DEF Cat
  <2>2. QED BY <1>4, <1>5, <1>7, <1>9, <2>1 DEF w
<1>11. QED BY <1>10 DEF Cat, Around, B, left, right, shut

LEMMA AroundType ==
  ASSUME NEW C, NEW x \in Seq(C), NEW c \in C, NEW y \in Seq(C)
  PROVE  Around(x, c, y) \in Seq(C)
BY AroundFacts

LEMMA AroundAround ==
  ASSUME NEW C, NEW x \in Seq(C), NEW c \in C, NEW y \in Seq(C), NEW e \in C, NEW z \in Seq(C)
  PROVE  Around(x, c, Around(y, e, z)) = Around(Around(x, c, y), e, z)
<1> DEFINE u == <<c>>
           p == Cat(x, u)
           t == Around(y, e, z)
<1>1. u \in Seq(C) BY OneText
<1>2. t \in Seq(C) BY AroundType
<1> HIDE DEF u, t
<1>3. p \in Seq(C) BY <1>1, ConcatProperties DEF Cat
<1>4. Cat(Cat(x, u), t) = Cat(x, Cat(u, t)) BY <1>1, <1>2, CatCat
<1>5. Cat(Cat(x, u), y) = Cat(x, Cat(u, y)) BY <1>1, CatCat
<1> HIDE DEF p
<1>6. Cat(p, Around(y, e, z)) = Around(Cat(p, y), e, z)
  <2>1. p \in Seq(C) /\ y \in Seq(C) /\ e \in C /\ z \in Seq(C) BY <1>3
  <2>2. QED BY ONLY <2>1, AroundBefore
<1>7. Around(x, c, t) = Cat(x, Cat(u, t)) /\ Around(x, c, y) = Cat(x, Cat(u, y))
  BY DEF Around, Cat, u
<1>8. QED BY <1>4, <1>5, <1>6, <1>7 DEF p, t

LEMMA CountAround ==
  ASSUME NEW C, NEW x \in Seq(C), NEW e \in C, NEW y \in Seq(C), NEW c
  PROVE  CountOf(Around(x, e, y), c) = CountOf(x, c) + (IF e = c THEN 1 ELSE 0) + CountOf(y, c)
<1> DEFINE u == <<e>>
           v == u \o y
<1>1. u \in Seq(C) /\ CountOf(u, c) = IF e = c THEN 1 ELSE 0 BY OneText, CountOne
<1> HIDE DEF u
<1>2. v \in Seq(C) BY <1>1, ConcatProperties
<1>3. CountOf(u \o y, c) = CountOf(u, c) + CountOf(y, c) BY <1>1, CountCat
<1> HIDE DEF v
<1>4. CountOf(x \o v, c) = CountOf(x, c) + CountOf(v, c) BY <1>2, CountCat
<1>5. Around(x, e, y) = x \o v BY DEF Around, u, v
<1>6. CountOf(x, c) \in Nat /\ CountOf(y, c) \in Nat BY CountType
<1>7. CountOf(v, c) = CountOf(u, c) + CountOf(y, c) BY <1>3 DEF v
<1>8. QED BY <1>1, <1>4, <1>5, <1>6, <1>7

LEMMA FrontCounts ==
  /\ CountOf(Front, Opening) = 1 /\ CountOf(Front, Closing) = 0
  /\ CountOf(Front, Left) = 0 /\ CountOf(Front, Right) = 0
<1> DEFINE u == <<Opening>>
           v == <<Colon>>
<1>1. /\ Opening \in Signs /\ Data \in Signs /\ Colon \in Signs
      /\ Opening # Closing /\ Opening # Left /\ Opening # Right
      /\ Data \notin {Opening, Closing, Left, Right} /\ Colon \notin {Opening, Closing, Left, Right}
  BY SignFacts, Distinct
<1>2. u \in Seq(Signs) /\ v \in Seq(Signs) BY <1>1, OneText
<1>3. \A c : CountOf(u, c) = (IF Opening = c THEN 1 ELSE 0)
  <2> TAKE c
  <2>1. QED BY <1>1, CountOne
<1>4. \A c : CountOf(v, c) = (IF Colon = c THEN 1 ELSE 0)
  <2> TAKE c
  <2>1. QED BY <1>1, CountOne
<1>5. Front = Around(u, Data, v) BY FrontFacts
<1> HIDE DEF u, v
<1>6. \A c : CountOf(Around(u, Data, v), c)
               = CountOf(u, c) + (IF Data = c THEN 1 ELSE 0) + CountOf(v, c)
  BY <1>1, <1>2, CountAround
<1>7. QED BY <1>1, <1>3, <1>4, <1>5, <1>6

\* The characters before a blank of the file, counted.
BlankBehind(f, x) ==
  /\ Len(x) + 1 \in DOMAIN f /\ f[Len(x) + 1] = Blank
  /\ \A c : c # Blank =>
       Cardinality({j \in 1 .. Len(x) + 1 : f[j] = c}) = CountOf(x, c)

LEMMA CountBefore ==
  ASSUME NEW C, NEW f \in Seq(C), NEW x \in Seq(C), NEW y \in Seq(C), Blank \in C,
         f = Around(x, Blank, y)
  PROVE  BlankBehind(f, x)
<1> DEFINE n == Len(x)
<1>1. Has(f, x, Blank, y) BY AroundFacts
<1>2. /\ Len(f) = n + 1 + Len(y) /\ n \in Nat /\ Len(y) \in Nat
      /\ \A i \in 1 .. n : f[i] = x[i]
      /\ f[n + 1] = Blank
  BY <1>1 DEF Has
<1>3. DOMAIN f = 1 .. Len(f) BY LenProperties
<1> HIDE DEF n
<1>4. n + 1 \in DOMAIN f BY <1>2, <1>3
<1>5. ASSUME NEW c, c # Blank
      PROVE  {j \in 1 .. n + 1 : f[j] = c} = {j \in 1 .. n : x[j] = c}
  <2>1. \A j : j \in 1 .. n + 1 <=> (j \in 1 .. n \/ j = n + 1) BY <1>2
  <2>2. \A j \in 1 .. n + 1 : f[j] = c => j \in 1 .. n BY <1>2, <1>5, <2>1
  <2>3. QED BY <1>2, <2>1, <2>2
<1>6. \A c : c # Blank => Cardinality({j \in 1 .. n + 1 : f[j] = c}) = CountOf(x, c)
  BY <1>5 DEF CountOf, n
<1>7. QED BY <1>2, <1>4, <1>6 DEF n, BlankBehind

\* Where no blank is between records, none is where the braces are level.
LEMMA BodyTight ==
  ASSUME file \in Seq(Signs), ~BlankBetweenRecords,
         NEW a \in Seq(Signs), NEW b \in Seq(Signs), NEW e \in Seq(Signs),
         file = Around(a, Left, Around(b, Right, e)), Bare(a) = Front,
         \A i \in 1 .. Len(b) : b[i] # Left /\ b[i] # Right
  PROVE  Tight(b)
<1> SUFFICES ASSUME NEW x \in Seq(Signs), NEW y \in Seq(Signs), b = Around(x, Blank, y), Level(x)
             PROVE  BlankBetweenRecords
  BY DEF Tight
<1> DEFINE P == Around(a, Left, x)
           w == Around(y, Right, e)
           i == Len(P) + 1
<1>1. /\ Left \in Signs /\ Right \in Signs /\ Blank \in Signs
      /\ Left # Right /\ Left # Opening /\ Left # Closing
      /\ Left # Blank /\ Right # Blank /\ Opening # Blank /\ Closing # Blank
  BY SignFacts, Distinct
<1>2. P \in Seq(Signs) /\ w \in Seq(Signs) BY <1>1, AroundType
<1>3. file = Around(P, Blank, w)
  <2>1. Around(x, Blank, Around(y, Right, e)) = Around(Around(x, Blank, y), Right, e)
    BY <1>1, AroundAround
  <2> HIDE DEF w
  <2>2. Around(a, Left, Around(x, Blank, w)) = Around(Around(a, Left, x), Blank, w)
    BY <1>1, <1>2, AroundAround
  <2>3. QED BY <2>1, <2>2 DEF w
<1> HIDE DEF w
<1>4. /\ i \in DOMAIN file /\ file[i] = Blank
      /\ \A c : c # Blank => Cardinality({j \in 1 .. i : file[j] = c}) = CountOf(P, c)
  <2> HIDE DEF P
  <2>1. file \in Seq(Signs) /\ P \in Seq(Signs) /\ w \in Seq(Signs) /\ Blank \in Signs
        /\ file = Around(P, Blank, w)
    BY <1>1, <1>2, <1>3
  <2>2. BlankBehind(file, P) BY ONLY <2>1, CountBefore
  <2>3. QED BY <2>2 DEF BlankBehind, i
<1>5. \A c : CountOf(P, c) = CountOf(a, c) + (IF Left = c THEN 1 ELSE 0) + CountOf(x, c)
  BY <1>1, CountAround
<1>6. /\ CountOf(a, Opening) = 1 /\ CountOf(a, Closing) = 0
      /\ CountOf(a, Left) = 0 /\ CountOf(a, Right) = 0
  <2>1. \A c : c # Blank => CountOf(Bare(a), c) = CountOf(a, c) BY CountBare
  <2>2. QED BY <1>1, <2>1, FrontCounts
<1>7. \A k \in 1 .. Len(x) : x[k] # Left /\ x[k] # Right
  <2>1. Has(b, x, Blank, y) BY <1>1, AroundFacts
  <2>2. \A k \in 1 .. Len(x) : b[k] = x[k] /\ k \in 1 .. Len(b)
    <3>1. Len(b) = Len(x) + 1 + Len(y) /\ Len(x) \in Nat /\ Len(y) \in Nat BY <2>1 DEF Has
    <3>2. \A k \in 1 .. Len(x) : b[k] = x[k] BY <2>1 DEF Has
    <3>3. \A k \in 1 .. Len(x) : k \in 1 .. Len(b) BY <3>1
    <3>4. QED BY <3>2, <3>3
  <2>3. QED BY <2>2
<1>8. CountOf(x, Left) = 0 /\ CountOf(x, Right) = 0
  <2>1. \A k \in 1 .. Len(x) : x[k] # Left BY <1>7
  <2>2. \A k \in 1 .. Len(x) : x[k] # Right BY <1>7
  <2>3. QED BY <2>1, <2>2, CountNone
<1>9. CountOf(x, Opening) = CountOf(x, Closing) /\ CountOf(x, Opening) \in Nat
  BY CountType DEF Level
<1> DEFINE Count(c) == Cardinality({j \in 1 .. i : file[j] = c})
<1> HIDE DEF P, i
<1>10. Count(Left) = 1 /\ Count(Right) = 0 /\ Count(Opening) - Count(Closing) = 1
  <2>1. /\ Count(Left) = CountOf(P, Left) /\ Count(Right) = CountOf(P, Right)
        /\ Count(Opening) = CountOf(P, Opening) /\ Count(Closing) = CountOf(P, Closing)
    BY <1>1, <1>4
  <2> HIDE DEF Count
  <2>2. CountOf(P, Left) = 1 /\ CountOf(P, Right) = 0 BY <1>1, <1>5, <1>6, <1>8
  <2>3. CountOf(P, Opening) = 1 + CountOf(x, Opening) /\ CountOf(P, Closing) = CountOf(x, Closing)
    BY <1>1, <1>5, <1>6, <1>9
  <2>4. QED BY <1>9, <2>1, <2>2, <2>3
<1>11. QED BY <1>4, <1>10 DEF BlankBetweenRecords, Blank, Left, Right, Opening, Closing

-----------------------------------------------------------------------------
(***************************************************************************)
(* The text of a document, split at its brackets.                          *)
(***************************************************************************)
Brackets == {Left, Right}

Unbracketed(x) == \A i \in 1 .. Len(x) : x[i] # Left /\ x[i] # Right

HoldsRecords(rs, d) ==
  /\ rs \in Seq(Seq(Signs)) /\ Len(rs) = Len(d)
  /\ \A i \in 1 .. Len(d) : IsToken(rs[i], d[i])

IsText(ts, d) ==
  /\ ts \in Seq(Seq(Signs)) /\ Len(ts) = 3 /\ Name(ts[1]) = <<Data>>
  /\ HoldsRecords(Split(ts[2], {Opening}), d)

LEMMA FrontPart ==
  ASSUME NEW a \in Seq(Signs), Bare(a) = Front
  PROVE  a # <<>> /\ Unbracketed(a) /\ Name(a) = <<Data>>
<1> DEFINE K == {Opening, Data, Colon}
           charset == {Opening, Closing, Blank, Colon}
           u == <<Opening>>
           v == <<Colon>>
<1>1. /\ Left \notin K /\ Right \notin K /\ Left # Blank /\ Right # Blank
      /\ Data # Blank /\ Data \notin charset /\ Blank \in charset
      /\ Opening \in charset /\ Colon \in charset
      /\ Opening \in Signs /\ Colon \in Signs /\ Data \in Signs
  BY Distinct, SignFacts
<1>2. /\ u \in Seq(Signs) /\ Len(u) = 1 /\ u[1] = Opening
      /\ v \in Seq(Signs) /\ Len(v) = 1 /\ v[1] = Colon
  BY <1>1, OneText
<1>3. /\ Front = Around(u, Data, v) /\ Front # <<>>
      /\ \A i \in 1 .. Len(Front) : Front[i] \in K
  BY FrontFacts
<1>4. Name(a) = Trim(a, charset) BY DEF Name, charset, Opening, Closing, Blank, Colon
<1>5. a # <<>> BY <1>3, BareEmpty
<1> HIDE DEF K, u, v, charset
<1>6. \A j \in 1 .. Len(Bare(a)) : Bare(a)[j] \in K BY <1>3
<1>7. \A i \in 1 .. Len(a) : a[i] # Left BY <1>1, <1>6, WithoutSign
<1>8. \A i \in 1 .. Len(a) : a[i] # Right BY <1>1, <1>6, WithoutSign
<1>9. \A i \in 1 .. 1 : i = 1 OBVIOUS
<1>10. /\ \A i \in 1 .. Len(u) : u[i] \in charset
       /\ \A i \in 1 .. Len(v) : v[i] \in charset
  BY <1>1, <1>2, <1>9
<1>11. Bare(a) = Around(u, Data, v) BY <1>3
<1>12. Trim(a, charset) = <<Data>>
  <2>1. a \in Seq(Signs) /\ u \in Seq(Signs) /\ v \in Seq(Signs) /\ Data \in Signs BY <1>1, <1>2
  <2>2. Data # Blank /\ Data \notin charset /\ Blank \in charset BY <1>1
  <2>3. QED BY ONLY <2>1, <2>2, <1>10, <1>11, TrimWord
<1>13. QED BY <1>4, <1>5, <1>7, <1>8, <1>12 DEF Unbracketed

LEMMA BodyPart ==
  ASSUME NEW d, IsDocument(d), NEW b \in Seq(Signs), Bare(b) = Body(d)
  PROVE  b # <<>> /\ Unbracketed(b)
<1>1. Balanced(Body(d)) BY BodyBalanced
<1>2. Body(d) # <<>> /\ \A i \in 1 .. Len(Body(d)) : Body(d)[i] \in Marks BY <1>1 DEF Balanced
<1>3. /\ Left \notin Marks /\ Right \notin Marks /\ Left # Blank /\ Right # Blank
  BY Distinct DEF Marks
<1>4. \A j \in 1 .. Len(Bare(b)) : Bare(b)[j] \in Marks BY <1>2
<1>5. \A i \in 1 .. Len(b) : b[i] # Left BY <1>3, <1>4, WithoutSign
<1>6. \A i \in 1 .. Len(b) : b[i] # Right BY <1>3, <1>4, WithoutSign
<1>7. b # <<>> BY <1>2, BareEmpty
<1>8. QED BY <1>5, <1>6, <1>7 DEF Unbracketed

IsJunk(junk) == junk \in Seq(Signs) /\ \A i \in 1 .. Len(junk) : junk[i] = "?"

LEMMA BackPart ==
  ASSUME NEW e \in Seq(Signs), Bare(e) = <<Closing>>, NEW junk, IsJunk(junk)
  PROVE  Cat(e, junk) \in Seq(Signs) /\ Cat(e, junk) # <<>> /\ Unbracketed(Cat(e, junk))
<1> DEFINE K == {Closing}
           u == <<Closing>>
           z == Cat(e, junk)
           L == Signs \ {Left, Right}
<1>1. /\ Left \notin K /\ Right \notin K /\ Left # Blank /\ Right # Blank /\ Closing \in Signs
      /\ "?" # Left /\ "?" # Right
  BY Distinct, SignFacts
<1>2. u \in Seq(Signs) /\ Len(u) = 1 /\ u[1] = Closing /\ u # <<>> BY <1>1, OneText
<1>3. \A i \in 1 .. 1 : i = 1 OBVIOUS
<1>4. Bare(e) = u OBVIOUS
<1> HIDE DEF u
<1>5. \A j \in 1 .. Len(Bare(e)) : Bare(e)[j] \in K BY <1>2, <1>3, <1>4
<1> HIDE DEF K
<1>6. \A i \in 1 .. Len(e) : e[i] # Left BY <1>1, <1>5, WithoutSign
<1>7. \A i \in 1 .. Len(e) : e[i] # Right BY <1>1, <1>5, WithoutSign
<1>8. junk \in Seq(Signs) /\ \A i \in 1 .. Len(junk) : junk[i] = "?" BY DEF IsJunk
<1>9. \A i \in 1 .. Len(e) : e[i] \in L BY <1>6, <1>7, ElementOfSeq
<1>10. \A i \in 1 .. Len(junk) : junk[i] \in L BY <1>1, <1>8, ElementOfSeq
<1> HIDE DEF L
<1>11. \A i \in 1 .. Len(e \o junk) : (e \o junk)[i] \in L BY <1>8, <1>9, <1>10, CatWithin
<1>12. z \in Seq(Signs) BY <1>8, ConcatProperties DEF Cat
<1>13. z # <<>>
  <2>1. e # <<>> BY <1>2, <1>4, BareEmpty
  <2>2. Len(e) \in Nat /\ Len(e) # 0 /\ Len(junk) \in Nat BY <1>8, <2>1, EmptySeq, LenProperties
  <2>3. Len(e \o junk) = Len(e) + Len(junk) BY <1>8, ConcatProperties
  <2>4. Len(z) # 0 BY <2>2, <2>3 DEF Cat
  <2>5. QED BY <2>4, EmptySeq
<1>14. \A i \in 1 .. Len(z) : z[i] \in L BY <1>11 DEF Cat
<1> HIDE DEF z
<1>15. Unbracketed(z) BY <1>14 DEF Unbracketed, L
<1>16. QED BY <1>12, <1>13, <1>15 DEF z

\* What the text, cut at its brackets, consists of.
Falls(f, a, b, e) ==
  /\ a \in Seq(Signs) /\ b \in Seq(Signs) /\ e \in Seq(Signs)
  /\ f = Around(a, Left, Around(b, Right, e))

LEMMA DocumentCut ==
  ASSUME NEW f \in Seq(Signs), NEW d, IsDocument(d), Bare(f) = Rendered(d)
  PROVE  \E a, b, e : Falls(f, a, b, e) /\ Bare(a) = Front /\ Bare(b) = Body(d)
                      /\ Bare(e) = <<Closing>>
<1> DEFINE u == <<Closing>>
           B == Body(d)
           w == Around(B, Right, u)
<1>1. /\ Left \in Signs /\ Right \in Signs /\ Closing \in Signs
      /\ Left # Blank /\ Right # Blank
  BY SignFacts, Distinct
<1>2. u \in Seq(Signs) BY <1>1, OneText
<1>3. B \in Seq(Signs) BY BodyBalanced DEF Balanced
<1>4. Bare(f) = Around(Front, Left, w) BY RenderedIs
<1> HIDE DEF u, B
<1>5. w \in Seq(Signs) BY <1>1, <1>2, <1>3, AroundType
<1> HIDE DEF w
<1>6. Front \in Seq(Signs) BY FrontFacts
<1>7. Divides(Signs, f, Front, Left, w) BY <1>1, <1>4, <1>5, <1>6, Cut
<1>8. PICK a, t \in Seq(Signs) : f = Around(a, Left, t) /\ Bare(a) = Front /\ Bare(t) = w
  BY <1>7 DEF Divides
<1>9. Bare(t) = Around(B, Right, u) BY <1>8 DEF w
<1>10. Divides(Signs, t, B, Right, u) BY <1>1, <1>2, <1>3, <1>9, Cut
<1>11. PICK b, e \in Seq(Signs) : t = Around(b, Right, e) /\ Bare(b) = B /\ Bare(e) = u
  BY <1>10 DEF Divides
<1>12. QED BY <1>8, <1>11 DEF Falls, B, u

LEMMA DocumentSplit ==
  ASSUME file \in Seq(Signs), ~BlankBetweenRecords, NEW d, IsDocument(d), Bare(file) = Rendered(d),
         NEW junk, IsJunk(junk)
  PROVE  IsText(Split(Cat(file, junk), Brackets), d)
<1>1. PICK a, b, e : Falls(file, a, b, e) /\ Bare(a) = Front /\ Bare(b) = Body(d)
                     /\ Bare(e) = <<Closing>>
  BY DocumentCut
<1> DEFINE w == Cat(e, junk)
           x == Around(a, Left, b)
           none == <<>>
<1>2. /\ a \in Seq(Signs) /\ b \in Seq(Signs) /\ e \in Seq(Signs)
      /\ file = Around(a, Left, Around(b, Right, e))
  BY <1>1 DEF Falls
<1>3. a # <<>> /\ Unbracketed(a) /\ Name(a) = <<Data>> BY <1>1, <1>2, FrontPart
<1>4. b # <<>> /\ Unbracketed(b) BY <1>1, <1>2, BodyPart
<1>5. w \in Seq(Signs) /\ w # <<>> /\ Unbracketed(w) BY <1>1, <1>2, BackPart
<1>6. Left \in Signs /\ Right \in Signs /\ Left \in Brackets /\ Right \in Brackets
  BY SignFacts DEF Brackets
<1>7. junk \in Seq(Signs) BY DEF IsJunk
<1>8. Cat(file, junk) = Around(x, Right, w)
  <2> DEFINE y == Around(b, Right, e)
  <2>1. y \in Seq(Signs) BY <1>2, <1>6, AroundType
  <2>2. Cat(y, junk) = Around(b, Right, w) BY <1>2, <1>6, <1>7, AroundBehind
  <2> HIDE DEF y, w, x
  <2>3. Cat(Around(a, Left, y), junk) = Around(a, Left, Cat(y, junk))
    BY <1>2, <1>6, <1>7, <2>1, AroundBehind
  <2>4. Around(a, Left, Around(b, Right, w)) = Around(Around(a, Left, b), Right, w)
    BY <1>2, <1>5, <1>6, AroundAround
  <2>5. QED BY <1>2, <2>2, <2>3, <2>4 DEF x, y
<1> HIDE DEF w
<1>9. /\ \A i \in 1 .. Len(a) : a[i] \notin Brackets
      /\ \A i \in 1 .. Len(b) : b[i] \notin Brackets
      /\ \A i \in 1 .. Len(w) : w[i] \notin Brackets
  BY <1>3, <1>4, <1>5 DEF Unbracketed, Brackets
<1>10. /\ Len(a) \in Nat /\ Len(a) # 0 /\ Len(b) \in Nat /\ Len(b) # 0
  BY <1>2, <1>3, <1>4, EmptySeq, LenProperties
<1>11. a[Len(a)] \notin Brackets BY <1>9, <1>10
<1>12. x \in Seq(Signs) /\ x # <<>> /\ x[Len(x)] \notin Brackets
  <2>1. x \in Seq(Signs) /\ Has(x, a, Left, b) BY <1>2, <1>6, AroundFacts
  <2> HIDE DEF x
  <2>2. /\ Len(x) = Len(a) + 1 + Len(b)
        /\ \A i \in 1 .. Len(b) : x[Len(a) + 1 + i] = b[i]
    BY <2>1 DEF Has
  <2>3. x # <<>> BY <1>10, <2>2, EmptySeq
  <2>4. Len(b) \in 1 .. Len(b) /\ Len(x) = Len(a) + 1 + Len(b) BY <1>10, <2>2
  <2>5. x[Len(x)] = b[Len(b)] BY <2>2, <2>4
  <2>6. QED BY <1>9, <2>1, <2>3, <2>4, <2>5
<1>13. Split(a, Brackets) = <<a>> BY <1>2, <1>3, <1>9, SplitOne
<1>14. Split(x, Brackets) = Append(Split(a, Brackets), b)
  BY <1>2, <1>3, <1>4, <1>6, <1>9, <1>11, SplitAt
<1> HIDE DEF x
<1>15. Split(Around(x, Right, w), Brackets) = Append(Split(x, Brackets), w)
  BY <1>5, <1>6, <1>9, <1>12, SplitAt
<1> DEFINE T == Seq(Signs)
           ts == Append(Append(<<a>>, b), w)
<1>16. Split(Cat(file, junk), Brackets) = ts BY <1>8, <1>13, <1>14, <1>15
<1>17. ts \in Seq(T) /\ Len(ts) = 3 /\ ts[1] = a /\ ts[2] = b
  <2>1. a \in T /\ b \in T /\ w \in T BY <1>2, <1>5
  <2> HIDE DEF T
  <2>2. QED BY <2>1
<1>18. HoldsRecords(Split(b, {Opening}), d)
  <2> DEFINE n == Len(d)
             rs == Split(Cat(b, none), {Opening})
  <2>1. n \in Nat /\ 1 <= n /\ n <= n /\ Body(d) = JoinedUpTo(RecordsOf(d))[n]
    BY BodyBalanced
  <2>2. Tight(b)
    <3>1. /\ \A i \in 1 .. Len(b) : b[i] # Left /\ b[i] # Right BY <1>4 DEF Unbracketed
    <3>2. QED BY <1>1, <1>2, <3>1, BodyTight
  <2>3. none \in Ends BY DEF Ends
  <2>4. Cat(b, none) = b BY <1>2, ConcatEmptySeq DEF Cat
  <2>5. Bare(b) = JoinedUpTo(RecordsOf(d))[n] BY <1>1, <2>1
  <2> HIDE DEF none
  <2>6. /\ rs \in Seq(Seq(Signs)) /\ Len(rs) = n /\ \A i \in 1 .. n : IsToken(rs[i], d[i])
    <3>1. \A t \in Seq(Signs) : Bare(t) = JoinedUpTo(RecordsOf(d))[n] /\ Tight(t) =>
            \A z \in Ends :
              /\ Split(Cat(t, z), {Opening}) \in Seq(Seq(Signs))
              /\ Len(Split(Cat(t, z), {Opening})) = n
              /\ \A i \in 1 .. n : IsToken(Split(Cat(t, z), {Opening})[i], d[i])
      BY <2>1, RecordsSplit
    <3>2. QED BY <1>2, <2>2, <2>3, <2>5, <3>1
  <2>7. QED BY <2>4, <2>6 DEF HoldsRecords
<1> HIDE DEF ts
<1>19. QED BY <1>3, <1>16, <1>17, <1>18 DEF IsText

LEMMA AroundWithin ==
  ASSUME NEW C, NEW x \in Seq(C), NEW c \in C, NEW y \in Seq(C), NEW K, c \in K,
         \A i \in 1 .. Len(x) : x[i] \in K, \A i \in 1 .. Len(y) : y[i] \in K
  PROVE  \A i \in 1 .. Len(Around(x, c, y)) : Around(x, c, y)[i] \in K
<1> DEFINE u == <<c>>
           v == u \o y
<1>1. u \in Seq(C) /\ Len(u) = 1 /\ u[1] = c BY OneText
<1>2. \A i \in 1 .. Len(u) : u[i] \in K
  <2>1. \A i \in 1 .. 1 : i = 1 OBVIOUS
  <2> HIDE DEF u
  <2>2. QED BY <1>1, <2>1
<1> HIDE DEF u
<1>3. \A i \in 1 .. Len(u \o y) : (u \o y)[i] \in K BY <1>1, <1>2, CatWithin
<1>4. v \in Seq(C) BY <1>1, ConcatProperties
<1>5. \A i \in 1 .. Len(v) : v[i] \in K BY <1>3
<1> HIDE DEF v
<1>6. \A i \in 1 .. Len(x \o v) : (x \o v)[i] \in K BY <1>4, <1>5, CatWithin
<1>7. QED BY <1>6 DEF Around, u, v

\* The text of a document has no end of a string in it.
LEMMA DocumentWithoutNul ==
  ASSUME NEW f \in Seq(Signs), NEW d, IsDocument(d), Bare(f) = Rendered(d)
  PROVE  \A i \in 1 .. Len(f) : f[i] # Nul
<1> DEFINE u == <<Closing>>
           K == Signs \ {Nul}
           F == {Opening, Data, Colon}
           E == {Closing}
<1>1. PICK a, b, e : Falls(f, a, b, e) /\ Bare(a) = Front /\ Bare(b) = Body(d) /\ Bare(e) = u
  BY DocumentCut
<1>2. /\ a \in Seq(Signs) /\ b \in Seq(Signs) /\ e \in Seq(Signs)
      /\ f = Around(a, Left, Around(b, Right, e))
  BY <1>1 DEF Falls
<1>3. /\ Nul \notin F /\ Nul \notin E /\ Nul \notin Marks /\ Nul # Blank
      /\ Left \in K /\ Right \in K /\ Closing \in Signs /\ Left \in Signs /\ Right \in Signs
  BY Distinct, SignFacts DEF Marks
<1>4. \A j \in 1 .. Len(Bare(a)) : Bare(a)[j] \in F BY <1>1, FrontFacts
<1>5. \A j \in 1 .. Len(Bare(b)) : Bare(b)[j] \in Marks
  BY <1>1, BodyBalanced DEF Balanced
<1>6. \A j \in 1 .. Len(Bare(e)) : Bare(e)[j] \in E
  <2>1. Len(u) = 1 /\ u[1] = Closing BY <1>3, OneText
  <2>2. \A i \in 1 .. 1 : i = 1 OBVIOUS
  <2> HIDE DEF u
  <2>3. QED BY <1>1, <2>1, <2>2
<1> HIDE DEF F, E, u
<1>7. \A i \in 1 .. Len(a) : a[i] # Nul BY <1>2, <1>3, <1>4, WithoutSign
<1>8. \A i \in 1 .. Len(b) : b[i] # Nul BY <1>2, <1>3, <1>5, WithoutSign
<1>9. \A i \in 1 .. Len(e) : e[i] # Nul BY <1>2, <1>3, <1>6, WithoutSign
<1>10. /\ \A i \in 1 .. Len(a) : a[i] \in K
       /\ \A i \in 1 .. Len(b) : b[i] \in K
       /\ \A i \in 1 .. Len(e) : e[i] \in K
  BY <1>2, <1>7, <1>8, <1>9, ElementOfSeq
<1> DEFINE y == Around(b, Right, e)
<1> HIDE DEF K
<1>11. \A i \in 1 .. Len(y) : y[i] \in K BY <1>2, <1>3, <1>10, AroundWithin
<1>12. y \in Seq(Signs) BY <1>2, <1>3, AroundType
<1>13. f = Around(a, Left, y) BY <1>2
<1> HIDE DEF y
<1>14. \A i \in 1 .. Len(Around(a, Left, y)) : Around(a, Left, y)[i] \in K
  BY <1>2, <1>3, <1>10, <1>11, <1>12, AroundWithin
<1>15. \A i \in 1 .. Len(f) : f[i] \in K BY <1>13, <1>14
<1>16. QED BY <1>15 DEF K

-----------------------------------------------------------------------------
(***************************************************************************)
(* A file that fits in a block lies in the buffer as it is, and what is    *)
(* behind it is what was in memory.                                        *)
(***************************************************************************)
LEMMA ReadRest ==
  ASSUME ReadType, NEW o \in Nat, Read(o), Len(buffer') = Len(buffer) + block
  PROVE  \A i \in 1 .. Len(buffer') :
           i > Len(buffer) /\ i > o + Len(Chunk) => buffer'[i] \in {"?", Nul}
<1>1. PICK k \in Junk : buffer' = Overlay(buffer \o Fresh(k), o, Chunk) BY DEF Read
<1> DEFINE b == buffer \o Fresh(k)
           n == Len(buffer)
<1>2. /\ buffer \in Seq(Byte) /\ block \in Nat /\ n \in Nat
  BY LenProperties DEF ReadType
<1>3. Fresh(k) \in Seq(Byte) /\ Len(Fresh(k)) = block
  <2>1. block \in Nat \ {0} BY DEF ReadType
  <2>2. QED BY <2>1, FreshType
<1>4. /\ b \in Seq(Byte) /\ Len(b) = n + block
      /\ \A i \in 1 .. n + block : i > n => b[i] = Fresh(k)[i - n]
  <2>1. /\ b \in Seq(Byte) /\ Len(b) = Len(buffer) + Len(Fresh(k))
        /\ \A i \in 1 .. Len(buffer) + Len(Fresh(k)) :
             b[i] = IF i <= Len(buffer) THEN buffer[i] ELSE Fresh(k)[i - Len(buffer)]
    BY <1>2, <1>3, ConcatProperties
  <2> HIDE DEF b
  <2>2. QED BY <1>2, <1>3, <2>1
<1>5. DOMAIN b = 1 .. Len(b) BY <1>4, LenProperties
<1>6. Len(Chunk) \in Nat /\ DOMAIN Chunk = 1 .. Len(Chunk) BY ChunkFacts, LenProperties
<1>7. \A j \in 1 .. block : Fresh(k)[j] \in {"?", Nul} BY DEF Fresh
<1>8. buffer' = [i \in DOMAIN b |-> IF i - o \in DOMAIN Chunk THEN Chunk[i - o] ELSE b[i]]
  BY <1>1 DEF Overlay
<1> HIDE DEF b, n
<1>9. SUFFICES ASSUME NEW i \in 1 .. n + block, i > n, i > o + Len(Chunk)
               PROVE  buffer'[i] \in {"?", Nul}
  BY DEF n
<1>10. i \in DOMAIN b /\ i - o \notin DOMAIN Chunk BY <1>2, <1>4, <1>5, <1>6, <1>9
<1>11. buffer'[i] = b[i] BY <1>8, <1>10
<1>12. i - n \in 1 .. block BY <1>2, <1>9
<1>13. QED BY <1>4, <1>7, <1>9, <1>11, <1>12

OneBlock ==
  Len(file) <= block =>
    /\ pos = 0 \/ pos = Len(file)
    /\ pos <= Len(buffer)
    /\ \A i \in 1 .. pos : buffer[i] = file[i]
    /\ \A i \in 1 .. Len(buffer) : i > pos => buffer[i] \in {"?", Nul}

LEMMA OneBlockRead ==
  ASSUME IInv, OneBlock, ReadBlock
  PROVE  OneBlock'
<1>1. /\ phase = "read" /\ Read(index) /\ pos' = pos + Len(Chunk)
      /\ UNCHANGED <<file, broken, block>>
  BY DEF ReadBlock, Read
<1>2. ReadType BY DEF IInv
<1>3. SUFFICES ASSUME Len(file) <= block
      PROVE  /\ pos' = 0 \/ pos' = Len(file)
             /\ pos' <= Len(buffer')
             /\ \A i \in 1 .. pos' : buffer'[i] = file[i]
             /\ \A i \in 1 .. Len(buffer') : i > pos' => buffer'[i] \in {"?", Nul}
  BY <1>1 DEF OneBlock
<1> DEFINE k == Len(Chunk)
           N == Len(buffer)
           L == Len(file)
           old == N
<1>4. /\ pos = 0 \/ pos = L
      /\ pos <= N
      /\ \A i \in 1 .. pos : buffer[i] = file[i]
      /\ \A i \in 1 .. N : i > pos => buffer[i] \in {"?", Nul}
  BY <1>3 DEF OneBlock
<1>5. /\ k \in Nat /\ k <= block /\ pos + k <= L
      /\ ~broken => k = IF pos + block <= L THEN block ELSE L - pos
  BY <1>2, ChunkFacts
<1>6. /\ block \in Nat /\ block # 0 /\ L \in Nat /\ N \in Nat /\ pos \in Nat /\ broken \in BOOLEAN
      /\ broken => L = 0
  BY <1>2, LenProperties, EmptySeq DEF ReadType
<1>7. PICK n \in Nat : Grown(n) BY DEF IInv
<1>8. /\ N = n * block /\ index = n * (block - 1)
      /\ ~broken => pos = n * block
  BY <1>1, <1>7 DEF Grown
<1>9. index \in Nat
  <2>1. block - 1 \in Nat BY <1>6
  <2>2. 0 * (block - 1) <= n * (block - 1) BY <1>7, <2>1, Monotone
  <2>3. 0 * (block - 1) = 0 /\ n * (block - 1) \in Int BY <1>7, <2>1, Product, Steps
  <2>4. QED BY <1>8, <2>2, <2>3
<1>10. index <= N
  <2>1. n * (block - 1) = n * block - n /\ n * block \in Int BY <1>6, <1>7, Product, Steps
  <2>2. QED BY <1>7, <1>8, <2>1
<1>11. index + k <= N + block BY <1>5, <1>6, <1>9, <1>10
<1> HIDE DEF N, L
<1>12. /\ Len(buffer') = N + block
       /\ \A i \in 1 .. N : i <= index => buffer'[i] = buffer[i]
       /\ \A i \in 1 .. N : k = 0 => buffer'[i] = buffer[i]
       /\ \A i \in 1 .. k : buffer'[index + i] = file[pos + i]
  BY <1>1, <1>2, <1>9, <1>11, ReadFacts DEF N
<1>13. \A i \in 1 .. N + block : i > N /\ i > index + k => buffer'[i] \in {"?", Nul}
  <2>1. Len(buffer') = Len(buffer) + block BY <1>12 DEF N
  <2>2. \A i \in 1 .. Len(buffer') :
          i > Len(buffer) /\ i > index + Len(Chunk) => buffer'[i] \in {"?", Nul}
    BY <1>1, <1>2, <1>9, <2>1, ReadRest
  <2>3. QED BY <1>12, <2>2 DEF N
<1>14. CASE pos = L
  <2>1. k = 0 BY <1>5, <1>6, <1>14
  <2>2. pos' = pos BY <1>1, <1>6, <2>1
  <2>3. \A i \in 1 .. N : buffer'[i] = buffer[i] BY <1>12, <2>1
  <2>4. \A i \in 1 .. pos : i \in 1 .. N BY <1>4, <1>6
  <2>5. \A i \in 1 .. pos : buffer'[i] = file[i] BY <1>4, <2>3, <2>4
  <2>6. ASSUME NEW i \in 1 .. N + block, i > pos
        PROVE  buffer'[i] \in {"?", Nul}
    <3>1. CASE i <= N
      <4>1. i \in 1 .. N BY <1>6, <3>1
      <4>2. QED BY <1>4, <2>3, <2>6, <4>1
    <3>2. CASE i > N
      <4>1. i > index + k BY <1>6, <1>9, <1>10, <2>1, <3>2
      <4>2. QED BY <1>13, <3>2, <4>1
    <3>3. QED BY <1>6, <3>1, <3>2
  <2>7. pos <= N + block BY <1>4, <1>6
  <2>8. QED BY <1>12, <1>14, <2>2, <2>5, <2>6, <2>7 DEF L
<1>15. CASE pos = 0 /\ pos # L
  <2>1. ~broken BY <1>6, <1>15
  <2>2. n * block = 0 BY <1>8, <1>15, <2>1
  <2>3. N = 0 /\ index = 0
    <3>1. index <= 0 BY <1>8, <1>10, <2>2
    <3>2. QED BY <1>8, <1>9, <2>2, <3>1
  <2>4. k = L BY <1>3, <1>5, <1>6, <1>15, <2>1 DEF L
  <2>5. pos' = L BY <1>1, <1>6, <1>15, <2>4
  <2>6. \A i \in 1 .. L : buffer'[i] = file[i]
    <3> TAKE i \in 1 .. L
    <3>1. index + i = i /\ pos + i = i /\ i \in 1 .. k BY <1>6, <1>15, <2>3, <2>4
    <3>2. buffer'[index + i] = file[pos + i] BY <1>12, <3>1
    <3>3. QED BY <3>1, <3>2
  <2>7. \A i \in 1 .. N + block : i > L => buffer'[i] \in {"?", Nul}
    <3> TAKE i \in 1 .. N + block
    <3> HAVE i > L
    <3>1. i > N /\ i > index + k BY <1>6, <2>3, <2>4
    <3>2. QED BY <1>13, <3>1
  <2>8. L <= N + block BY <1>3, <1>6, <2>3 DEF L
  <2>9. QED BY <1>12, <2>5, <2>6, <2>7, <2>8 DEF L
<1>16. QED BY <1>4, <1>14, <1>15

LEMMA OneBlockSame ==
  ASSUME OneBlock, UNCHANGED readVars
  PROVE  OneBlock'
<1>1. UNCHANGED <<file, broken, block, pos, buffer, index>> BY DEF readVars
<1>2. QED BY <1>1 DEF OneBlock

\* The text in the buffer is the file, and maybe more that was in memory.
LEMMA TextIs ==
  ASSUME IInv, OneBlock, phase = "split", Terminated, Len(file) <= block,
         \A i \in 1 .. Len(file) : file[i] # Nul
  PROVE  \E junk : IsJunk(junk) /\ TextRead = Cat(file, junk)
<1> DEFINE L == Len(file)
           N == Len(buffer)
           ends == {i \in DOMAIN buffer : buffer[i] = Nul}
           k == Smallest(ends)
           junk == SubSeq(buffer, L + 1, k - 1)
           text == SubSeq(buffer, 1, k - 1)
<1>1. /\ file \in Seq(Byte) /\ buffer \in Seq(Byte) /\ L \in Nat /\ N \in Nat
      /\ DOMAIN buffer = 1 .. N
  BY LenProperties DEF IInv, ReadType
<1>2. pos = L
  <2>1. PICK n \in Nat : Grown(n) BY DEF IInv
  <2>2. QED BY <2>1 DEF Grown
<1>3. /\ L <= N /\ \A i \in 1 .. L : buffer[i] = file[i]
      /\ \A i \in 1 .. N : i > L => buffer[i] \in {"?", Nul}
  BY <1>2 DEF OneBlock
<1>4. k \in ends /\ \A i \in ends : k <= i
  <2>1. ends \in SUBSET Nat /\ ends # {} BY <1>1 DEF Terminated
  <2> HIDE DEF ends
  <2>2. QED BY <2>1, SmallestFacts
<1>5. k \in 1 .. N /\ buffer[k] = Nul BY <1>1, <1>4
<1>6. \A i \in 1 .. N : i < k => buffer[i] # Nul
  <2> HIDE DEF k
  <2> TAKE i \in 1 .. N
  <2> HAVE i < k
  <2>1. ~(k <= i) BY <1>5
  <2>2. i \notin ends BY <1>4, <2>1
  <2>3. QED BY <1>1, <2>2
<1>7. TextRead = text BY DEF TextRead
<1> HIDE DEF L, N, ends, k
<1>8. L < k
  <2>1. ~(k \in 1 .. L) BY <1>3, <1>5 DEF L
  <2>2. QED BY <1>1, <1>5, <2>1
<1>9. /\ junk \in Seq(Byte) /\ Len(junk) = (k - 1) - L
      /\ \A i \in 1 .. (k - 1) - L : junk[i] = buffer[L + i]
  <2>1. L + 1 \in Int /\ k - 1 \in Int /\ 1 <= L + 1 /\ k - 1 <= N BY <1>1, <1>5
  <2>2. \A i \in L + 1 .. k - 1 : buffer[i] \in Byte
    <3>1. \A i \in 1 .. N : buffer[i] \in Byte BY <1>1, ElementOfSeq DEF N
    <3>2. QED BY <1>1, <2>1, <3>1
  <2>3. /\ junk \in Seq(Byte)
        /\ Len(junk) = IF L + 1 <= k - 1 THEN (k - 1) - (L + 1) + 1 ELSE 0
        /\ \A i \in 1 .. (k - 1) - (L + 1) + 1 : junk[i] = buffer[L + 1 + i - 1]
    BY <2>1, <2>2, SubSeqProperties
  <2> HIDE DEF junk
  <2>4. Len(junk) = (k - 1) - L BY <1>1, <1>5, <1>8, <2>3
  <2>5. ASSUME NEW i \in 1 .. (k - 1) - L PROVE junk[i] = buffer[L + i]
    <3>1. i \in 1 .. (k - 1) - (L + 1) + 1 /\ L + 1 + i - 1 = L + i BY <1>1, <1>5
    <3>2. junk[i] = buffer[L + 1 + i - 1] BY <2>3, <3>1
    <3>3. QED BY <3>1, <3>2
  <2>6. QED BY <2>3, <2>4, <2>5
<1>10. /\ text \in Seq(Byte) /\ Len(text) = k - 1
       /\ \A i \in 1 .. k - 1 : text[i] = buffer[i]
  <2>1. 1 \in Int /\ k - 1 \in Int /\ 1 <= 1 /\ k - 1 <= N BY <1>1, <1>5
  <2>2. \A i \in 1 .. k - 1 : buffer[i] \in Byte
    <3>1. \A i \in 1 .. N : buffer[i] \in Byte BY <1>1, ElementOfSeq DEF N
    <3>2. QED BY <1>1, <2>1, <3>1
  <2>3. /\ text \in Seq(Byte)
        /\ Len(text) = IF 1 <= k - 1 THEN (k - 1) - 1 + 1 ELSE 0
        /\ \A i \in 1 .. (k - 1) - 1 + 1 : text[i] = buffer[1 + i - 1]
    BY <2>1, <2>2, SubSeqProperties
  <2> HIDE DEF text
  <2>4. Len(text) = k - 1 BY <1>1, <1>5, <1>8, <2>3
  <2>5. ASSUME NEW i \in 1 .. k - 1 PROVE text[i] = buffer[i]
    <3>1. i \in 1 .. (k - 1) - 1 + 1 /\ 1 + i - 1 = i BY <1>5
    <3>2. text[i] = buffer[1 + i - 1] BY <2>3, <3>1
    <3>3. QED BY <3>1, <3>2
  <2>6. QED BY <2>3, <2>4, <2>5
<1> HIDE DEF junk, text
<1>11. \A i \in 1 .. Len(junk) : junk[i] = "?"
  <2> TAKE i \in 1 .. Len(junk)
  <2>1. i \in 1 .. (k - 1) - L /\ L + i \in 1 .. N /\ L + i > L /\ L + i < k
    BY <1>1, <1>5, <1>8, <1>9
  <2>2. junk[i] = buffer[L + i] BY <1>9, <2>1
  <2>3. buffer[L + i] \in {"?", Nul} /\ buffer[L + i] # Nul BY <1>3, <1>6, <2>1
  <2>4. QED BY <2>2, <2>3
<1>12. Seq(Byte) \subseteq Seq(Signs) BY SignFacts, SeqMonotonic
<1>13. IsJunk(junk) BY <1>9, <1>11, <1>12 DEF IsJunk
<1>14. text = Cat(file, junk)
  <2> DEFINE z == file \o junk
  <2>1. /\ z \in Seq(Byte) /\ Len(z) = L + Len(junk)
        /\ \A i \in 1 .. L : z[i] = file[i]
        /\ \A i \in 1 .. Len(junk) : z[L + i] = junk[i]
    <3>1. /\ Len(file) \in Nat /\ Len(junk) \in Nat
          /\ file \o junk \in Seq(Byte) /\ Len(file \o junk) = Len(file) + Len(junk)
          /\ \A i \in 1 .. Len(file) : (file \o junk)[i] = file[i]
          /\ \A i \in 1 .. Len(junk) : (file \o junk)[Len(file) + i] = junk[i]
      <4>1. file \in Seq(Byte) /\ junk \in Seq(Byte) BY <1>1, <1>9
      <4>2. QED BY ONLY <4>1, CatFacts
    <3>2. QED BY <3>1 DEF L
  <2> HIDE DEF z
  <2>2. Len(z) = Len(text) BY <1>1, <1>5, <1>8, <1>9, <1>10, <2>1
  <2>3. \A i \in 1 .. Len(z) : z[i] = text[i]
    <3> TAKE i \in 1 .. Len(z)
    <3>1. i \in 1 .. k - 1 BY <1>10, <2>2
    <3>2. text[i] = buffer[i] BY <1>10, <3>1
    <3>3. CASE i <= L
      <4>1. i \in 1 .. L BY <1>1, <1>5, <3>1, <3>3
      <4>2. QED BY <1>3, <2>1, <3>2, <4>1
    <3>4. CASE i > L
      <4>1. i - L \in 1 .. (k - 1) - L /\ L + (i - L) = i BY <1>1, <1>5, <3>1, <3>4
      <4>2. z[L + (i - L)] = junk[i - L] /\ junk[i - L] = buffer[L + (i - L)]
        BY <1>9, <2>1, <4>1
      <4>3. QED BY <3>2, <4>1, <4>2
    <3>5. QED BY <1>1, <1>5, <3>1, <3>3, <3>4
  <2>4. z = text BY <1>10, <2>1, <2>2, <2>3, SeqEqual
  <2>5. QED BY <2>4 DEF Cat, z
<1>15. QED BY <1>7, <1>13, <1>14

-----------------------------------------------------------------------------
(***************************************************************************)
(* From the text to the list: while a document is parsed, what was added   *)
(* to the list and what is left of the text make up the document.          *)
(***************************************************************************)
Reads(d) ==
  /\ IsDocument(d) /\ Bare(file) = Rendered(d)
  /\ pos = Len(file) /\ pos \in 1 .. block /\ ~short /\ ~BlankBetweenRecords

Added(d) == \A i \in 1 .. Len(order) : content[order[i]] = Meant(d[i])

AllAdded(d) == Len(order) = Len(d) /\ Added(d)

ToAdd(d) ==
  /\ Len(order) + Len(records) = Len(d) /\ Added(d)
  /\ \A i \in 1 .. Len(records) : IsToken(records[i], d[Len(order) + i])

ParsedFrom(d) ==
  /\ phase = "tokens" => \/ order = <<>> /\ IsText(tokens, d)
                         \/ Len(tokens) <= 1 /\ AllAdded(d)
  /\ phase = "records" => Len(tokens) = 1 /\ ToAdd(d)
  /\ phase = "export" => AllAdded(d)

DocumentInv == ParseInv /\ OneBlock /\ \A d : Reads(d) => ParsedFrom(d)

LEMMA TextPart ==
  ASSUME NEW ts, NEW d, IsText(ts, d), IsDocument(d)
  PROVE  /\ ts # <<>> /\ Len(ts) = 3 /\ Name(Head(ts)) = <<"data">>
         /\ Len(Tail(Tail(ts))) = 1
         /\ HoldsRecords(Split(ts[2], {"{"}), d) /\ Split(ts[2], {"{"}) # <<>>
<1> DEFINE T == Seq(Signs)
           rs == Split(ts[2], {Opening})
<1>1. ts \in Seq(T) /\ Len(ts) = 3 /\ Name(ts[1]) = <<Data>> /\ HoldsRecords(rs, d)
  BY DEF IsText
<1> HIDE DEF T
<1>2. ts # <<>>
  <2>1. Len(ts) # 0 BY <1>1
  <2>2. QED BY <2>1, EmptySeq
<1>3. Head(ts) = ts[1] /\ Tail(ts) \in Seq(T) /\ Len(Tail(ts)) = 2
  BY <1>1, <1>2, HeadTailProperties
<1>4. Len(Tail(Tail(ts))) = 1
  <2> DEFINE s == Tail(ts)
  <2>1. s \in Seq(T) /\ Len(s) = 2 BY <1>3
  <2> HIDE DEF s
  <2>2. s # <<>>
    <3>1. Len(s) # 0 BY <2>1
    <3>2. QED BY <3>1, EmptySeq
  <2>3. Len(Tail(s)) = 1 BY <2>1, <2>2, HeadTailProperties
  <2>4. QED BY <2>3 DEF s
<1>5. rs # <<>>
  <2>1. Len(rs) = Len(d) BY <1>1 DEF HoldsRecords
  <2>2. d \in Seq(Seq(Names)) /\ d # <<>> BY DEF IsDocument
  <2>3. Len(d) # 0 BY <2>2, EmptySeq
  <2> HIDE DEF rs
  <2>4. QED BY <2>1, <2>3, EmptySeq
<1>6. QED BY <1>1, <1>2, <1>3, <1>4, <1>5 DEF Opening, Data

LEMMA SameReads ==
  ASSUME NEW d, Reads(d)', UNCHANGED readVars, short' = FALSE => short = FALSE,
         short' \in BOOLEAN, short \in BOOLEAN
  PROVE  Reads(d)
<1>1. UNCHANGED <<file, broken, block, pos, buffer, index>> BY DEF readVars
<1>2. BlankBetweenRecords' = BlankBetweenRecords BY <1>1 DEF BlankBetweenRecords
<1>3. QED BY <1>1, <1>2 DEF Reads

LEMMA AddedSame ==
  ASSUME UNCHANGED <<order, content>>
  PROVE  \A d : Added(d)' = Added(d) /\ AllAdded(d)' = AllAdded(d)
BY DEF Added, AllAdded

\* The text of a document falls into its name, its records and the rest.
LEMMA SplitTextDocument ==
  ASSUME DocumentInv, SplitText, NEW d, Reads(d)'
  PROVE  ParsedFrom(d)'
<1>1. phase = "split" /\ UNCHANGED <<listVars, readVars, records, content>>
  BY DEF SplitText
<1>2. IInv /\ OneBlock /\ ParseType /\ ListInv BY DEF DocumentInv, ParseInv
<1>3. short \in BOOLEAN BY <1>2 DEF ParseType
<1>4. ~short' BY DEF Reads
<1>5. CASE ~Terminated
  <2>1. phase' = "undefined" BY <1>5 DEF SplitText
  <2>2. QED BY <2>1 DEF ParsedFrom
<1>6. CASE Terminated
  <2>1. /\ tokens' = Split(TextRead, {"[", "]"})
        /\ phase' = IF tokens' = <<>> THEN "export" ELSE "tokens"
        /\ short' = short
    BY <1>4, <1>6 DEF SplitText
  <2>2. Reads(d) BY <1>1, <1>3, <2>1, SameReads
  <2>3. /\ IsDocument(d) /\ Bare(file) = Rendered(d) /\ ~BlankBetweenRecords
        /\ pos = Len(file) /\ pos \in 1 .. block
    BY <2>2 DEF Reads
  <2>4. file \in Seq(Byte) /\ Len(file) \in Nat /\ block \in Nat
    BY <1>2, LenProperties DEF IInv, ReadType
  <2>5. file \in Seq(Signs)
    <3>1. Seq(Byte) \subseteq Seq(Signs) BY SignFacts, SeqMonotonic
    <3>2. QED BY <2>4, <3>1
  <2>6. \A i \in 1 .. Len(file) : file[i] # Nul BY <2>3, <2>5, DocumentWithoutNul
  <2>7. Len(file) <= block BY <2>3, <2>4
  <2>8. PICK junk : IsJunk(junk) /\ TextRead = Cat(file, junk)
    BY <1>1, <1>2, <1>6, <2>6, <2>7, TextIs
  <2>9. IsText(Split(Cat(file, junk), Brackets), d) BY <2>3, <2>5, <2>8, DocumentSplit
  <2>10. IsText(tokens', d) BY <2>1, <2>8, <2>9 DEF Brackets, Left, Right
  <2>11. tokens' # <<>> BY <2>3, <2>10, TextPart
  <2>12. phase' = "tokens" BY <2>1, <2>11
  <2>13. order' = <<>> BY <1>1, <1>2 DEF ListInv, Unlisted, listVars
  <2>14. (IsText(tokens, d))' BY <2>10 DEF IsText
  <2>15. QED BY <2>12, <2>13, <2>14 DEF ParsedFrom
<1>7. QED BY <1>5, <1>6

LEMMA SkipTokenDocument ==
  ASSUME DocumentInv, SkipToken, NEW d, Reads(d)'
  PROVE  ParsedFrom(d)'
<1>1. /\ phase = "tokens" /\ tokens # <<>> /\ tokens' = Tail(tokens)
      /\ ~IsData \/ MemoryFails
      /\ short' = (short \/ IsData)
      /\ UNCHANGED <<listVars, phase, readVars, records, content>>
  BY DEF SkipToken
<1>2. /\ short \in BOOLEAN /\ tokens \in Seq(Seq(Byte))
  BY DEF DocumentInv, ParseInv, ParseType
<1>3. IsData \in BOOLEAN BY DEF IsData
<1>4. ~short' BY DEF Reads
<1>5. ~short /\ ~IsData BY <1>1, <1>2, <1>3, <1>4
<1>6. Reads(d) BY <1>1, <1>2, <1>4, <1>5, SameReads
<1>7. \/ order = <<>> /\ IsText(tokens, d)
      \/ Len(tokens) <= 1 /\ AllAdded(d)
  BY <1>1, <1>6 DEF DocumentInv, ParsedFrom
<1>8. ~IsText(tokens, d)
  <2> SUFFICES ASSUME IsText(tokens, d) PROVE IsData BY <1>5
  <2>1. IsDocument(d) BY <1>6 DEF Reads
  <2>2. Name(Head(tokens)) = <<"data">> /\ Len(tokens) = 3 BY <2>1, TextPart
  <2>3. QED BY <2>2 DEF IsData
<1>9. Len(tokens) <= 1 /\ AllAdded(d) BY <1>7, <1>8
<1>10. Len(Tail(tokens)) = Len(tokens) - 1 /\ Len(tokens) \in Nat
  BY <1>1, <1>2, HeadTailProperties, LenProperties
<1>11. Len(tokens') <= 1 BY <1>1, <1>9, <1>10
<1>12. order' = order /\ content' = content BY <1>1 DEF listVars
<1>13. AllAdded(d)' BY <1>9, <1>12, AddedSame
<1>14. phase' = "tokens" BY <1>1
<1>15. QED BY <1>11, <1>13, <1>14 DEF ParsedFrom

LEMMA DataTokenDocument ==
  ASSUME DocumentInv, DataToken, NEW d, Reads(d)'
  PROVE  ParsedFrom(d)'
<1> DEFINE rs == Split(tokens[2], {"{"})
<1>1. /\ phase = "tokens" /\ tokens # <<>> /\ IsData
      /\ tokens' = Tail(Tail(tokens))
      /\ phase' = IF records' = <<>> THEN "tokens" ELSE "records"
      /\ UNCHANGED <<listVars, readVars, content>>
  BY DEF DataToken
<1>2. /\ short \in BOOLEAN /\ tokens \in Seq(Seq(Byte))
  BY DEF DocumentInv, ParseInv, ParseType
<1>3. ~short' BY DEF Reads
<1>4. records' = rs /\ short' = short BY <1>3 DEF DataToken
<1>5. Reads(d) BY <1>1, <1>2, <1>4, SameReads
<1>6. IsDocument(d) BY <1>5 DEF Reads
<1>7. order = <<>> /\ IsText(tokens, d)
  <2>1. \/ order = <<>> /\ IsText(tokens, d)
        \/ Len(tokens) <= 1 /\ AllAdded(d)
    BY <1>1, <1>5 DEF DocumentInv, ParsedFrom
  <2>2. Len(tokens) > 1 /\ Len(tokens) \in Nat BY <1>1, <1>2, LenProperties DEF IsData
  <2>3. QED BY <2>1, <2>2
<1>8. Len(tokens') = 1 /\ HoldsRecords(rs, d) /\ rs # <<>> BY <1>1, <1>6, <1>7, TextPart
<1>9. phase' = "records" BY <1>1, <1>4, <1>8
<1>10. /\ Len(rs) = Len(d) /\ Len(d) \in Nat
       /\ \A i \in 1 .. Len(d) : IsToken(rs[i], d[i])
  BY <1>6, <1>8, LenProperties DEF HoldsRecords, IsDocument
<1> HIDE DEF rs
<1>11. order' = <<>> /\ Len(order') = 0 BY <1>1, <1>7, EmptySeq DEF listVars
<1>12. Added(d)' BY <1>11 DEF Added
<1>13. Len(order') + Len(records') = Len(d) BY <1>4, <1>10, <1>11
<1>14. \A i \in 1 .. Len(records') : IsToken(records'[i], d[Len(order') + i])
  <2> TAKE i \in 1 .. Len(records')
  <2>1. i \in 1 .. Len(d) /\ Len(order') + i = i BY <1>4, <1>10, <1>11
  <2>2. QED BY <1>4, <1>10, <2>1
<1>15. ToAdd(d)' BY <1>12, <1>13, <1>14 DEF ToAdd, IsToken
<1>16. QED BY <1>8, <1>9, <1>15 DEF ParsedFrom

\* The next record yields what the document says.
LEMMA HeadMeant ==
  ASSUME NEW d, IsDocument(d), ToAdd(d), ListTypeOK, records \in Seq(Seq(Byte)), records # <<>>
  PROVE  LET k == Len(order) + 1
         IN  /\ k \in 1 .. Len(d)
             /\ Items(Head(records)) # <<>>
             /\ DataOf(Items(Head(records)), {}) = Meant(d[k])
<1> DEFINE k == Len(order) + 1
<1>1. Len(records) \in Nat /\ Len(records) # 0 /\ Len(order) \in Nat /\ Head(records) = records[1]
  BY EmptySeq, LenProperties, HeadTailProperties DEF ListTypeOK
<1>2. /\ Len(order) + Len(records) = Len(d)
      /\ \A i \in 1 .. Len(records) : IsToken(records[i], d[Len(order) + i])
  BY DEF ToAdd
<1>3. k \in 1 .. Len(d) BY <1>1, <1>2
<1>4. 1 \in 1 .. Len(records) BY <1>1
<1>5. IsToken(Head(records), d[k]) BY <1>1, <1>2, <1>4
<1>6. d[k] \in Seq(Names) /\ d[k] # <<>>
  <2>1. d \in Seq(Seq(Names)) /\ \A i \in 1 .. Len(d) : d[i] # <<>> BY DEF IsDocument
  <2>2. QED BY <1>3, <2>1, ElementOfSeq
<1>7. Items(Head(records)) # <<>> /\ DataOf(Items(Head(records)), {}) = Meant(d[k])
  BY <1>5, <1>6, TokenMeant
<1>8. QED BY <1>3, <1>7

LEMMA SkipRecordDocument ==
  ASSUME DocumentInv, SkipRecord, NEW d, Reads(d)'
  PROVE  ParsedFrom(d)'
<1>1. /\ phase = "records" /\ short' = (short \/ Items(Head(records)) # <<>>)
      /\ UNCHANGED readVars
  BY DEF SkipRecord, NextRecord
<1>2. short \in BOOLEAN /\ records \in Seq(Seq(Byte)) /\ records # <<>>
  BY <1>1 DEF DocumentInv, ParseInv, ParseType
<1>3. ~short' BY DEF Reads
<1>4. ~short /\ Items(Head(records)) = <<>> BY <1>1, <1>2, <1>3
<1>5. Reads(d) BY <1>1, <1>2, <1>3, <1>4, SameReads
<1>6. ToAdd(d) /\ IsDocument(d) BY <1>1, <1>5 DEF DocumentInv, ParsedFrom, Reads
<1>7. ListTypeOK BY DEF DocumentInv, ParseInv, ListInv
<1>8. Items(Head(records)) # <<>> BY <1>2, <1>6, <1>7, HeadMeant
<1>9. QED BY <1>4, <1>8

LEMMA AddRecordDocument ==
  ASSUME DocumentInv, AddRecord, NEW d, Reads(d)'
  PROVE  ParsedFrom(d)'
<1> DEFINE items == Items(Head(records))
           k == Len(order) + 1
<1>1. /\ phase = "records" /\ UNCHANGED readVars /\ tokens' = tokens
      /\ records' = Tail(records)
      /\ phase' = IF Tail(records) = <<>> THEN "tokens" ELSE "records"
  BY DEF AddRecord, NextRecord
<1>2. /\ short \in BOOLEAN /\ records \in Seq(Seq(Byte)) /\ records # <<>>
      /\ content \in [Records -> Values] /\ ListTypeOK /\ WellLinked
  BY <1>1 DEF DocumentInv, ParseInv, ParseType, ListInv
<1>3. ~short' BY DEF Reads
<1>4. /\ short = FALSE /\ short' = FALSE /\ AddCopySucceeds
      /\ content' = [content EXCEPT ![tail'] = DataOf(items, {})]
  <2>1. PICK lost \in SUBSET DOMAIN items :
          \/ /\ AddCopySucceeds
             /\ content' = [content EXCEPT ![tail'] = DataOf(items, lost)]
             /\ short' = (short \/ lost # {})
          \/ short' = TRUE
    BY DEF AddRecord
  <2> HIDE DEF items
  <2>2. /\ AddCopySucceeds /\ content' = [content EXCEPT ![tail'] = DataOf(items, lost)]
        /\ short' = (short \/ lost # {})
    BY <1>3, <2>1
  <2>3. lost = {} /\ short = FALSE /\ short' = FALSE
    <3>1. (lost # {}) \in BOOLEAN OBVIOUS
    <3>2. QED BY <1>2, <1>3, <2>2, <3>1
  <2>4. QED BY <2>2, <2>3
<1>5. short' \in BOOLEAN /\ short \in BOOLEAN BY <1>4
<1>6. Reads(d) BY <1>1, <1>4, <1>5, SameReads
<1>7. Len(tokens) = 1 /\ ToAdd(d) /\ IsDocument(d)
  BY <1>1, <1>6 DEF DocumentInv, ParsedFrom, Reads
<1>8. k \in 1 .. Len(d) /\ DataOf(items, {}) = Meant(d[k]) BY <1>2, <1>7, HeadMeant
<1> HIDE DEF items
<1>9. PICK r \in Records \ live : order' = Append(order, r) /\ tail' = r
  BY <1>4 DEF AddCopySucceeds
<1>10. /\ Len(order) \in Nat /\ Len(order') = k
       /\ \A i \in 1 .. Len(order) : order'[i] = order[i] /\ order[i] \in Records
       /\ order'[k] = r
  <2>1. order \in Seq(Records) BY <1>2 DEF ListTypeOK
  <2>2. /\ Append(order, r) \in Seq(Records) /\ Len(Append(order, r)) = Len(order) + 1
        /\ Len(order) \in Nat
        /\ \A i \in 1 .. Len(order) : Append(order, r)[i] = order[i]
        /\ Append(order, r)[Len(order) + 1] = r
    BY <2>1, LastFacts
  <2>3. \A i \in 1 .. Len(order) : order[i] \in Records BY <2>1, ElementOfSeq
  <2>4. QED BY <1>9, <2>2, <2>3
<1>11. \A i \in 1 .. Len(order) : order[i] # r
  <2>1. live = Listed \cup leaked BY <1>2 DEF WellLinked
  <2>2. \A i \in DOMAIN order : order[i] \in Listed BY DEF Listed
  <2>3. DOMAIN order = 1 .. Len(order) BY <1>2, OrderFacts
  <2>4. QED BY <1>9, <2>1, <2>2, <2>3
<1>12. \A i \in 1 .. Len(order) : content'[order[i]] = content[order[i]]
  BY <1>2, <1>4, <1>9, <1>10, <1>11
<1>13. content'[r] = Meant(d[k]) BY <1>2, <1>4, <1>8, <1>9
<1> HIDE DEF k
<1>14. Added(d)'
  <2>1. \A i \in 1 .. Len(order) : content[order[i]] = Meant(d[i]) BY <1>7 DEF ToAdd, Added
  <2>2. ASSUME NEW i \in 1 .. k PROVE content'[order'[i]] = Meant(d[i])
    <3>1. CASE i = k BY <1>10, <1>13, <3>1
    <3>2. CASE i # k
      <4>1. i \in 1 .. Len(order) BY <1>10, <3>2 DEF k
      <4>2. QED BY <1>10, <1>12, <2>1, <4>1
    <3>3. QED BY <3>1, <3>2
  <2>3. QED BY <1>10, <2>2 DEF Added
<1>15. /\ Len(Tail(records)) = Len(records) - 1 /\ Len(records) \in Nat /\ Len(records) # 0
       /\ \A i \in 1 .. Len(Tail(records)) : Tail(records)[i] = records[i + 1]
       /\ Tail(records) \in Seq(Seq(Byte))
  BY <1>2, HeadTailProperties, LenProperties, EmptySeq
<1>16. /\ Len(order) + Len(records) = Len(d)
       /\ \A i \in 1 .. Len(records) : IsToken(records[i], d[Len(order) + i])
  BY <1>7 DEF ToAdd
<1>17. CASE Tail(records) = <<>>
  <2>1. Len(Tail(records)) = 0 BY <1>17, EmptySeq
  <2>2. Len(order') = Len(d)
    <3> DEFINE left == Len(records)
               rest == Len(Tail(records))
    <3>1. left = 1
      <4>1. left \in Nat /\ rest = left - 1 /\ rest = 0 BY <1>15, <2>1
      <4> HIDE DEF left, rest
      <4>2. QED BY <4>1
    <3>2. Len(order) + 1 = Len(d) BY <1>16, <3>1
    <3>3. QED BY <1>10, <3>2 DEF k
  <2>3. AllAdded(d)' BY <1>14, <2>2 DEF AllAdded
  <2>4. phase' = "tokens" /\ Len(tokens') <= 1 BY <1>1, <1>7, <1>17
  <2>5. QED BY <2>3, <2>4 DEF ParsedFrom
<1>18. CASE Tail(records) # <<>>
  <2>1. phase' = "records" /\ Len(tokens') = 1 BY <1>1, <1>7, <1>18
  <2>2. Len(order') + Len(records') = Len(d) BY <1>1, <1>10, <1>15, <1>16 DEF k
  <2>3. \A i \in 1 .. Len(records') : IsToken(records'[i], d[Len(order') + i])
    <3> TAKE i \in 1 .. Len(records')
    <3>1. i \in 1 .. Len(Tail(records)) /\ i + 1 \in 1 .. Len(records)
          /\ Len(order) + (i + 1) = Len(order') + i
      BY <1>1, <1>10, <1>15 DEF k
    <3>2. records'[i] = records[i + 1] BY <1>1, <1>15, <3>1
    <3>3. IsToken(records[i + 1], d[Len(order) + (i + 1)]) BY <1>16, <3>1
    <3>4. QED BY <3>1, <3>2, <3>3
  <2>4. ToAdd(d)' BY <1>14, <2>2, <2>3 DEF ToAdd, IsToken
  <2>5. QED BY <2>1, <2>4 DEF ParsedFrom
<1>19. QED BY <1>17, <1>18

LEMMA TokensDoneDocument ==
  ASSUME DocumentInv, TokensDone, NEW d, Reads(d)'
  PROVE  ParsedFrom(d)'
<1>1. /\ phase = "tokens" /\ tokens = <<>> /\ phase' = "export"
      /\ UNCHANGED <<listVars, readVars, parseVars, short>>
  BY DEF TokensDone
<1>2. short \in BOOLEAN BY DEF DocumentInv, ParseInv, ParseType
<1>3. Reads(d) BY <1>1, <1>2, SameReads
<1>4. IsDocument(d) BY <1>3 DEF Reads
<1>5. ~IsText(tokens, d) BY <1>1, <1>4, TextPart
<1>6. AllAdded(d) BY <1>1, <1>3, <1>5 DEF DocumentInv, ParsedFrom
<1>7. order' = order /\ content' = content BY <1>1 DEF listVars, parseVars
<1>8. AllAdded(d)' BY <1>6, <1>7, AddedSame
<1>9. QED BY <1>1, <1>8 DEF ParsedFrom

LEMMA StepDocument ==
  ASSUME DocumentInv, [Next]_vars
  PROVE  DocumentInv'
<1>1. ParseInv' BY ParseStepInv DEF DocumentInv
<1>2. ParseInv /\ IInv /\ OneBlock BY DEF DocumentInv, ParseInv
<1>3. CASE Open
  <2>1. UNCHANGED readVars /\ phase = "open" /\ phase' \in {"read", "export"} /\ short' = short
    BY <1>3 DEF Open
  <2>2. OneBlock' BY <1>2, <2>1, OneBlockSame
  <2>3. ASSUME NEW d, Reads(d)' PROVE FALSE
    <3>1. short \in BOOLEAN BY DEF DocumentInv, ParseInv, ParseType
    <3>2. Reads(d) BY <2>1, <2>3, <3>1, SameReads
    <3>3. pos = Len(file) /\ pos \in 1 .. block BY <3>2 DEF Reads
    <3>4. PICK n \in Nat : Grown(n) BY <1>2 DEF IInv
    <3>5. n = 0 /\ (~broken => pos = n * block) BY <2>1, <3>4 DEF Grown
    <3>6. block \in Nat /\ broken \in BOOLEAN /\ (broken => file = <<>>)
      BY <1>2 DEF IInv, ReadType
    <3>7. 0 * block = 0 BY <3>6, Steps
    <3>8. CASE broken BY <3>3, <3>6, <3>8, EmptySeq
    <3>9. CASE ~broken BY <3>3, <3>5, <3>7, <3>9
    <3>10. QED BY <3>6, <3>8, <3>9
  <2>4. QED BY <1>1, <2>2, <2>3 DEF DocumentInv
<1>4. CASE ReadBlock
  <2>1. OneBlock' BY <1>2, <1>4, OneBlockRead
  <2>2. phase' \in {"split", "read"} BY <1>4 DEF ReadBlock
  <2>3. \A d : ParsedFrom(d)' BY <2>2 DEF ParsedFrom
  <2>4. QED BY <1>1, <2>1, <2>3 DEF DocumentInv
<1>5. CASE ReallocFails
  <2>1. UNCHANGED readVars /\ short' = TRUE BY <1>5 DEF ReallocFails
  <2>2. OneBlock' BY <1>2, <2>1, OneBlockSame
  <2>3. \A d : ~Reads(d)' BY <2>1 DEF Reads
  <2>4. QED BY <1>1, <2>2, <2>3 DEF DocumentInv
<1>6. ASSUME UNCHANGED readVars, \A d : Reads(d)' => ParsedFrom(d)'
      PROVE  DocumentInv'
  <2>1. OneBlock' BY <1>2, <1>6, OneBlockSame
  <2>2. QED BY <1>1, <1>6, <2>1 DEF DocumentInv
<1>7. CASE SplitText
  <2>1. UNCHANGED readVars BY <1>7 DEF SplitText
  <2>2. QED BY <1>6, <1>7, <2>1, SplitTextDocument
<1>8. CASE SkipToken
  <2>1. UNCHANGED readVars BY <1>8 DEF SkipToken
  <2>2. QED BY <1>6, <1>8, <2>1, SkipTokenDocument
<1>9. CASE DataToken
  <2>1. UNCHANGED readVars BY <1>9 DEF DataToken
  <2>2. QED BY <1>6, <1>9, <2>1, DataTokenDocument
<1>10. CASE SkipRecord
  <2>1. UNCHANGED readVars BY <1>10 DEF SkipRecord, NextRecord
  <2>2. QED BY <1>6, <1>10, <2>1, SkipRecordDocument
<1>11. CASE AddRecord
  <2>1. UNCHANGED readVars BY <1>11 DEF AddRecord, NextRecord
  <2>2. QED BY <1>6, <1>11, <2>1, AddRecordDocument
<1>12. CASE TokensDone
  <2>1. UNCHANGED readVars BY <1>12 DEF TokensDone
  <2>2. QED BY <1>6, <1>12, <2>1, TokensDoneDocument
<1>13. CASE Export \/ Free
  <2>1. UNCHANGED readVars /\ phase' \in {"free", "done"} BY <1>13 DEF Export, Free
  <2>2. \A d : ParsedFrom(d)' BY <2>1 DEF ParsedFrom
  <2>3. QED BY <1>6, <2>1, <2>2
<1>14. CASE UNCHANGED vars
  <2>1. UNCHANGED <<listVars, phase, readVars, parseVars, short>> BY <1>14 DEF vars
  <2>2. UNCHANGED <<order, tokens, records, content>> BY <2>1 DEF listVars, parseVars
  <2>3. ASSUME NEW d, Reads(d)' PROVE ParsedFrom(d)'
    <3>1. short \in BOOLEAN BY DEF DocumentInv, ParseInv, ParseType
    <3>2. Reads(d) BY <2>1, <2>3, <3>1, SameReads
    <3>3. ParsedFrom(d) BY <3>2 DEF DocumentInv
    <3>4. QED
      BY <2>1, <2>2, <3>3 DEF ParsedFrom, AllAdded, Added, ToAdd, IsText, IsToken
  <2>4. QED BY <1>6, <2>1, <2>3
<1>15. QED
  BY <1>3, <1>4, <1>5, <1>7, <1>8, <1>9, <1>10, <1>11, <1>12, <1>13, <1>14 DEF Next

LEMMA InitDocument == Init => DocumentInv
<1> SUFFICES ASSUME Init PROVE DocumentInv OBVIOUS
<1>1. ParseInv BY ParseInitInv
<1>2. phase = "open" /\ pos = 0 /\ buffer = <<>> BY DEF Init
<1>3. \A d : ParsedFrom(d) BY <1>2 DEF ParsedFrom
<1>4. OneBlock BY <1>2, EmptySeq DEF OneBlock
<1>5. QED BY <1>1, <1>3, <1>4 DEF DocumentInv

\* The invariant holds in every reachable state.
THEOREM DocumentInvariance == Spec => []DocumentInv
BY InitDocument, StepDocument, PTL DEF Spec

\* A document of any number of records and items, whose text a block holds, is
\* imported as it was meant: wherever there are blanks, but between records,
\* and whatever was in the memory behind it.
THEOREM DocumentImported == Spec => []ImportsDocument
<1>1. DocumentInv => ImportsDocument
  <2> SUFFICES ASSUME DocumentInv, phase = "export", pos = Len(file), pos \in 1 .. block, ~short,
                      ~BlankBetweenRecords, NEW d \in Documents, Bare(file) = Rendered(d)
               PROVE  Imported = [i \in DOMAIN d |-> Meant(d[i])]
    BY DEF ImportsDocument
  <2>1. d \in Seq(Seq(Names)) /\ d # <<>> /\ \A i \in DOMAIN d : d[i] # <<>>
    BY DocumentsAssumption DEF Names
  <2>2. DOMAIN d = 1 .. Len(d) BY <2>1, LenProperties
  <2>3. IsDocument(d) BY <2>1, <2>2 DEF IsDocument
  <2>4. Reads(d) BY <2>3 DEF Reads
  <2>5. Len(order) = Len(d) /\ \A i \in 1 .. Len(order) : content[order[i]] = Meant(d[i])
    BY <2>4 DEF DocumentInv, ParsedFrom, AllAdded, Added
  <2>6. ListTypeOK BY DEF DocumentInv, ParseInv, ListInv
  <2>7. DOMAIN order = DOMAIN d /\ DOMAIN order = 1 .. Len(order) BY <2>2, <2>5, <2>6, OrderFacts
  <2>8. QED BY <2>5, <2>7 DEF Imported
<1>2. QED BY <1>1, DocumentInvariance, PTL
=============================================================================

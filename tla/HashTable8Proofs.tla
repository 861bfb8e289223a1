-------------------------- MODULE HashTable8Proofs --------------------------
(***************************************************************************)
(* Proofs about HashTable8: for every set of keys and every hash, the      *)
(* table finds each key where it put it, frees each copy once, and is the  *)
(* map its callers take it for.                                            *)
(***************************************************************************)
EXTENDS HashTable8, SequenceTheorems, WellFoundedInduction, TLAPS

Turns == {"lt", "gt"}

\* Each node is in the bucket of its key, where a search for it passes.
Placed ==
  \A p \in DOMAIN node :
    /\ node[p] \in [key : Keys, value : Values \cup {NoValue}, copy : Copies \cup {NoCopy}]
    /\ p[2] \in Seq(Turns)
    /\ p = <<Hash[node[p].key], p[2]>>
    /\ Hash[node[p].key] # 255
    /\ Passes(node[p].key, p[2])

\* Below an empty root there is nothing.
Rooted ==
  \A p \in DOMAIN node :
    p[2] # <<>> => <<p[1], <<>>>> \in DOMAIN node /\ node[<<p[1], <<>>>>].key # <<>>

\* Each copy was made for the key of the node that has it.
MadeForKey ==
  \A p \in DOMAIN node : node[p].copy # NoCopy => live[node[p].copy] = node[p].key

\* No table, no nodes; a table that does not own has no copies.
Shape ==
  /\ table \in BOOLEAN /\ owns \in BOOLEAN /\ beyond \in BOOLEAN
  /\ ~table => ~owns /\ DOMAIN node = {}
  /\ ~owns => \A p \in DOMAIN node : node[p].copy = NoCopy
  /\ DOMAIN live \subseteq Copies /\ \A c \in DOMAIN live : live[c] \in Keys
  /\ answer[1] \in {"new", "add", "get", "free"}

Tree == Placed /\ Rooted
IInv == Shape /\ Tree /\ MadeForKey /\ CopiesOwned

-----------------------------------------------------------------------------
(* Paths and searches *)

\* Two paths a search for one key goes along agree as far as both go.
LEMMA PathsAgree ==
  ASSUME NEW k, NEW s \in Seq(Turns), NEW t \in Seq(Turns), Passes(k, s), Passes(k, t)
  PROVE  \A i \in 1 .. Len(s) : i <= Len(t) => s[i] = t[i]
<1> DEFINE Bad == {i \in Nat : i \in 1 .. Len(s) /\ i <= Len(t) /\ s[i] # t[i]}
<1>1. SUFFICES ASSUME Bad # {} PROVE FALSE
  BY LenProperties
<1>2. PICK i \in Bad : \A j \in Bad : ~(j < i)
  <2>1. IsWellFoundedOn(OpToRel(<, Nat), Nat) BY NatLessThanWellFounded
  <2>2. \E i \in Bad : \A j \in Bad : <<j, i>> \notin OpToRel(<, Nat)
    BY <1>1, <2>1, WFMin
  <2>3. QED BY <2>2 DEF OpToRel
<1>3. i \in 1 .. Len(s) /\ i \in 1 .. Len(t) /\ s[i] # t[i]
      /\ Len(s) \in Nat /\ Len(t) \in Nat
  BY LenProperties
<1>4. \A j \in 1 .. i - 1 : s[j] = t[j]
  BY <1>2, <1>3
<1>5. SubSeq(s, 1, i - 1) = SubSeq(t, 1, i - 1)
  <2>1. \A j \in 1 .. i - 1 : s[j] \in Turns /\ t[j] \in Turns
    BY <1>3, ElementOfSeq
  <2>2. /\ SubSeq(s, 1, i - 1) \in Seq(Turns) /\ SubSeq(t, 1, i - 1) \in Seq(Turns)
        /\ Len(SubSeq(s, 1, i - 1)) = Len(SubSeq(t, 1, i - 1))
        /\ Len(SubSeq(s, 1, i - 1)) = i - 1
        /\ \A j \in 1 .. i - 1 : SubSeq(s, 1, i - 1)[j] = s[j] /\ SubSeq(t, 1, i - 1)[j] = t[j]
    BY <1>3, <2>1, SubSeqProperties
  <2>3. QED BY <1>3, <1>4, <2>2, SeqEqual
<1>6. i \in DOMAIN s /\ i \in DOMAIN t
  BY <1>3, LenProperties
<1>7. QED BY <1>3, <1>5, <1>6 DEF Passes

\* No two nodes have the same key.
LEMMA OneNode ==
  ASSUME Placed, NEW p \in DOMAIN node, NEW q \in DOMAIN node, node[p].key = node[q].key,
         Len(p[2]) <= Len(q[2])
  PROVE  p = q
<1> DEFINE k == node[p].key
           m == Len(p[2])
<1>1. /\ p[2] \in Seq(Turns) /\ q[2] \in Seq(Turns)
      /\ p = <<Hash[k], p[2]>> /\ q = <<Hash[k], q[2]>>
      /\ Passes(k, p[2]) /\ Passes(k, q[2])
  BY DEF Placed
<1>2. \A i \in 1 .. m : p[2][i] = q[2][i]
  BY <1>1, PathsAgree, LenProperties
<1>3. m \in Nat /\ Len(q[2]) \in Nat /\ DOMAIN q[2] = 1 .. Len(q[2])
  BY <1>1, LenProperties
<1>4. SubSeq(q[2], 1, m) = p[2]
  <2>1. \A i \in 1 .. m : q[2][i] \in Turns BY <1>1, <1>3, ElementOfSeq
  <2>2. /\ SubSeq(q[2], 1, m) \in Seq(Turns) /\ Len(SubSeq(q[2], 1, m)) = m
        /\ \A i \in 1 .. m : SubSeq(q[2], 1, m)[i] = q[2][i]
    BY <1>3, <2>1, SubSeqProperties
  <2>3. QED BY <1>1, <1>2, <2>2, SeqEqual
<1>5. CASE m < Len(q[2])
  <2>1. m + 1 \in DOMAIN q[2] /\ (m + 1) - 1 = m BY <1>3, <1>5
  <2>2. node[<<Hash[k], SubSeq(q[2], 1, m)>>].key # k
    BY <1>1, <2>1 DEF Passes
  <2>3. QED BY <1>1, <1>4, <2>2
<1>6. CASE m = Len(q[2])
  BY <1>1, <1>2, <1>6, SeqEqual
<1>7. QED BY <1>3, <1>5, <1>6

COROLLARY KeysUnique ==
  ASSUME Placed, NEW p \in DOMAIN node, NEW q \in DOMAIN node, node[p].key = node[q].key
  PROVE  p = q
<1>1. Len(p[2]) \in Nat /\ Len(q[2]) \in Nat BY LenProperties DEF Placed
<1>2. CASE Len(p[2]) <= Len(q[2]) BY <1>2, OneNode
<1>3. CASE Len(q[2]) <= Len(p[2]) BY <1>3, OneNode
<1>4. QED BY <1>1, <1>2, <1>3

\* A search finds what is there, the key of an empty root excepted.
LEMMA FoundIs ==
  ASSUME Tree, NEW k \in Keys
  PROVE  Found(k) = {p \in DOMAIN node :
                       node[p].key = k /\ (k = <<>> => node[<<p[1], <<>>>>].key # <<>>)}
<1> DEFINE There == {p \in DOMAIN node :
                       node[p].key = k /\ (k = <<>> => node[<<p[1], <<>>>>].key # <<>>)}
<1>1. \A p \in DOMAIN node : node[p].key = k => p[1] = Hash[k] /\ Passes(k, p[2])
  BY DEF Tree, Placed
<1>2. CASE RootEmpty(k)
  <2>1. SUFFICES ASSUME NEW p \in There PROVE FALSE
    BY <1>2 DEF Found
  <2>2. p \in DOMAIN node /\ node[p].key = k /\ p[1] = Hash[k] /\ p = <<Hash[k], p[2]>>
    BY <1>1 DEF Tree, Placed
  <2>3. p[2] = <<>>
    BY <1>2, <2>2 DEF Tree, Rooted, RootEmpty, Root
  <2>4. p = Root(k) BY <2>2, <2>3 DEF Root
  <2>5. QED BY <1>2, <2>2, <2>4 DEF RootEmpty, Root
<1>3. CASE ~RootEmpty(k)
  <2>1. node[<<Hash[k], <<>>>>].key # <<>> BY <1>3 DEF RootEmpty, Root
  <2>2. QED BY <1>1, <1>3, <2>1 DEF Found
<1>4. QED BY <1>2, <1>3

\* Where an add of k puts its value.
LEMMA TargetIs ==
  ASSUME Tree, NEW k \in Keys, NEW p \in Targets(k)
  PROVE  /\ p[2] \in Seq(Turns) /\ p = <<Hash[k], p[2]>> /\ Passes(k, p[2])
         /\ p \in DOMAIN node => node[p].key = k \/ (p[2] = <<>> /\ node[p].key = <<>>)
         /\ p[2] # <<>> => Root(k) \in DOMAIN node /\ node[Root(k)].key # <<>>
         /\ \A q \in DOMAIN node : node[q].key = k => q = p
<1>1. CASE RootEmpty(k)
  <2>1. p = <<Hash[k], <<>>>> BY <1>1 DEF Targets, Root
  <2>2. Passes(k, <<>>) BY DEF Passes
  <2>3. \A q \in DOMAIN node : node[q].key = k => q = p
    <3>1. SUFFICES ASSUME NEW q \in DOMAIN node, node[q].key = k PROVE q = p
      OBVIOUS
    <3>2. q = <<Hash[k], q[2]>> BY <3>1 DEF Tree, Placed
    <3>3. q[2] = <<>> BY <1>1, <3>2 DEF Tree, Rooted, RootEmpty, Root
    <3>4. QED BY <2>1, <3>2, <3>3
  <2>4. <<>> \in Seq(Turns) BY EmptySeq
  <2>5. QED BY <1>1, <2>1, <2>2, <2>3, <2>4 DEF RootEmpty, Root
<1>2. CASE ~RootEmpty(k) /\ Found(k) # {}
  <2>1. p \in DOMAIN node /\ node[p].key = k
    <3>1. p \in Found(k) BY <1>2 DEF Targets
    <3>2. QED BY <3>1, FoundIs
  <2>2. p[2] \in Seq(Turns) /\ p = <<Hash[k], p[2]>> /\ Passes(k, p[2])
    BY <2>1 DEF Tree, Placed
  <2>3. \A q \in DOMAIN node : node[q].key = k => q = p BY <2>1, KeysUnique DEF Tree
  <2>4. QED BY <1>2, <2>1, <2>2, <2>3 DEF RootEmpty
<1>3. CASE ~RootEmpty(k) /\ Found(k) = {}
  <2>1. PICK q \in DOMAIN node, turn \in Turns : p = <<Hash[k], Append(q[2], turn)>>
    BY <1>3 DEF Targets, Turns
  <2>2. p \notin DOMAIN node /\ Passes(k, p[2])
    BY <1>3 DEF Targets
  <2>3. p[2] \in Seq(Turns) /\ p = <<Hash[k], p[2]>>
    <3>1. q[2] \in Seq(Turns) BY DEF Tree, Placed
    <3>2. Append(q[2], turn) \in Seq(Turns) BY <3>1, AppendProperties
    <3>3. QED BY <2>1, <3>2
  <2>4. \A r \in DOMAIN node : node[r].key # k
    <3>1. SUFFICES ASSUME NEW r \in DOMAIN node, node[r].key = k PROVE FALSE
      OBVIOUS
    <3>2. r[1] = Hash[k] BY <3>1 DEF Tree, Placed
    <3>3. node[<<r[1], <<>>>>].key # <<>> BY <1>3, <3>2 DEF RootEmpty, Root
    <3>4. QED BY <1>3, <3>1, <3>3, FoundIs
  <2>5. QED BY <1>3, <2>2, <2>3, <2>4 DEF RootEmpty
<1>4. QED BY <1>1, <1>2, <1>3

-----------------------------------------------------------------------------
(* What setting a node keeps *)

\* The nodes above another keep their keys.
LEMMA AboveKept ==
  ASSUME Tree, NEW k \in Keys, NEW p \in Targets(k), NEW v, NEW c, SetNode(p, k, v, c),
         NEW q \in DOMAIN node, NEW i \in DOMAIN q[2]
  PROVE  LET at == <<q[1], SubSeq(q[2], 1, i - 1)>> IN
           at \in DOMAIN node /\ at \in DOMAIN node' /\ node'[at].key = node[at].key
<1> DEFINE at == <<q[1], SubSeq(q[2], 1, i - 1)>>
<1>1. q = <<Hash[node[q].key], q[2]>> /\ q[2] \in Seq(Turns) /\ Passes(node[q].key, q[2])
  BY DEF Tree, Placed
<1>2. at \in DOMAIN node
  <2>1. <<Hash[node[q].key], SubSeq(q[2], 1, i - 1)>> \in DOMAIN node BY <1>1 DEF Passes
  <2>2. Hash[node[q].key] = q[1] BY <1>1
  <2>3. QED BY <2>1, <2>2
<1>3. at \in DOMAIN node' BY <1>2 DEF SetNode
<1>4. CASE at # p BY <1>2, <1>3, <1>4 DEF SetNode
<1>5. CASE at = p
  <2>1. node'[at].key = k BY <1>2, <1>5 DEF SetNode
  <2>2. node[p].key = k \/ (p[2] = <<>> /\ node[p].key = <<>>) BY <1>2, <1>5, TargetIs
  <2>3. ASSUME p[2] = <<>>, node[p].key = <<>> PROVE FALSE
    <3>1. p = <<q[1], <<>>>> BY <1>5, <2>3
    <3>2. q[2] # <<>> BY EmptySeq
    <3>3. QED BY <2>3, <3>1, <3>2 DEF Tree, Rooted
  <2>4. node[at].key = k BY <1>5, <2>2, <2>3
  <2>5. QED BY <1>2, <1>3, <2>1, <2>4
<1>6. QED BY <1>2, <1>3, <1>4, <1>5

\* A search that passes a node before passes it afterwards.
LEMMA PassesKept ==
  ASSUME Tree, NEW k \in Keys, NEW p \in Targets(k), NEW v, NEW c, SetNode(p, k, v, c),
         NEW q \in DOMAIN node, NEW key, NEW path, path = q[2], q[1] = Hash[key],
         Passes(key, path)
  PROVE  Passes(key, path)'
<1>1. SUFFICES ASSUME NEW i \in DOMAIN path
      PROVE  LET at == <<Hash[key], SubSeq(path, 1, i - 1)>> IN
               at \in DOMAIN node' /\ node'[at].key # key
               /\ path[i] = Turn(key, node'[at].key)
  BY DEF Passes
<1> DEFINE at == <<Hash[key], SubSeq(path, 1, i - 1)>>
<1>2. at \in DOMAIN node /\ node[at].key # key /\ path[i] = Turn(key, node[at].key)
  BY DEF Passes
<1>3. at \in DOMAIN node' /\ node'[at].key = node[at].key
  BY AboveKept
<1>4. QED BY <1>2, <1>3

LEMMA SetTree ==
  ASSUME Tree, NEW k \in Keys, Hash[k] # 255, NEW p \in Targets(k),
         NEW v \in Values \cup {NoValue}, NEW c \in Copies \cup {NoCopy}, SetNode(p, k, v, c)
  PROVE  Tree'
<1>1. /\ DOMAIN node' = DOMAIN node \cup {p}
      /\ node'[p] = [key |-> k, value |-> v, copy |-> c]
      /\ \A q \in DOMAIN node : q # p => node'[q] = node[q]
  BY DEF SetNode
<1>2. /\ p[2] \in Seq(Turns) /\ p = <<Hash[k], p[2]>> /\ Passes(k, p[2])
      /\ p \in DOMAIN node => node[p].key = k \/ (p[2] = <<>> /\ node[p].key = <<>>)
      /\ p[2] # <<>> => Root(k) \in DOMAIN node /\ node[Root(k)].key # <<>>
  BY TargetIs
<1>3. Placed'
  <2>1. SUFFICES ASSUME NEW q \in DOMAIN node'
        PROVE /\ node'[q] \in [key : Keys, value : Values \cup {NoValue},
                              copy : Copies \cup {NoCopy}]
              /\ q[2] \in Seq(Turns)
              /\ q = <<Hash[node'[q].key], q[2]>>
              /\ Hash[node'[q].key] # 255
              /\ Passes(node[q].key, q[2])'
    BY DEF Placed
  <2>2. CASE q = p
    <3>1. node'[q] \in [key : Keys, value : Values \cup {NoValue}, copy : Copies \cup {NoCopy}]
          /\ node'[q].key = k
      BY <1>1, <2>2
    <3>2. Passes(k, p[2])'
      <4>1. SUFFICES ASSUME NEW i \in DOMAIN p[2]
            PROVE  LET at == <<Hash[k], SubSeq(p[2], 1, i - 1)>> IN
                     at \in DOMAIN node' /\ node'[at].key # k
                     /\ p[2][i] = Turn(k, node'[at].key)
        BY DEF Passes
      <4> DEFINE at == <<Hash[k], SubSeq(p[2], 1, i - 1)>>
      <4>2. at \in DOMAIN node /\ node[at].key # k /\ p[2][i] = Turn(k, node[at].key)
        BY <1>2 DEF Passes
      <4>3. at # p
        <5>1. p[2] # <<>> BY EmptySeq
        <5>2. QED BY <1>2, <4>2, <5>1
      <4>4. QED BY <1>1, <4>2, <4>3
    <3>3. Passes(node[q].key, q[2])' BY <2>2, <3>1, <3>2 DEF Passes
    <3>4. QED BY <1>2, <2>2, <3>1, <3>3
  <2>3. CASE q # p
    <3>1. q \in DOMAIN node /\ node'[q] = node[q] BY <1>1, <2>3
    <3> DEFINE key == node[q].key
    <3>2. /\ node[q] \in [key : Keys, value : Values \cup {NoValue}, copy : Copies \cup {NoCopy}]
          /\ q[2] \in Seq(Turns) /\ q = <<Hash[key], q[2]>> /\ Hash[key] # 255
          /\ Passes(key, q[2])
      BY <3>1 DEF Tree, Placed
    <3>3. PICK a : a = key OBVIOUS
    <3>4. PICK path : path = q[2] OBVIOUS
    <3>5. Passes(a, path)'
      <4>1. q[1] = Hash[a] /\ Passes(a, path) BY <3>2, <3>3, <3>4
      <4>2. QED BY <3>1, <3>4, <4>1, PassesKept
    <3>6. Passes(node[q].key, q[2])'
      <4>1. node'[q].key = a /\ q[2] = path BY <3>1, <3>3, <3>4
      <4>2. QED BY <3>5, <4>1 DEF Passes
    <3>7. QED BY <3>1, <3>2, <3>6
  <2>4. QED BY <2>2, <2>3
<1>4. Rooted'
  <2>1. SUFFICES ASSUME NEW q \in DOMAIN node', q[2] # <<>>
        PROVE  <<q[1], <<>>>> \in DOMAIN node' /\ node'[<<q[1], <<>>>>].key # <<>>
    BY DEF Rooted
  <2> DEFINE root == <<q[1], <<>>>>
  <2>2. root \in DOMAIN node /\ node[root].key # <<>>
    <3>1. CASE q = p BY <1>2, <2>1, <3>1 DEF Root
    <3>2. CASE q # p BY <1>1, <2>1, <3>2 DEF Tree, Rooted
    <3>3. QED BY <3>1, <3>2
  <2>3. root = p => node'[root].key = k /\ k # <<>>
    BY <1>1, <1>2, <2>2
  <2>4. QED BY <1>1, <2>2, <2>3
<1>5. QED BY <1>3, <1>4 DEF Tree

LEMMA FoundAlways ==
  Tree => \A k \in Keys :
    Found(k) = {p \in DOMAIN node :
                  node[p].key = k /\ (k = <<>> => node[<<p[1], <<>>>>].key # <<>>)}
BY FoundIs

LEMMA FoundNext ==
  Tree' => (\A k \in Keys :
    Found(k) = {p \in DOMAIN node :
                  node[p].key = k /\ (k = <<>> => node[<<p[1], <<>>>>].key # <<>>)})'
BY FoundAlways, PTL

LEMMA UniqueAlways ==
  Placed => \A p, q \in DOMAIN node : node[p].key = node[q].key => p = q
BY KeysUnique

LEMMA UniqueNext ==
  Placed' => (\A p, q \in DOMAIN node : node[p].key = node[q].key => p = q)'
BY UniqueAlways, PTL

\* An add gives its key the value it stores and leaves every other alone.
LEMMA SetValue ==
  ASSUME Tree, NEW k \in Keys, Hash[k] # 255, NEW p \in Targets(k),
         NEW v \in Values \cup {NoValue}, NEW c \in Copies \cup {NoCopy}, SetNode(p, k, v, c),
         NEW j \in Keys, j # <<>>
  PROVE  ValueOf(j)' = IF j = k THEN v ELSE ValueOf(j)
<1>1. /\ DOMAIN node' = DOMAIN node \cup {p}
      /\ node'[p] = [key |-> k, value |-> v, copy |-> c]
      /\ \A q \in DOMAIN node : q # p => node'[q] = node[q]
  BY DEF SetNode
<1>2. Tree' BY SetTree
<1>3. Found(j) = {q \in DOMAIN node : node[q].key = j} BY FoundIs
<1>4. Found(j)' = {q \in DOMAIN node' : node'[q].key = j} BY <1>2, FoundNext
<1>5. CASE j = k
  <2>1. p \in Found(j)' BY <1>1, <1>4, <1>5
  <2>2. \A q \in Found(j)' : q = p
    <3>1. \A q, r \in DOMAIN node' : node'[q].key = node'[r].key => q = r
      BY <1>2, UniqueNext DEF Tree
    <3>2. QED BY <1>4, <2>1, <3>1
  <2>3. Found(j)' = {p} BY <2>1, <2>2
  <2>4. (CHOOSE q \in Found(j)' : TRUE) = p BY <2>3
  <2>5. ValueOf(j)' = node'[CHOOSE q \in Found(j)' : TRUE].value BY <2>1 DEF ValueOf
  <2>6. node'[p].value = v BY <1>1
  <2>7. QED BY <1>5, <2>4, <2>5, <2>6
<1>6. CASE j # k
  <2>1. p \in DOMAIN node => node[p].key # j BY <1>6, TargetIs
  <2>2. Found(j)' = Found(j) BY <1>1, <1>3, <1>4, <1>6, <2>1
  <2>3. \A q \in Found(j) : node'[q] = node[q] BY <1>1, <1>3, <2>1
  <2>4. CASE Found(j) = {} BY <1>6, <2>2, <2>4 DEF ValueOf
  <2>5. CASE Found(j) # {}
    <3>1. (CHOOSE q \in Found(j) : TRUE) \in Found(j) BY <2>5
    <3>2. QED BY <1>6, <2>2, <2>3, <2>5, <3>1 DEF ValueOf
  <2>6. QED BY <2>4, <2>5
<1>7. QED BY <1>5, <1>6

-----------------------------------------------------------------------------
(* The copies *)

Owned == MadeForKey /\ CopiesOwned /\ DOMAIN live \subseteq Copies
         /\ \A c \in DOMAIN live : live[c] \in Keys

LEMMA HeldIs ==
  ASSUME Owned, NEW p, NEW q \in DOMAIN node, q # p, node[q].copy # NoCopy
  PROVE  node[q].copy \in DOMAIN live \ {Held(p)}
BY DEF Owned, CopiesOwned, Held

\* The node loses the copy it had.
LEMMA CopyDropped ==
  ASSUME Owned, NEW k \in Keys, NEW p, NEW v, SetNode(p, k, v, NoCopy), live' = Without(p)
  PROVE  Owned'
<1>1. /\ DOMAIN node' = DOMAIN node \cup {p}
      /\ node'[p].copy = NoCopy
      /\ \A q \in DOMAIN node : q # p => node'[q] = node[q]
  BY DEF SetNode
<1>2. /\ DOMAIN live' = DOMAIN live \ {Held(p)}
      /\ \A c \in DOMAIN live' : live'[c] = live[c]
  BY DEF Without
<1>3. MadeForKey' BY <1>1, <1>2, HeldIs DEF Owned, MadeForKey
<1>4. \A c \in DOMAIN live' : live'[c] = <<>> \/ \E q \in DOMAIN node' : node'[q].copy = c
  <2>1. SUFFICES ASSUME NEW c \in DOMAIN live', live'[c] # <<>>
        PROVE  \E q \in DOMAIN node' : node'[q].copy = c
    OBVIOUS
  <2>2. PICK q \in DOMAIN node : node[q].copy = c
    BY <1>2, <2>1 DEF Owned, CopiesOwned
  <2>3. q # p BY <1>2, <2>1, <2>2 DEF Held
  <2>4. QED BY <1>1, <2>2, <2>3
<1>5. \A q \in DOMAIN node' : node'[q].copy \in DOMAIN live' \cup {NoCopy}
  BY <1>1, <1>2, HeldIs
<1>6. \A q, r \in DOMAIN node' : q # r /\ node'[q].copy = node'[r].copy => node'[q].copy = NoCopy
  BY <1>1 DEF Owned, CopiesOwned
<1>7. CopiesOwned' BY <1>4, <1>5, <1>6 DEF CopiesOwned
<1>8. QED BY <1>2, <1>3, <1>7 DEF Owned

\* The node loses the copy it had and has a new one.
LEMMA CopyReplaced ==
  ASSUME Owned, NoCopy \notin Copies, NEW k \in Keys, NEW p, NEW v,
         NEW c \in Copies \ DOMAIN Without(p), SetNode(p, k, v, c),
         live' = [d \in DOMAIN Without(p) \cup {c} |-> IF d = c THEN k ELSE live[d]]
  PROVE  Owned'
<1>1. /\ DOMAIN node' = DOMAIN node \cup {p}
      /\ node'[p].copy = c /\ node'[p].key = k
      /\ \A q \in DOMAIN node : q # p => node'[q] = node[q]
  BY DEF SetNode
<1>2. /\ DOMAIN live' = (DOMAIN live \ {Held(p)}) \cup {c}
      /\ c \notin DOMAIN live \ {Held(p)} /\ live'[c] = k
      /\ \A d \in DOMAIN live \ {Held(p)} : live'[d] = live[d]
  BY DEF Without
<1>3. MadeForKey' BY <1>1, <1>2, HeldIs DEF Owned, MadeForKey
<1>4. \A d \in DOMAIN live' : live'[d] = <<>> \/ \E q \in DOMAIN node' : node'[q].copy = d
  <2>1. SUFFICES ASSUME NEW d \in DOMAIN live', live'[d] # <<>>
        PROVE  \E q \in DOMAIN node' : node'[q].copy = d
    OBVIOUS
  <2>2. CASE d = c BY <1>1, <2>2
  <2>3. CASE d # c
    <3>1. d \in DOMAIN live \ {Held(p)} /\ live[d] # <<>> BY <1>2, <2>1, <2>3
    <3>2. PICK q \in DOMAIN node : node[q].copy = d
      BY <3>1 DEF Owned, CopiesOwned
    <3>3. q # p BY <3>1, <3>2 DEF Held
    <3>4. QED BY <1>1, <3>2, <3>3
  <2>4. QED BY <2>2, <2>3
<1>5. \A q \in DOMAIN node' : node'[q].copy \in DOMAIN live' \cup {NoCopy}
  BY <1>1, <1>2, HeldIs
<1>6. \A q, r \in DOMAIN node' : q # r /\ node'[q].copy = node'[r].copy => node'[q].copy = NoCopy
  <2>1. \A q \in DOMAIN node : q # p => node'[q].copy # c
    BY <1>1, <1>2, HeldIs
  <2>2. QED BY <1>1, <2>1 DEF Owned, CopiesOwned
<1>7. CopiesOwned' BY <1>4, <1>5, <1>6 DEF CopiesOwned
<1>8. QED BY <1>2, <1>3, <1>7 DEF Owned

-----------------------------------------------------------------------------
(* The invariant *)

LEMMA InitInv == Init => IInv
<1>1. SUFFICES ASSUME Init PROVE IInv OBVIOUS
<1>2. DOMAIN node = {} /\ DOMAIN live = {} BY <1>1 DEF Init
<1>3. QED
  BY <1>1, <1>2
  DEF Init, IInv, Shape, Tree, Placed, Rooted, MadeForKey, CopiesOwned

LEMMA AddPointerInv ==
  ASSUME IInv, NEW k \in Keys, NEW v \in Values \cup {NoValue}, AddPointer(k, v)
  PROVE  IInv'
<1>1. PICK p \in Targets(k) :
        /\ Hash[k] # 255
        /\ table => ~owns
        /\ SetNode(p, k, v, NoCopy)
        /\ table' = TRUE /\ owns' = FALSE
        /\ answer' = <<"add", k, TRUE>>
        /\ UNCHANGED <<live, beyond>>
  BY DEF AddPointer
<1>2. Tree' BY <1>1, SetTree DEF IInv
<1>3. \A q \in DOMAIN node : node[q].copy = NoCopy BY <1>1 DEF IInv, Shape
<1>4. \A q \in DOMAIN node' : node'[q].copy = NoCopy BY <1>1, <1>3 DEF SetNode
<1>5. Shape' BY <1>1, <1>4 DEF IInv, Shape
<1>6. MadeForKey' BY <1>4 DEF MadeForKey
<1>7. CopiesOwned'
  <2>1. \A c \in DOMAIN live : live[c] = <<>>
    BY <1>3, ValuesAssumption DEF IInv, Shape, CopiesOwned
  <2>2. QED BY <1>1, <1>4, <2>1 DEF CopiesOwned
<1>8. QED BY <1>2, <1>5, <1>6, <1>7 DEF IInv

LEMMA AddCopyInv ==
  ASSUME IInv, NEW k \in Keys, NEW v \in Values \cup {NoValue}, AddCopy(k, v)
  PROVE  IInv'
<1>1. PICK p \in Targets(k) :
        /\ Hash[k] # 255
        /\ IF v = NoValue
           THEN /\ SetNode(p, k, NoValue, NoCopy)
                /\ live' = Without(p)
           ELSE \E c \in Copies \ DOMAIN Without(p) :
                  /\ SetNode(p, k, v, c)
                  /\ live' = [d \in DOMAIN Without(p) \cup {c} |-> IF d = c THEN k ELSE live[d]]
        /\ table' = TRUE /\ owns' = TRUE
        /\ answer' = <<"add", k, TRUE>>
        /\ UNCHANGED beyond
  BY DEF AddCopy
<1>2. Owned BY DEF IInv, Shape, Owned
<1>3. Tree' /\ Owned'
  <2>1. CASE v = NoValue
    <3>1. SetNode(p, k, NoValue, NoCopy) /\ live' = Without(p) BY <1>1, <2>1
    <3>2. Owned' BY <1>2, <3>1, CopyDropped
    <3>3. Tree' BY <1>1, <3>1, SetTree DEF IInv
    <3>4. QED BY <3>2, <3>3
  <2>2. CASE v # NoValue
    <3>1. PICK c \in Copies \ DOMAIN Without(p) :
            /\ SetNode(p, k, v, c)
            /\ live' = [d \in DOMAIN Without(p) \cup {c} |-> IF d = c THEN k ELSE live[d]]
      BY <1>1, <2>2
    <3>2. Owned' BY <1>2, <3>1, CopyReplaced, ValuesAssumption
    <3>3. Tree' BY <1>1, <3>1, SetTree DEF IInv
    <3>4. QED BY <3>2, <3>3
  <2>3. QED BY <2>1, <2>2
<1>4. Shape' BY <1>1, <1>3 DEF IInv, Shape, Owned
<1>5. QED BY <1>3, <1>4 DEF IInv, Owned

LEMMA AddCopyFailsInv ==
  ASSUME IInv, NEW k \in Keys, NEW v \in Values \cup {NoValue}, AddCopyFails(k, v)
  PROVE  IInv'
<1>1. PICK p \in Targets(k) :
        /\ Hash[k] # 255
        /\ table => owns
        /\ live' = Without(p)
        /\ IF table THEN SetNode(p, k, NoValue, NoCopy) ELSE UNCHANGED node
        /\ answer' = <<"add", k, FALSE>>
        /\ UNCHANGED <<table, owns, beyond>>
  BY DEF AddCopyFails
<1>2. Owned BY DEF IInv, Shape, Owned
<1>3. CASE table
  <2>1. SetNode(p, k, NoValue, NoCopy) BY <1>1, <1>3
  <2>2. Owned' BY <1>1, <1>2, <2>1, CopyDropped
  <2>3. Tree' BY <1>1, <2>1, SetTree DEF IInv
  <2>4. Shape' BY <1>1, <1>3, <2>2 DEF IInv, Shape, Owned
  <2>5. QED BY <2>2, <2>3, <2>4 DEF IInv, Owned
<1>4. CASE ~table
  <2>1. DOMAIN node = {} /\ node' = node BY <1>1, <1>4 DEF IInv, Shape
  <2>2. Held(p) = NoCopy BY <2>1 DEF Held
  <2>3. DOMAIN live' = DOMAIN live /\ \A c \in DOMAIN live : live'[c] = live[c]
    BY <1>1, <2>2, ValuesAssumption DEF IInv, Shape, Without
  <2>4. Shape' BY <1>1, <1>4, <2>1, <2>3 DEF IInv, Shape
  <2>5. Tree' /\ MadeForKey' BY <2>1 DEF Tree, Placed, Rooted, MadeForKey
  <2>6. CopiesOwned' BY <2>1, <2>3 DEF IInv, CopiesOwned
  <2>7. QED BY <2>4, <2>5, <2>6 DEF IInv
<1>5. QED BY <1>3, <1>4

LEMMA FreeInv == ASSUME IInv, Free PROVE IInv'
<1>1. DOMAIN node' = {} BY DEF Free
<1>2. /\ DOMAIN live' = {c \in DOMAIN live : ~Freed(c)}
      /\ \A c \in DOMAIN live' : live'[c] = live[c]
  BY DEF Free
<1>3. \A c \in DOMAIN live' : live'[c] = <<>>
  <2>1. SUFFICES ASSUME NEW c \in DOMAIN live', live[c] # <<>> PROVE FALSE
    BY <1>2
  <2>2. PICK p \in DOMAIN node : node[p].copy = c
    BY <1>2, <2>1 DEF IInv, CopiesOwned
  <2>3. c # NoCopy BY <1>2, ValuesAssumption DEF IInv, Shape
  <2>4. node[p].key # <<>> BY <2>1, <2>2, <2>3 DEF IInv, MadeForKey
  <2>5. p[1] \in Buckets
    <3>1. p[1] = Hash[node[p].key] /\ node[p].key \in Keys /\ Hash[node[p].key] # 255
      BY DEF IInv, Tree, Placed
    <3>2. Hash[node[p].key] \in 0 .. 255 BY <3>1, HashAssumption
    <3>3. QED BY <3>1, <3>2 DEF Buckets
  <2>6. node[<<p[1], <<>>>>].key # <<>>
    <3>1. CASE p[2] = <<>>
      <4>1. p = <<p[1], <<>>>> BY <3>1 DEF IInv, Tree, Placed
      <4>2. QED BY <2>4, <4>1
    <3>2. CASE p[2] # <<>> BY <3>2 DEF IInv, Tree, Rooted
    <3>3. QED BY <3>1, <3>2
  <2>7. Freed(c) BY <2>2, <2>5, <2>6 DEF Freed
  <2>8. QED BY <1>2, <2>7
<1>4. Shape' BY <1>1, <1>2 DEF IInv, Shape, Free
<1>5. QED BY <1>1, <1>3, <1>4 DEF IInv, Tree, Placed, Rooted, MadeForKey, CopiesOwned

\* A call that changes neither the nodes nor the copies.
LEMMA SameInv ==
  ASSUME IInv, UNCHANGED <<table, owns, node, live>>, beyond' \in BOOLEAN,
         answer'[1] \in {"new", "add", "get", "free"}
  PROVE  IInv'
<1>1. table' = table /\ owns' = owns /\ node' = node /\ live' = live OBVIOUS
<1>2. Shape' BY <1>1 DEF IInv, Shape
<1>3. Placed'
  <2>1. ASSUME NEW p \in DOMAIN node, Passes(node[p].key, p[2]) PROVE Passes(node[p].key, p[2])'
    BY <1>1, <2>1 DEF Passes
  <2>2. QED BY <1>1, <2>1 DEF IInv, Tree, Placed
<1>4. Rooted' BY <1>1 DEF IInv, Tree, Rooted
<1>5. MadeForKey' /\ CopiesOwned' BY <1>1 DEF IInv, MadeForKey, CopiesOwned
<1>6. QED BY <1>2, <1>3, <1>4, <1>5 DEF IInv, Tree

LEMMA NextInv == IInv /\ [Next]_vars => IInv'
<1> SUFFICES ASSUME IInv, [Next]_vars PROVE IInv' OBVIOUS
<1>1. ASSUME NEW k \in Keys, NEW v \in Values \cup {NoValue}, AddPointer(k, v) PROVE IInv'
  BY <1>1, AddPointerInv
<1>2. ASSUME NEW k \in Keys, NEW v \in Values \cup {NoValue}, AddCopy(k, v) PROVE IInv'
  BY <1>2, AddCopyInv
<1>3. ASSUME NEW k \in Keys, NEW v \in Values \cup {NoValue}, AddCopyFails(k, v) PROVE IInv'
  BY <1>3, AddCopyFailsInv
<1>4. ASSUME NEW k \in Keys, AddNoMemory(k) \/ Get(k) PROVE IInv'
  <2>1. UNCHANGED <<table, owns, node, live>> /\ beyond' = beyond
    BY <1>4 DEF AddNoMemory, Get
  <2>2. answer'[1] = "add" \/ answer'[1] = "get"
    <3>1. \/ answer' = <<"add", k, FALSE>>
          \/ answer' = <<"get", k, ValueOf(k)>>
      BY <1>4 DEF AddNoMemory, Get
    <3>2. CASE answer' = <<"add", k, FALSE>> BY <3>2
    <3>3. CASE answer' = <<"get", k, ValueOf(k)>>
      <4>1. PICK r : r = ValueOf(k) OBVIOUS
      <4>2. answer' = <<"get", k, r>> BY <3>3, <4>1
      <4>3. QED BY <4>2
    <3>4. QED BY <3>1, <3>2, <3>3
  <2>3. beyond' \in BOOLEAN BY <2>1 DEF IInv, Shape
  <2>4. QED BY <2>1, <2>2, <2>3, SameInv
<1>5. ASSUME NEW k \in Keys, Beyond(k) PROVE IInv'
  BY <1>5, SameInv DEF Beyond, IInv, Shape
<1>6. CASE Free BY <1>6, FreeInv
<1>7. CASE UNCHANGED vars BY <1>7, SameInv DEF vars, IInv, Shape
<1>8. QED BY <1>1, <1>2, <1>3, <1>4, <1>5, <1>6, <1>7 DEF Next, Add

\* The invariant holds in every reachable state, whatever calls are made.
THEOREM TableInvariance == Spec => []IInv
BY InitInv, NextInv, PTL DEF Spec

-----------------------------------------------------------------------------
(* The results *)

LEMMA InvTypeOK == IInv => TypeOK
<1>1. SUFFICES ASSUME IInv PROVE TypeOK OBVIOUS
<1>2. ASSUME NEW p \in DOMAIN node
      PROVE  /\ p[1] \in Buckets /\ \A i \in DOMAIN p[2] : p[2][i] \in {"lt", "gt"}
             /\ node[p] \in [key : Keys, value : Values \cup {NoValue}, copy : Copies \cup {NoCopy}]
  <2>1. /\ node[p] \in [key : Keys, value : Values \cup {NoValue}, copy : Copies \cup {NoCopy}]
        /\ p[2] \in Seq(Turns) /\ p = <<Hash[node[p].key], p[2]>> /\ Hash[node[p].key] # 255
    BY <1>1 DEF IInv, Tree, Placed
  <2>2. p[1] \in Buckets
    <3>1. p[1] = Hash[node[p].key] /\ node[p].key \in Keys BY <2>1
    <3>2. Hash[node[p].key] \in 0 .. 255 BY <3>1, HashAssumption
    <3>3. QED BY <2>1, <3>1, <3>2 DEF Buckets
  <2>3. \A i \in DOMAIN p[2] : p[2][i] \in {"lt", "gt"}
    BY <2>1, ElementOfSeq, LenProperties DEF Turns
  <2>4. QED BY <2>1, <2>2, <2>3
<1>3. QED BY <1>1, <1>2 DEF IInv, Shape, TypeOK

\* For every set of keys and every hash of 8 bits, the table's state is of
\* its types, and no node lies in the bucket the array does not have.
THEOREM TypeCorrect == Spec => []TypeOK
BY TableInvariance, InvTypeOK, PTL

LEMMA InvEveryKeyFound == IInv => EveryKeyFound
<1>1. SUFFICES ASSUME IInv, NEW p \in DOMAIN node, node[p].key # <<>> \/ p[2] # <<>>
      PROVE Found(node[p].key) = {p}
  BY DEF EveryKeyFound
<1> DEFINE k == node[p].key
<1>2. Tree /\ Placed /\ k \in Keys BY <1>1 DEF IInv, Tree, Placed
<1>3. Found(k) = {q \in DOMAIN node :
                    node[q].key = k /\ (k = <<>> => node[<<q[1], <<>>>>].key # <<>>)}
  BY <1>2, FoundIs
<1>4. k = <<>> => node[<<p[1], <<>>>>].key # <<>> BY <1>1, <1>2 DEF Tree, Rooted
<1>5. \A q \in DOMAIN node : node[q].key = k => q = p BY <1>2, KeysUnique
<1>6. QED BY <1>3, <1>4, <1>5

\* For every set of keys, every hash and every sequence of calls, a key in
\* the table is found, in one node.
THEOREM KeysFound == Spec => []EveryKeyFound
BY TableInvariance, InvEveryKeyFound, PTL

\* For every such sequence each copy is freed once and none is lost, but for
\* those an empty root was given for the empty key.
THEOREM CopiesSafe == Spec => []CopiesOwned
<1>1. IInv => CopiesOwned BY DEF IInv
<1>2. QED BY TableInvariance, <1>1, PTL

-----------------------------------------------------------------------------
(* The table as a map *)

TableMap == [k \in KeptKeys |-> ValueOf(k)]

LEMMA EmptyMap ==
  ASSUME DOMAIN node = {}, NEW k
  PROVE  ValueOf(k) = NoValue
BY DEF ValueOf, Found, RootEmpty

LEMMA ValueInValues ==
  ASSUME Placed, NEW k PROVE ValueOf(k) \in Values \cup {NoValue}
<1>1. \A p \in Found(k) : p \in DOMAIN node BY DEF Found
<1>2. CASE Found(k) = {} BY <1>2 DEF ValueOf
<1>3. CASE Found(k) # {}
  <2>1. (CHOOSE p \in Found(k) : TRUE) \in DOMAIN node BY <1>1, <1>3
  <2>2. QED BY <1>3, <2>1 DEF Placed, ValueOf
<1>4. QED BY <1>2, <1>3

\* An add of one key changes the map at that key alone.
LEMMA MapSet ==
  ASSUME Tree, NEW k \in Keys, Hash[k] # 255, NEW p \in Targets(k),
         NEW v \in Values \cup {NoValue}, NEW c \in Copies \cup {NoCopy}, SetNode(p, k, v, c)
  PROVE  TableMap' = [TableMap EXCEPT ![k] = v]
<1>1. \A j \in KeptKeys : ValueOf(j)' = IF j = k THEN v ELSE ValueOf(j)
  BY SetValue DEF KeptKeys
<1>2. QED BY <1>1 DEF TableMap

\* Where every key has a value already, or none is kept, nothing changes.
LEMMA MapSame ==
  ASSUME NEW k, k \in KeptKeys => ValueOf(k) = NoValue
  PROVE  TableMap = [TableMap EXCEPT ![k] = NoValue]
BY DEF TableMap

\* A call that sets the key k and answers so is a step of the map.
LEMMA MapAdds ==
  ASSUME NEW k \in Keys, NEW v \in Values \cup {NoValue}, NEW ok \in BOOLEAN,
         TableMap' = [TableMap EXCEPT ![k] = v], ok \/ v = NoValue,
         answer' = <<"add", k, ok>>
  PROVE  Map!Next
<1>1. CASE k \in KeptKeys /\ ok
  <2>1. Map!Put(k, v) BY <1>1 DEF Map!Put, TableMap
  <2>2. QED BY <1>1, <2>1 DEF Map!Next
<1>2. CASE k \in KeptKeys /\ ~ok
  <2>1. Map!PutFails(k) BY <1>2 DEF Map!PutFails, TableMap
  <2>2. QED BY <1>2, <2>1 DEF Map!Next
<1>3. CASE k \notin KeptKeys
  <2>1. TableMap' = TableMap BY <1>3 DEF TableMap
  <2>2. Map!Other(k) BY <2>1 DEF Map!Other, TableMap
  <2>3. QED BY <1>3, <2>2 DEF Map!Next
<1>4. QED BY <1>1, <1>2, <1>3

LEMMA MapStep == IInv /\ [Next]_vars => [Map!Next]_Map!vars
<1> SUFFICES ASSUME IInv, [Next]_vars PROVE [Map!Next]_Map!vars OBVIOUS
<1>1. ASSUME NEW k \in Keys, NEW v \in Values \cup {NoValue}, AddPointer(k, v)
      PROVE  Map!Next
  <2>1. PICK p \in Targets(k) :
          Hash[k] # 255 /\ SetNode(p, k, v, NoCopy) /\ answer' = <<"add", k, TRUE>>
    BY <1>1 DEF AddPointer
  <2>2. TableMap' = [TableMap EXCEPT ![k] = v] BY <2>1, MapSet DEF IInv
  <2>3. QED BY <2>1, <2>2, MapAdds
<1>2. ASSUME NEW k \in Keys, NEW v \in Values \cup {NoValue}, AddCopy(k, v)
      PROVE  Map!Next
  <2>1. PICK p \in Targets(k), c \in Copies \cup {NoCopy} :
          Hash[k] # 255 /\ SetNode(p, k, v, c) /\ answer' = <<"add", k, TRUE>>
    BY <1>2 DEF AddCopy
  <2>2. TableMap' = [TableMap EXCEPT ![k] = v] BY <2>1, MapSet DEF IInv
  <2>3. QED BY <2>1, <2>2, MapAdds
<1>3. ASSUME NEW k \in Keys, NEW v \in Values \cup {NoValue}, AddCopyFails(k, v)
      PROVE  Map!Next
  <2>1. PICK p \in Targets(k) :
          /\ Hash[k] # 255 /\ answer' = <<"add", k, FALSE>>
          /\ IF table THEN SetNode(p, k, NoValue, NoCopy) ELSE node' = node
    BY <1>3 DEF AddCopyFails
  <2>2. TableMap' = [TableMap EXCEPT ![k] = NoValue]
    <3>1. CASE table BY <2>1, <3>1, MapSet DEF IInv
    <3>2. CASE ~table
      <4>1. DOMAIN node = {} /\ node' = node BY <2>1, <3>2 DEF IInv, Shape
      <4>2. TableMap' = TableMap
        BY <4>1 DEF TableMap, ValueOf, Found, RootEmpty
      <4>3. QED BY <4>1, <4>2, EmptyMap, MapSame
    <3>3. QED BY <3>1, <3>2
  <2>3. QED BY <2>1, <2>2, MapAdds
<1>4. ASSUME NEW k \in Keys, AddNoMemory(k) PROVE Map!Next
  <2>1. node' = node /\ answer' = <<"add", k, FALSE>> BY <1>4 DEF AddNoMemory
  <2>2. ValueOf(k) = NoValue
    <3>1. CASE ~table BY <3>1, EmptyMap DEF IInv, Shape
    <3>2. CASE Found(k) = {} BY <3>2 DEF ValueOf
    <3>3. QED BY <1>4, <3>1, <3>2 DEF AddNoMemory
  <2>3. TableMap' = TableMap BY <2>1 DEF TableMap, ValueOf, Found, RootEmpty, Passes
  <2>4. QED BY <2>1, <2>2, <2>3, MapSame, MapAdds
<1>5. ASSUME NEW k \in Keys, Get(k) PROVE Map!Next
  <2>1. node' = node /\ answer' = <<"get", k, ValueOf(k)>> BY <1>5 DEF Get
  <2>2. TableMap' = TableMap BY <2>1 DEF TableMap, ValueOf, Found, RootEmpty, Passes
  <2>3. CASE k \in KeptKeys
    <3>1. TableMap[k] = ValueOf(k) BY <2>3 DEF TableMap
    <3>2. Map!Get(k) BY <2>1, <2>2, <3>1 DEF Map!Get, TableMap
    <3>3. QED BY <2>3, <3>2 DEF Map!Next
  <2>4. CASE k \notin KeptKeys
    <3>1. ValueOf(k) \in Values \cup {NoValue} BY ValueInValues DEF IInv, Tree
    <3>2. Map!Other(k) BY <2>1, <2>2, <3>1 DEF Map!Other, TableMap
    <3>3. QED BY <2>4, <3>2 DEF Map!Next
  <2>5. QED BY <2>3, <2>4
<1>6. ASSUME NEW k \in Keys, Beyond(k) PROVE UNCHANGED Map!vars
  <2>1. node' = node /\ answer' = answer BY <1>6 DEF Beyond
  <2>2. TableMap' = TableMap BY <2>1 DEF TableMap, ValueOf, Found, RootEmpty, Passes
  <2>3. QED BY <2>1, <2>2 DEF Map!vars, TableMap
<1>7. CASE Free
  <2>1. DOMAIN node' = {} /\ answer' = <<"free">> BY <1>7 DEF Free
  <2>2. \A k : ValueOf(k)' = NoValue BY <2>1 DEF ValueOf, Found, RootEmpty, Root
  <2>3. TableMap' = [k \in KeptKeys |-> NoValue] BY <2>2 DEF TableMap
  <2>4. Map!Clear BY <2>1, <2>3 DEF Map!Clear, TableMap
  <2>5. QED BY <2>4 DEF Map!Next
<1>8. CASE UNCHANGED vars
  <2>1. node' = node /\ answer' = answer BY <1>8 DEF vars
  <2>2. TableMap' = TableMap BY <2>1 DEF TableMap, ValueOf, Found, RootEmpty, Passes
  <2>3. QED BY <2>1, <2>2 DEF Map!vars, TableMap
<1>9. QED BY <1>1, <1>2, <1>3, <1>4, <1>5, <1>6, <1>7, <1>8 DEF Next, Add

LEMMA MapInit == Init => Map!Init
<1>1. SUFFICES ASSUME Init PROVE Map!Init OBVIOUS
<1>2. DOMAIN node = {} /\ answer = <<"new">> BY <1>1 DEF Init
<1>3. QED BY <1>2, EmptyMap DEF Map!Init

\* For every set of keys, every hash and every sequence of calls with any
\* failures of memory, the table is the map its callers take it for, as far
\* as a key is not empty and has a bucket.
THEOREM TableIsMap == Spec => ImplementsMap
BY MapInit, MapStep, TableInvariance, PTL DEF Spec, ImplementsMap, Map!Spec
=============================================================================

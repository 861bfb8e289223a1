--------------------------- MODULE ExporterProofs ---------------------------
(***************************************************************************)
(* Proofs about Exporter, for any list of collectors, any records and      *)
(* cycles, and every call of libfixbuf failing for any of the collectors.  *)
(***************************************************************************)
EXTENDS Exporter, FiniteSetTheorems, SequenceTheorems, TLAPS

(***************************************************************************)
(* What a collector's items, sent and not yet sent, look like: a stream.   *)
(***************************************************************************)
\* An item is encoded with the templates of its kind.
Coded(item) ==
  item.kind # "templates" => item.with = [int |-> item.kind, ext |-> item.kind]

\* A claim g of totals covers what a stats item claims and what it tells of.
Covered(s, i, g) ==
  s[i].kind = "stats" =>
    /\ Flows(s, i) <= s[i].count.flows
    /\ s[i].count.flows <= g.flows /\ s[i].count.msgs <= g.msgs

Good(s, g, lost) ==
  /\ \A i \in 1 .. Len(s) : Coded(s[i]) /\ Covered(s, i, g)
  /\ s # <<>> /\ ~lost => s[1].kind = "templates"

Totals == [flows : Nat, msgs : Nat]

\* The number of flow records is one, and grows by one with each.
LEMMA FlowsCount ==
  ASSUME NEW s, NEW n \in Nat
  PROVE  /\ Flows(s, n) \in Nat
         /\ Flows(s, 0) = 0
         /\ Flows(s, n + 1) = Flows(s, n) + (IF s[n + 1].kind = "flow" THEN 1 ELSE 0)
<1> DEFINE F(m) == {i \in 1 .. m : s[i].kind = "flow"}
<1>1. ASSUME NEW m \in Nat PROVE IsFiniteSet(F(m)) /\ Cardinality(F(m)) \in Nat
  <2>1. IsFiniteSet(1 .. m) BY <1>1, FS_Interval
  <2>2. F(m) \subseteq 1 .. m OBVIOUS
  <2>3. IsFiniteSet(F(m)) BY <2>1, <2>2, FS_Subset
  <2>4. QED BY <2>3, FS_CardinalityType
<1>2. \A m \in Nat : Flows(s, m) = Cardinality(F(m)) /\ F(0) = {} BY DEF Flows
<1>3. CASE s[n + 1].kind = "flow"
  <2>1. F(n + 1) = F(n) \cup {n + 1} BY <1>3
  <2>2. n + 1 \notin F(n) OBVIOUS
  <2>3. Cardinality(F(n + 1)) = Cardinality(F(n)) + 1
    BY <1>1, <2>1, <2>2, FS_AddElement
  <2>4. Cardinality(F(0)) = 0 BY <1>2, FS_EmptySet
  <2>5. n + 1 \in Nat /\ 0 \in Nat OBVIOUS
  <2> HIDE DEF F
  <2>6. QED BY <1>1, <1>2, <1>3, <2>3, <2>4, <2>5
<1>4. CASE s[n + 1].kind # "flow"
  <2>1. F(n + 1) = F(n) BY <1>4
  <2>2. Cardinality(F(0)) = 0 BY <1>2, FS_EmptySet
  <2>3. n + 1 \in Nat /\ 0 \in Nat OBVIOUS
  <2> HIDE DEF F
  <2>4. QED BY <1>1, <1>2, <1>4, <2>1, <2>2, <2>3
<1>5. QED BY <1>3, <1>4

\* Only the items up to n count.
LEMMA FlowsSame ==
  ASSUME NEW s, NEW t, NEW n \in Nat, \A i \in 1 .. n : s[i] = t[i]
  PROVE  Flows(s, n) = Flows(t, n)
<1>1. {i \in 1 .. n : s[i].kind = "flow"} = {i \in 1 .. n : t[i].kind = "flow"}
  OBVIOUS
<1>2. QED BY <1>1 DEF Flows

LEMMA ConcatIsEmpty ==
  ASSUME NEW s \in Seq(Items), NEW p \in Seq(Items), s \o p = <<>>
  PROVE  s = <<>>
<1>1. Len(s) \in Nat /\ Len(p) \in Nat /\ Len(s \o p) = Len(s) + Len(p)
  BY ConcatProperties, LenProperties
<1>2. s \o p \in Seq(Items) BY ConcatProperties
<1>3. Len(s \o p) = 0 BY <1>2, EmptySeq
<1>4. Len(s) = 0 BY <1>1, <1>3
<1>5. QED BY <1>4, EmptySeq

LEMMA FlowsPrefix ==
  ASSUME NEW s \in Seq(Items), NEW p \in Seq(Items)
  PROVE  /\ Flows(s, Len(s)) \in Nat /\ Flows(s \o p, Len(s \o p)) \in Nat
         /\ Flows(s, Len(s)) <= Flows(s \o p, Len(s \o p))
<1> DEFINE t == s \o p
<1>1. /\ Len(s) \in Nat /\ Len(p) \in Nat /\ Len(t) = Len(s) + Len(p)
      /\ \A i \in 1 .. Len(s) : t[i] = s[i]
  BY ConcatProperties, LenProperties
<1> HIDE DEF t
<1>2. Len(t) \in Nat /\ Flows(s, Len(s)) = Flows(t, Len(s)) BY <1>1, FlowsSame
<1>3. /\ {i \in 1 .. Len(s) : t[i].kind = "flow"}
           \subseteq {i \in 1 .. Len(t) : t[i].kind = "flow"}
      /\ {i \in 1 .. Len(t) : t[i].kind = "flow"} \subseteq 1 .. Len(t)
  BY <1>1, <1>2
<1>4. IsFiniteSet({i \in 1 .. Len(t) : t[i].kind = "flow"})
  <2>1. IsFiniteSet(1 .. Len(t)) BY <1>2, FS_Interval
  <2>2. QED BY <1>3, <2>1, FS_Subset
<1>5. Flows(t, Len(s)) <= Flows(t, Len(t)) BY <1>3, <1>4, FS_Subset DEF Flows
<1>6. Flows(s, Len(s)) \in Nat /\ Flows(t, Len(t)) \in Nat BY <1>1, <1>2, FlowsCount
<1>7. QED BY <1>2, <1>5, <1>6 DEF t

LEMMA GoodAppend ==
  ASSUME NEW s \in Seq(Items), NEW e \in Items, NEW g \in Totals, NEW lost \in BOOLEAN,
         Good(s, g, lost), Coded(e),
         e.kind = "stats" => /\ Flows(s, Len(s)) <= e.count.flows
                             /\ e.count.flows <= g.flows /\ e.count.msgs <= g.msgs,
         s = <<>> /\ ~lost => e.kind = "templates"
  PROVE  /\ Good(Append(s, e), g, lost)
         /\ Flows(Append(s, e), Len(s) + 1)
              = Flows(s, Len(s)) + (IF e.kind = "flow" THEN 1 ELSE 0)
<1> DEFINE t == Append(s, e)
<1>1. /\ t \in Seq(Items) /\ t # <<>> /\ Len(t) = Len(s) + 1 /\ Len(s) \in Nat
      /\ \A i \in 1 .. Len(s) : t[i] = s[i]
      /\ t[Len(s) + 1] = e
  BY AppendProperties, LenProperties
<1> HIDE DEF t
<1>2. \A i \in 0 .. Len(s) : Flows(t, i) = Flows(s, i)
  <2> TAKE i \in 0 .. Len(s)
  <2>1. i \in Nat /\ \A j \in 1 .. i : t[j] = s[j] BY <1>1
  <2>2. QED BY <2>1, FlowsSame
<1>3. Flows(t, Len(s) + 1) = Flows(s, Len(s)) + (IF e.kind = "flow" THEN 1 ELSE 0)
  <2>1. Len(s) \in Nat /\ t[Len(s) + 1].kind = e.kind BY <1>1
  <2>2. Flows(t, Len(s) + 1)
          = Flows(t, Len(s)) + (IF t[Len(s) + 1].kind = "flow" THEN 1 ELSE 0)
    BY <2>1, FlowsCount
  <2>3. Len(s) \in 0 .. Len(s) BY <2>1
  <2>4. QED BY <1>2, <2>1, <2>2, <2>3
<1>4. ASSUME NEW i \in 1 .. Len(t) PROVE Coded(t[i]) /\ Covered(t, i, g)
  <2>1. CASE i = Len(s) + 1
    <3>1. t[i] = e BY <1>1, <2>1
    <3>2. e.kind = "stats" => Flows(t, i) = Flows(s, Len(s))
      <4>1. Flows(s, Len(s)) \in Nat BY <1>1, FlowsCount
      <4>2. QED BY <1>3, <2>1, <4>1
    <3>3. QED BY <2>1, <3>1, <3>2 DEF Covered
  <2>2. CASE i # Len(s) + 1
    <3>1. i \in 1 .. Len(s) BY <1>1, <2>2
    <3>2. t[i] = s[i] /\ Flows(t, i) = Flows(s, i) BY <1>1, <1>2, <3>1
    <3>3. QED BY <3>1, <3>2 DEF Good, Covered
  <2>3. QED BY <2>1, <2>2
<1>5. ~lost => t[1].kind = "templates"
  <2>1. CASE s = <<>> BY <1>1, <2>1
  <2>2. CASE s # <<>>
    <3>1. Len(s) > 0 BY <2>2, EmptySeq, <1>1
    <3>2. t[1] = s[1] BY <1>1, <3>1
    <3>3. QED BY <2>2, <3>2 DEF Good
  <2>3. QED BY <2>1, <2>2
<1>6. QED BY <1>3, <1>4, <1>5 DEF Good, t

\* What was sent is the beginning of the stream.
LEMMA GoodPrefix ==
  ASSUME NEW s \in Seq(Items), NEW p \in Seq(Items), NEW g \in Totals,
         NEW lost \in BOOLEAN, Good(s \o p, g, lost)
  PROVE  Good(s, g, lost)
<1> DEFINE t == s \o p
<1>1. /\ Len(s) \in Nat /\ Len(p) \in Nat /\ Len(t) = Len(s) + Len(p)
      /\ \A i \in 1 .. Len(s) : t[i] = s[i]
  BY ConcatProperties, LenProperties
<1> HIDE DEF t
<1>2. ASSUME NEW i \in 1 .. Len(s) PROVE Coded(s[i]) /\ Covered(s, i, g)
  <2>1. i \in 1 .. Len(t) /\ t[i] = s[i] /\ i \in Nat BY <1>1
  <2>2. Flows(t, i) = Flows(s, i)
    <3>1. \A j \in 1 .. i : t[j] = s[j] BY <1>1
    <3>2. QED BY <2>1, <3>1, FlowsSame
  <2>3. QED BY <2>1, <2>2 DEF Good, Covered, t
<1>3. s # <<>> /\ ~lost => s[1].kind = "templates"
  <2> SUFFICES ASSUME s # <<>>, ~lost PROVE s[1].kind = "templates" OBVIOUS
  <2>1. 1 \in 1 .. Len(s) BY EmptySeq, <1>1
  <2>2. t[1] = s[1] /\ 1 \in 1 .. Len(t) BY <1>1, <2>1
  <2>3. t # <<>> BY <1>1, <2>1
  <2>4. QED BY <2>2, <2>3 DEF Good, t
<1>4. QED BY <1>2, <1>3 DEF Good

LEMMA GoodMore ==
  ASSUME NEW s \in Seq(Items), NEW g \in Totals, NEW h \in Totals,
         NEW lost \in BOOLEAN, Good(s, g, lost),
         g.flows <= h.flows, g.msgs <= h.msgs
  PROVE  Good(s, h, lost)
<1>1. ASSUME NEW i \in 1 .. Len(s), s[i].kind = "stats"
      PROVE  s[i].count.flows \in Nat /\ s[i].count.msgs \in Nat
  <2>1. s[i] \in Items BY ElementOfSeq
  <2>2. QED BY <1>1, <2>1 DEF Items
<1>2. QED BY <1>1 DEF Good, Covered, Totals

(***************************************************************************)
(* The invariant.  A collector's role is the call that is next for it, if  *)
(* it is its turn; a collector whose turn has not come is like one whose   *)
(* export is about to begin.                                               *)
(***************************************************************************)
InTodo(x) == \E i \in DOMAIN todo : todo[i] = x

Role(x) ==
  IF ~InTodo(x) THEN "done"
  ELSE IF x = cur /\ phase # "undefined" THEN phase ELSE "init"

Stream(x) == sent[x] \o pending[x]
StreamFlows(x) == Flows(Stream(x), Len(Stream(x)))

Running  == {"exportTemplates", "setFlow", "append", "emitFlows", "setStats",
             "appendStats", "emitStats"}
Counting == {"append", "emitFlows", "setStats"}

\* Records appended that the counters do not know of yet, and records and
\* cycles given to the collector that they cannot know of yet.
Open(x)    == IF Role(x) \in Counting THEN appended ELSE 0
Counted(x) == Role(x) \in {"done", "appendStats", "emitStats"}
Owed(x)    == IF Counted(x) THEN 0 ELSE records
OwedOne(x) == IF Counted(x) THEN 0 ELSE 1

StreamInv(x) ==
  /\ Good(Stream(x), given[x], x \in dropped)
  /\ given[x].msgs = 0 \/ ctx[x] = "null" => Stream(x) = <<>>
  /\ Role(x) \in Running \ {"exportTemplates"} /\ x \notin dropped => Stream(x) # <<>>

CountInv(x) ==
  /\ ctx[x] = "null" => count[x] = [flows |-> 0, msgs |-> 0]
  /\ ctx[x] = "live" => StreamFlows(x) <= count[x].flows + Open(x)
  /\ count[x].flows + Owed(x) <= given[x].flows
  /\ count[x].msgs + OwedOne(x) <= given[x].msgs
  /\ Role(x) = "append" => appended + left <= records
  /\ Role(x) \in {"emitFlows", "setStats"} => appended <= records
  /\ Role(x) \in {"appendStats", "emitStats"} => given[x].msgs > 0

CallInv(x) ==
  /\ Role(x) \in Running => ctx[x] = "live"
  /\ Role(x) \in {"append", "emitFlows"} => tmpl[x] = [int |-> "flow", ext |-> "flow"]
  /\ Role(x) = "appendStats" => tmpl[x] = [int |-> "stats", ext |-> "stats"]

\* A collector no call has failed for: the counts are exact.
Healthy(x) ==
  /\ ctx[x] # "freed"
  /\ count[x].flows + Owed(x) = given[x].flows
  /\ count[x].msgs + OwedOne(x) = given[x].msgs
  /\ StreamFlows(x) = count[x].flows + Open(x)
  /\ Role(x) = "append" => appended + left = records
  /\ Role(x) \in {"emitFlows", "setStats"} => appended = records
  /\ Role(x) = "emitStats" \/ (Role(x) = "done" /\ given[x].msgs > 0) =>
       /\ Stream(x) # <<>>
       /\ Stream(x)[Len(Stream(x))].count = given[x]
  /\ Role(x) = "done" => pending[x] = <<>>

CollectorInv(x) ==
  StreamInv(x) /\ CountInv(x) /\ CallInv(x) /\ (x \notin failed => Healthy(x))

\* Each collector comes up once in a cycle.
Turns ==
  /\ \A i, j \in DOMAIN todo : todo[i] = todo[j] => i = j
  /\ phase \in {"idle", "exited"} => todo = <<>>

IInv ==
  /\ TypeOK /\ Turns /\ ObjectsGoWithContext
  /\ \A x \in Collectors : CollectorInv(x)

(***************************************************************************)
(* Whose turn it is.                                                       *)
(***************************************************************************)
\* A turn is under way.
Exporting == phase \notin {"idle", "exited", "undefined"}

LEMMA TurnFacts ==
  ASSUME TypeOK
  PROVE  /\ Len(todo) \in Nat /\ DOMAIN todo = 1 .. Len(todo)
         /\ \A i \in 1 .. Len(todo) : todo[i] \in Collectors
         /\ todo # <<>> => Len(todo) > 0 /\ todo[1] = cur /\ cur \in Collectors
         /\ todo = <<>> => Len(todo) = 0
<1>1. todo \in Seq(Collectors) BY DEF TypeOK
<1>2. QED BY <1>1, LenProperties, ElementOfSeq, EmptySeq, HeadTailProperties DEF cur

LEMMA RoleNow ==
  ASSUME TypeOK, Exporting, NEW c \in Collectors, c = cur
  PROVE  Role(c) = phase /\ \A y \in Collectors \ {c} : Role(y) \in {"init", "done"}
<1>1. InTodo(c)
  <2>1. todo # <<>> BY DEF TypeOK, Exporting
  <2>2. 1 \in DOMAIN todo /\ todo[1] = c BY <2>1, TurnFacts
  <2>3. QED BY <2>2 DEF InTodo
<1>2. QED BY <1>1 DEF Role, Exporting

LEMMA RoleStays ==
  ASSUME TypeOK, Turns, Exporting, NEW c \in Collectors, c = cur,
         todo' = todo, phase' \in Running
  PROVE  Role(c)' = phase' /\ \A y \in Collectors \ {c} : Role(y)' = Role(y)
<1>1. cur' = c /\ \A y : InTodo(y)' = InTodo(y) BY DEF cur, InTodo
<1>2. InTodo(c)
  <2>1. todo # <<>> BY DEF TypeOK, Exporting
  <2>2. 1 \in DOMAIN todo /\ todo[1] = c BY <2>1, TurnFacts
  <2>3. QED BY <2>2 DEF InTodo
<1>3. QED BY <1>1, <1>2 DEF Role, Running

LEMMA RoleReturns ==
  ASSUME TypeOK, Turns, Exporting, NEW c \in Collectors, c = cur, Return
  PROVE  /\ Role(c)' = "done"
         /\ \A y \in Collectors \ {c} : Role(y)' = Role(y)
         /\ Turns'
         /\ todo' \in Seq(Collectors) /\ phase' \in {"idle", "init"}
         /\ phase' = "init" => todo' # <<>>
<1>1. todo # <<>> BY DEF TypeOK, Exporting
<1>2. todo \in Seq(Collectors) BY DEF TypeOK
<1>3. /\ todo' \in Seq(Collectors) /\ Len(todo') = Len(todo) - 1
      /\ \A i \in 1 .. Len(todo') : todo'[i] = todo[i + 1]
  BY <1>1, <1>2, HeadTailProperties DEF Return
<1>4. DOMAIN todo' = 1 .. Len(todo') /\ Len(todo') \in Nat BY <1>3, LenProperties
<1>5. phase' = IF todo' = <<>> THEN "idle" ELSE "init" BY DEF Return
<1>6. /\ Len(todo) \in Nat /\ DOMAIN todo = 1 .. Len(todo) /\ todo[1] = c
      /\ Len(todo) > 0
  BY <1>1, TurnFacts
<1>7. \A i, j \in 1 .. Len(todo) : todo[i] = todo[j] => i = j BY <1>6 DEF Turns
<1>8. \A i \in 1 .. Len(todo') : i + 1 \in 1 .. Len(todo) BY <1>3, <1>6
<1>9. Turns'
  <2>1. \A i, j \in 1 .. Len(todo') : todo'[i] = todo'[j] => i = j
    <3> TAKE i, j \in 1 .. Len(todo')
    <3>1. todo[i + 1] = todo[j + 1] => i + 1 = j + 1 BY <1>7, <1>8
    <3>2. QED BY <1>3, <1>4, <3>1
  <2>2. phase' \in {"idle", "exited"} => todo' = <<>> BY <1>5
  <2>3. QED BY <1>4, <2>1, <2>2 DEF Turns
<1>10. ~InTodo(c)'
  <2> SUFFICES ASSUME NEW i \in 1 .. Len(todo'), todo'[i] = c PROVE FALSE
    BY <1>4 DEF InTodo
  <2>1. todo[i + 1] = todo[1] BY <1>3, <1>6
  <2>2. i + 1 = 1 BY <1>6, <1>7, <1>8, <2>1
  <2>3. QED BY <1>4, <2>2
<1>11. ASSUME NEW y \in Collectors \ {c}
       PROVE  InTodo(y)' <=> InTodo(y)
  <2>1. ASSUME NEW i \in 1 .. Len(todo), todo[i] = y
        PROVE  i - 1 \in 1 .. Len(todo') /\ todo'[i - 1] = y
    <3>1. i # 1 BY <1>6, <2>1
    <3>2. i - 1 \in 1 .. Len(todo') BY <1>3, <1>6, <3>1
    <3>3. todo'[i - 1] = todo[(i - 1) + 1] BY <1>3, <3>2
    <3>4. (i - 1) + 1 = i BY <1>6
    <3>5. QED BY <2>1, <3>2, <3>3, <3>4
  <2>2. ASSUME NEW i \in 1 .. Len(todo'), todo'[i] = y
        PROVE  i + 1 \in 1 .. Len(todo) /\ todo[i + 1] = y
    BY <1>3, <1>8, <2>2
  <2>3. QED BY <1>4, <1>6, <2>1, <2>2 DEF InTodo
<1>12. \A y \in Collectors \ {c} : Role(y)' = Role(y)
  <2> TAKE y \in Collectors \ {c}
  <2>1. Role(y) = IF InTodo(y) THEN "init" ELSE "done" BY DEF Role
  <2>2. InTodo(y)' => phase' = "init"
    <3>1. InTodo(y)' => 1 .. Len(todo') # {} BY <1>4 DEF InTodo
    <3>2. InTodo(y)' => todo' # <<>> BY <1>4, <3>1
    <3>3. QED BY <1>5, <3>2
  <2>3. Role(y)' = IF InTodo(y)' THEN "init" ELSE "done" BY <2>2 DEF Role
  <2>4. QED BY <1>11, <2>1, <2>3
<1>13. Role(c)' = "done" BY <1>10 DEF Role
<1>14. QED BY <1>3, <1>5, <1>9, <1>12, <1>13

(***************************************************************************)
(* Frames and streams.                                                     *)
(***************************************************************************)
\* Nothing that is said of y changes.
Untouched(y) ==
  /\ sent'[y] = sent[y] /\ pending'[y] = pending[y]
  /\ given'[y] = given[y] /\ ctx'[y] = ctx[y] /\ tmpl'[y] = tmpl[y]
  /\ count'[y] = count[y]
  /\ (y \in failed') = (y \in failed) /\ (y \in dropped') = (y \in dropped)

LEMMA Others ==
  ASSUME IInv, NEW y \in Collectors,
         Untouched(y), records' = records,
         Role(y)' = Role(y), Role(y) \in {"init", "done"}
  PROVE  CollectorInv(y)'
<1>1. Stream(y)' = Stream(y) BY DEF Stream, Untouched
<1>2. StreamFlows(y)' = StreamFlows(y) BY <1>1 DEF StreamFlows
<1>3. Open(y)' = Open(y) BY DEF Open, Counting
<1>4. Owed(y)' = Owed(y) /\ OwedOne(y)' = OwedOne(y) BY DEF Owed, OwedOne, Counted
<1>5. CollectorInv(y) BY DEF IInv
<1>6. StreamInv(y)'
  BY <1>1, <1>5 DEF StreamInv, Untouched, CollectorInv, Running
<1>7. CountInv(y)'
  BY <1>2, <1>3, <1>4, <1>5 DEF CountInv, Untouched, CollectorInv
<1>8. CallInv(y)' BY <1>5 DEF CallInv, Untouched, CollectorInv, Running
<1>9. y \notin failed' => Healthy(y)'
  BY <1>1, <1>2, <1>3, <1>4, <1>5 DEF Healthy, Untouched, CollectorInv
<1>10. QED BY <1>6, <1>7, <1>8, <1>9 DEF CollectorInv

LEMMA StreamType ==
  ASSUME TypeOK, NEW x \in Collectors
  PROVE  /\ sent[x] \in Seq(Items) /\ pending[x] \in Seq(Items)
         /\ Stream(x) \in Seq(Items) /\ Len(Stream(x)) \in Nat
         /\ StreamFlows(x) \in Nat
<1>1. sent[x] \in Seq(Items) /\ pending[x] \in Seq(Items) BY DEF TypeOK
<1>2. Stream(x) \in Seq(Items) BY <1>1, ConcatProperties DEF Stream
<1>3. Len(Stream(x)) \in Nat BY <1>2, LenProperties
<1>4. QED BY <1>1, <1>2, <1>3, FlowsCount DEF StreamFlows

\* An item joins the stream, whether or not a message is sent to make room.
LEMMA StreamGrows ==
  ASSUME TypeOK, NEW c \in Collectors, c = cur, NEW item \in Items,
         \/ Put(item) /\ UNCHANGED sent
         \/ BufAppends(item)
  PROVE  /\ Stream(c)' = Append(Stream(c), item)
         /\ \A y \in Collectors \ {c} : sent'[y] = sent[y] /\ pending'[y] = pending[y]
         /\ sent' \in [Collectors -> Seq(Items)]
         /\ pending' \in [Collectors -> Seq(Items)]
<1>1. /\ sent \in [Collectors -> Seq(Items)] /\ pending \in [Collectors -> Seq(Items)]
      /\ sent[c] \in Seq(Items) /\ pending[c] \in Seq(Items)
  BY DEF TypeOK
<1>2. <<item>> \in Seq(Items) OBVIOUS
<1>3. CASE Put(item) /\ UNCHANGED sent
  <2>1. sent' = sent /\ pending' = [pending EXCEPT ![c] = Append(@, item)]
    BY <1>3 DEF Put
  <2>2. Append(pending[c], item) \in Seq(Items) BY <1>1, AppendProperties
  <2>3. pending'[c] = Append(pending[c], item) BY <1>1, <2>1
  <2>4. sent[c] \o Append(pending[c], item) = Append(sent[c] \o pending[c], item)
    <3>1. Append(pending[c], item) = pending[c] \o <<item>> BY <1>1, AppendIsConcat
    <3>2. sent[c] \o pending[c] \in Seq(Items) BY <1>1, ConcatProperties
    <3>3. Append(sent[c] \o pending[c], item) = (sent[c] \o pending[c]) \o <<item>>
      BY <3>2, AppendIsConcat
    <3>4. QED BY <1>1, <1>2, <3>1, <3>3, ConcatAssociative
  <2>5. QED BY <1>1, <2>1, <2>2, <2>3, <2>4 DEF Stream
<1>4. CASE /\ sent' = [sent EXCEPT ![c] = @ \o pending[c]]
           /\ pending' = [pending EXCEPT ![c] = <<item>>]
  <2>1. sent[c] \o pending[c] \in Seq(Items) BY <1>1, ConcatProperties
  <2>2. sent'[c] = sent[c] \o pending[c] /\ pending'[c] = <<item>> BY <1>1, <1>4
  <2>3. Append(sent[c] \o pending[c], item) = (sent[c] \o pending[c]) \o <<item>>
    BY <2>1, AppendIsConcat
  <2>4. QED BY <1>1, <1>2, <1>4, <2>1, <2>2, <2>3 DEF Stream
<1>5. QED BY <1>3, <1>4 DEF BufAppends, Put

\* A message is sent, or kept, or dropped; only a faulty call keeps or drops.
LEMMA StreamEmitted ==
  ASSUME TypeOK, NEW c \in Collectors, c = cur, Emit
  PROVE  /\ \A y \in Collectors \ {c} : sent'[y] = sent[y] /\ pending'[y] = pending[y]
         /\ sent' \in [Collectors -> Seq(Items)]
         /\ pending' \in [Collectors -> Seq(Items)]
         /\ \/ /\ Stream(c)' = Stream(c) /\ pending'[c] = <<>>
               /\ UNCHANGED <<failed, dropped>>
            \/ /\ Stream(c)' = Stream(c)
               /\ failed' = failed \cup {c} /\ UNCHANGED dropped
            \/ /\ Stream(c)' = sent[c]
               /\ failed' = failed \cup {c} /\ dropped' = dropped \cup {c}
<1>1. /\ sent \in [Collectors -> Seq(Items)] /\ pending \in [Collectors -> Seq(Items)]
      /\ sent[c] \in Seq(Items) /\ pending[c] \in Seq(Items)
  BY DEF TypeOK
<1>2. <<>> \in Seq(Items) OBVIOUS
<1>3. sent[c] \o pending[c] \in Seq(Items) BY <1>1, ConcatProperties
<1>4. /\ (sent[c] \o pending[c]) \o <<>> = sent[c] \o pending[c]
      /\ sent[c] \o <<>> = sent[c]
  BY <1>1, <1>3, ConcatEmptySeq
<1>5. CASE /\ sent' = [sent EXCEPT ![c] = @ \o pending[c]]
           /\ pending' = [pending EXCEPT ![c] = <<>>]
           /\ UNCHANGED <<failed, dropped>>
  <2>1. sent'[c] = sent[c] \o pending[c] /\ pending'[c] = <<>> BY <1>1, <1>5
  <2>2. QED BY <1>1, <1>2, <1>3, <1>4, <1>5, <2>1 DEF Stream
<1>6. CASE UNCHANGED <<sent, pending, dropped>> /\ failed' = failed \cup {c}
  BY <1>1, <1>6 DEF Stream
<1>7. CASE /\ UNCHANGED sent /\ pending' = [pending EXCEPT ![c] = <<>>]
           /\ failed' = failed \cup {c} /\ dropped' = dropped \cup {c}
  <2>1. pending'[c] = <<>> BY <1>1, <1>7
  <2>2. QED BY <1>1, <1>2, <1>4, <1>7, <2>1 DEF Stream
<1>8. QED BY <1>5, <1>6, <1>7 DEF Emit, Failed

(***************************************************************************)
(* The steps, by what they do to the collector whose turn it is.           *)
(***************************************************************************)
LEMMA ObjectsFirst ==
  /\ "buffer" \in First(4)
  /\ \A k \in 0 .. 3 : "buffer" \notin First(k) /\ First(k) \subseteq First(4)
<1>1. Objects[1] = "session" /\ Objects[2] = "exporter" /\ Objects[3] = "templates"
      /\ Objects[4] = "buffer"
  BY DEF Objects
<1>2. "buffer" \in First(4)
  <2>1. 4 \in 1 .. 4 OBVIOUS
  <2>2. QED BY <1>1, <2>1 DEF First
<1>3. ASSUME NEW k \in 0 .. 3 PROVE "buffer" \notin First(k) /\ First(k) \subseteq First(4)
  <2>1. \A i \in 1 .. k : i \in 1 .. 4 /\ i \in {1, 2, 3} BY <1>3
  <2>2. QED BY <1>1, <2>1 DEF First
<1>4. QED BY <1>2, <1>3

\* A step that stays with the collector and adds an item to its stream.
LEMMA Grown ==
  ASSUME IInv, Exporting, NEW c \in Collectors, c = cur, NEW item \in Items,
         Stream(c)' = Append(Stream(c), item), given' = given, dropped' = dropped,
         Coded(item),
         item.kind = "stats" => /\ StreamFlows(c) <= item.count.flows
                                /\ item.count.flows <= given[c].flows
                                /\ item.count.msgs <= given[c].msgs,
         item.kind = "templates" \/ phase \in Running \ {"exportTemplates"}
  PROVE  /\ Good(Stream(c)', given'[c], c \in dropped')
         /\ Stream(c)' # <<>>
         /\ Stream(c)'[Len(Stream(c)')] = item
         /\ StreamFlows(c)' = StreamFlows(c) + (IF item.kind = "flow" THEN 1 ELSE 0)
<1>1. TypeOK /\ CollectorInv(c) BY DEF IInv
<1>2. Stream(c) \in Seq(Items) BY <1>1, StreamType
<1>3. given[c] \in Totals /\ (c \in dropped) \in BOOLEAN BY <1>1 DEF TypeOK, Totals
<1>4. Role(c) = phase BY <1>1, RoleNow
<1>5. Good(Stream(c), given[c], c \in dropped) BY <1>1 DEF CollectorInv, StreamInv
<1>6. Stream(c) = <<>> /\ c \notin dropped => item.kind = "templates"
  BY <1>1, <1>4 DEF CollectorInv, StreamInv
<1>7. /\ Append(Stream(c), item) # <<>>
      /\ Len(Append(Stream(c), item)) = Len(Stream(c)) + 1
      /\ Append(Stream(c), item)[Len(Stream(c)) + 1] = item
  BY <1>2, AppendProperties
<1>8. /\ Good(Append(Stream(c), item), given[c], c \in dropped)
      /\ Flows(Append(Stream(c), item), Len(Stream(c)) + 1)
           = Flows(Stream(c), Len(Stream(c))) + (IF item.kind = "flow" THEN 1 ELSE 0)
  BY <1>2, <1>3, <1>5, <1>6, GoodAppend DEF StreamFlows
<1>9. QED BY <1>7, <1>8 DEF StreamFlows

\* A call fails for good: the collector's turn is over.
LEMMA TurnLost ==
  ASSUME IInv, Exporting, NEW c \in Collectors, c = cur, Return,
         phase \in {"init", "exportTemplates", "setFlow", "setStats"},
         UNCHANGED <<sent, given, dropped, count, records, tmpl>>,
         failed' = failed \cup {c},
         \A y \in Collectors \ {c} : ctx'[y] = ctx[y] /\ pending'[y] = pending[y],
         \/ phase = "init" /\ ctx'[c] = ctx[c] /\ pending'[c] = pending[c]
         \/ ctx'[c] = "freed" /\ pending'[c] \in {pending[c], <<>>}
  PROVE  Turns' /\ \A x \in Collectors : CollectorInv(x)'
<1>1. TypeOK /\ Turns /\ CollectorInv(c) BY DEF IInv
<1>2. Role(c) = phase /\ \A y \in Collectors \ {c} : Role(y) \in {"init", "done"}
  BY <1>1, RoleNow
<1>3. Role(c)' = "done" /\ Turns' /\ \A y \in Collectors \ {c} : Role(y)' = Role(y)
  BY <1>1, RoleReturns
<1>4. ASSUME NEW y \in Collectors \ {c} PROVE CollectorInv(y)'
  <2>1. Untouched(y) BY <1>4 DEF Untouched
  <2>2. QED BY <1>2, <1>3, <1>4, <2>1, Others
<1>5. /\ sent[c] \in Seq(Items) /\ pending[c] \in Seq(Items)
      /\ Stream(c) \in Seq(Items) /\ given[c] \in Totals
      /\ (c \in dropped) \in BOOLEAN
  <2>1. given[c] \in Totals BY <1>1 DEF TypeOK, Totals
  <2>2. (c \in dropped) \in BOOLEAN OBVIOUS
  <2>3. QED BY <1>1, <2>1, <2>2, StreamType
<1>6. Stream(c)' = Stream(c) \/ Stream(c)' = sent[c]
  BY <1>5, ConcatEmptySeq DEF Stream
<1>7. Good(Stream(c)', given'[c], c \in dropped')
  <2>1. Good(Stream(c), given[c], c \in dropped) BY <1>1 DEF CollectorInv, StreamInv
  <2>2. Good(sent[c] \o pending[c], given[c], c \in dropped) BY <2>1 DEF Stream
  <2> DEFINE lost == c \in dropped
  <2>3. lost \in BOOLEAN /\ Good(sent[c] \o pending[c], given[c], lost) BY <1>5, <2>2
  <2> HIDE DEF lost
  <2>4. Good(sent[c], given[c], lost) BY <1>5, <2>3, GoodPrefix
  <2>5. QED BY <1>6, <2>1, <2>4 DEF lost
<1>8. Stream(c) = <<>> => Stream(c)' = <<>>
  <2>1. Stream(c) = <<>> => sent[c] = <<>>
    BY <1>5, ConcatIsEmpty DEF Stream
  <2>2. QED BY <1>6, <2>1
<1>9. StreamInv(c)'
  BY <1>1, <1>2, <1>3, <1>7, <1>8 DEF StreamInv, CollectorInv, Running
<1>10. CountInv(c)'
  <2>1. /\ count[c].flows \in Nat /\ count[c].msgs \in Nat /\ records \in Nat
        /\ given[c].flows \in Nat /\ given[c].msgs \in Nat
    BY <1>1 DEF TypeOK
  <2>2. count[c].flows + records <= given[c].flows /\ count[c].msgs + 1 <= given[c].msgs
    BY <1>1, <1>2 DEF CollectorInv, CountInv, Owed, OwedOne, Counted
  <2>3. Owed(c)' = 0 /\ OwedOne(c)' = 0 /\ Open(c)' = 0
    BY <1>3 DEF Owed, OwedOne, Counted, Open, Counting
  <2>4. ctx'[c] = "live" => Stream(c)' = Stream(c) /\ Open(c) = 0 /\ ctx[c] = "live"
    BY <1>2 DEF Open, Counting, Stream
  <2>5. ctx'[c] = "live" => StreamFlows(c)' <= count[c].flows
    BY <1>1, <2>1, <2>4 DEF CollectorInv, CountInv, StreamFlows
  <2>6. QED BY <1>1, <1>3, <2>1, <2>2, <2>3, <2>5 DEF CountInv, CollectorInv
<1>11. CallInv(c)' BY <1>3 DEF CallInv, Running
<1>12. QED BY <1>3, <1>4, <1>9, <1>10, <1>11 DEF CollectorInv

\* The other collectors in a step that stays with this one.
LEMMA OthersStay ==
  ASSUME IInv, Exporting, NEW c \in Collectors, c = cur, todo' = todo, phase' \in Running,
         records' = records, \A y \in Collectors \ {c} : Untouched(y)
  PROVE  /\ Turns' /\ Role(c) = phase /\ Role(c)' = phase'
         /\ \A y \in Collectors \ {c} : CollectorInv(y)'
<1>1. TypeOK /\ Turns BY DEF IInv
<1>2. Role(c) = phase /\ \A y \in Collectors \ {c} : Role(y) \in {"init", "done"}
  BY <1>1, RoleNow
<1>3. Role(c)' = phase' /\ \A y \in Collectors \ {c} : Role(y)' = Role(y)
  BY <1>1, RoleStays
<1>4. Turns' BY <1>1 DEF Turns, Running
<1>5. QED BY <1>2, <1>3, <1>4, Others

(***************************************************************************)
(* Each step keeps the invariant.                                          *)
(***************************************************************************)
LEMMA Empty ==
  <<>> \in Seq(Items) /\ <<>> \o <<>> = <<>> /\ Flows(<<>>, Len(<<>>)) = 0
<1>1. <<>> \in Seq(Items) OBVIOUS
<1>2. Len(<<>>) = 0 BY <1>1, EmptySeq
<1>3. 0 \in Nat OBVIOUS
<1>4. Flows(<<>>, 0) = 0 BY <1>3, FlowsCount
<1>5. QED BY <1>1, <1>2, <1>4, ConcatEmptySeq

LEMMA InitInv == Init => IInv
<1> SUFFICES ASSUME Init PROVE IInv OBVIOUS
<1>1. TypeOK
  <2>1. <<>> \in Seq(Items) /\ <<>> \in Seq(Collectors) OBVIOUS
  <2>2. QED BY <2>1 DEF Init, TypeOK, Phases, Templates
<1>2. Len(todo) = 0 /\ DOMAIN todo = {} BY <1>1, TurnFacts DEF Init
<1>3. Turns BY <1>2 DEF Turns, Init
<1>4. ObjectsGoWithContext BY DEF ObjectsGoWithContext, Init
<1>5. ASSUME NEW x \in Collectors PROVE CollectorInv(x)
  <2>1. Role(x) = "done" BY <1>2 DEF Role, InTodo
  <2>2. Stream(x) = <<>> /\ StreamFlows(x) = 0 BY Empty DEF Stream, StreamFlows, Init
  <2>3. Open(x) = 0 /\ Owed(x) = 0 /\ OwedOne(x) = 0
    BY <2>1 DEF Open, Owed, OwedOne, Counted, Counting
  <2>4. StreamInv(x)
    <3>1. Len(<<>>) = 0 BY Empty, EmptySeq
    <3>2. Good(<<>>, given[x], x \in dropped) BY <3>1 DEF Good
    <3>3. QED BY <2>1, <2>2, <3>2 DEF StreamInv, Running
  <2>5. CountInv(x) BY <2>1, <2>2, <2>3 DEF CountInv, Init
  <2>6. CallInv(x) BY <2>1 DEF CallInv, Running
  <2>7. Healthy(x) BY <2>1, <2>2, <2>3 DEF Healthy, Init
  <2>8. QED BY <2>4, <2>5, <2>6, <2>7 DEF CollectorInv
<1>6. QED BY <1>1, <1>3, <1>4, <1>5 DEF IInv

LEMMA StartCycleInv ==
  ASSUME IInv, NEW n \in Nat, BeginCycle(n)
  PROVE  IInv'
<1>1. TypeOK /\ todo = <<>> BY DEF IInv, Turns, BeginCycle
<1>2. TypeOK'
  <2>1. given' \in [Collectors -> [flows : Nat, msgs : Nat]]
    BY <1>1 DEF BeginCycle, TypeOK
  <2>2. todo' \in Seq(Collectors) BY ExporterAssumption DEF BeginCycle
  <2>3. phase' \in Phases /\ (phase' \notin {"idle", "exited", "undefined"} => todo' # <<>>)
    BY DEF BeginCycle, Phases
  <2>4. QED BY <1>1, <2>1, <2>2, <2>3 DEF BeginCycle, TypeOK
<1>3. Turns' BY ExporterAssumption DEF Turns, BeginCycle
<1>4. ObjectsGoWithContext' BY DEF IInv, ObjectsGoWithContext, BeginCycle
<1>5. ASSUME NEW x \in Collectors PROVE CollectorInv(x)'
  <2>1. Role(x) = "done"
    <3>1. DOMAIN todo = {} BY <1>1, TurnFacts
    <3>2. QED BY <3>1 DEF Role, InTodo
  <2>2. Role(x)' = "init"
    <3>1. InTodo(x)' BY DEF InTodo, BeginCycle, Collectors
    <3>2. phase' \in {"idle", "init"} BY DEF BeginCycle
    <3>3. phase' = "init"
      <4>1. x \in {CollectorList[i] : i \in DOMAIN CollectorList} BY DEF Collectors
      <4>2. CollectorList # <<>>
        <5>1. DOMAIN CollectorList # {} BY <4>1
        <5>2. <<>> \in Seq(Collectors) /\ DOMAIN <<>> = 1 .. Len(<<>>) /\ Len(<<>>) = 0
          BY EmptySeq, LenProperties
        <5>3. QED BY <5>1, <5>2
      <4>3. QED BY <4>2 DEF BeginCycle
    <3>4. QED BY <3>1, <3>3 DEF Role
  <2>3. CollectorInv(x) BY DEF IInv
  <2>4. Stream(x)' = Stream(x) /\ StreamFlows(x)' = StreamFlows(x)
    BY DEF Stream, StreamFlows, BeginCycle
  <2>5. /\ given[x].flows \in Nat /\ given[x].msgs \in Nat
        /\ count[x].flows \in Nat /\ count[x].msgs \in Nat
        /\ given[x] \in Totals /\ given'[x] \in Totals
        /\ given'[x].flows = given[x].flows + n /\ given'[x].msgs = given[x].msgs + 1
        /\ given'[x].msgs # 0
    BY <1>1 DEF TypeOK, BeginCycle, Totals
  <2>6. /\ Open(x) = 0 /\ Owed(x) = 0 /\ OwedOne(x) = 0
        /\ Open(x)' = 0 /\ Owed(x)' = n /\ OwedOne(x)' = 1
    BY <2>1, <2>2 DEF Open, Owed, OwedOne, Counted, Counting, BeginCycle
  <2>7. StreamInv(x)'
    <3>1. Stream(x) \in Seq(Items) BY <1>1, StreamType
    <3> DEFINE lost == x \in dropped
    <3>2. lost \in BOOLEAN /\ Good(Stream(x), given[x], lost)
      BY <2>3 DEF CollectorInv, StreamInv
    <3> HIDE DEF lost
    <3>3. Good(Stream(x), given'[x], lost) BY <2>5, <3>1, <3>2, GoodMore
    <3>4. Good(Stream(x), given'[x], x \in dropped') BY <3>3 DEF lost, BeginCycle
    <3>5. ctx' = ctx BY DEF BeginCycle
    <3>6. QED BY <2>2, <2>3, <2>4, <2>5, <3>4, <3>5 DEF StreamInv, CollectorInv, Running
  <2>8. CountInv(x)'
    <3>1. /\ ctx' = ctx /\ count' = count BY DEF BeginCycle
    <3>2. /\ ctx[x] = "null" => count[x] = [flows |-> 0, msgs |-> 0]
          /\ ctx[x] = "live" => StreamFlows(x) <= count[x].flows + Open(x)
          /\ count[x].flows + Owed(x) <= given[x].flows
          /\ count[x].msgs + OwedOne(x) <= given[x].msgs
      BY <2>3 DEF CollectorInv, CountInv
    <3>3. /\ count[x].flows + Owed(x)' <= given'[x].flows
          /\ count[x].msgs + OwedOne(x)' <= given'[x].msgs
      BY <2>5, <2>6, <3>2
    <3>4. ctx[x] = "live" => StreamFlows(x)' <= count[x].flows + Open(x)'
      BY <2>4, <2>6, <3>2
    <3>5. QED BY <2>2, <3>1, <3>2, <3>3, <3>4 DEF CountInv
  <2>9. CallInv(x)' BY <2>2 DEF CallInv, Running
  <2>10. x \notin failed' => Healthy(x)'
    BY <2>2, <2>3, <2>4, <2>5, <2>6 DEF Healthy, CollectorInv, BeginCycle
  <2>11. QED BY <2>7, <2>8, <2>9, <2>10 DEF CollectorInv
<1>6. QED BY <1>2, <1>3, <1>4, <1>5 DEF IInv

LEMMA UseFreedInv ==
  ASSUME IInv, UseFreed
  PROVE  IInv'
<1>1. TypeOK' /\ Turns' /\ ObjectsGoWithContext'
  BY DEF IInv, TypeOK, Phases, Turns, ObjectsGoWithContext, UseFreed
<1>2. ASSUME NEW x \in Collectors PROVE CollectorInv(x)'
  <2>1. InTodo(x)' = InTodo(x) BY DEF InTodo, UseFreed
  <2>2. Role(x)' = Role(x) /\ Role(x) \in {"init", "done"}
    BY <2>1 DEF Role, UseFreed
  <2>3. Untouched(x) /\ records' = records BY DEF Untouched, UseFreed
  <2>4. QED BY <2>2, <2>3, Others
<1>3. QED BY <1>1, <1>2 DEF IInv

LEMMA Cur ==
  ASSUME IInv, Exporting
  PROVE  cur \in Collectors
<1>1. todo # <<>> BY DEF IInv, TypeOK, Exporting
<1>2. QED BY <1>1, TurnFacts DEF IInv

\* The types after a failure that frees the context, or leaves it.
LEMMA LostTypes ==
  ASSUME IInv, Exporting, NEW c \in Collectors, c = cur, Return, Failed,
         UNCHANGED <<sent, given, dropped, count, records, tmpl, left, appended>>,
         ready' \in BOOLEAN,
         ctx' \in [Collectors -> {"null", "live", "freed"}],
         alive' \in [Collectors -> SUBSET First(4)],
         pending' \in [Collectors -> Seq(Items)]
  PROVE  TypeOK'
<1>1. TypeOK /\ Turns BY DEF IInv
<1>2. todo' \in Seq(Collectors) /\ phase' \in {"idle", "init"}
      /\ (phase' = "init" => todo' # <<>>)
  BY <1>1, RoleReturns
<1>3. failed' \subseteq Collectors /\ dropped' \subseteq failed' BY <1>1 DEF TypeOK, Failed
<1>4. QED BY <1>1, <1>2, <1>3 DEF TypeOK, Phases

LEMMA ExportInitInv ==
  ASSUME IInv, ExportInit
  PROVE  IInv'
<1>1. Exporting /\ cur \in Collectors BY Cur DEF Exporting, ExportInit
<1>2. PICK c \in Collectors : c = cur BY <1>1
<1>3. TypeOK' BY <1>1, <1>2, LostTypes DEF IInv, TypeOK, ExportInit
<1>4. Turns' /\ \A x \in Collectors : CollectorInv(x)'
  BY <1>1, <1>2, TurnLost DEF ExportInit, Failed
<1>5. ObjectsGoWithContext'
  BY DEF IInv, ObjectsGoWithContext, ExportInit, Return
<1>6. QED BY <1>3, <1>4, <1>5 DEF IInv

LEMMA OpenFailsInv ==
  ASSUME IInv, OpenFails
  PROVE  IInv'
<1>1. Exporting /\ cur \in Collectors BY Cur DEF Exporting, OpenFails
<1>2. PICK c \in Collectors : c = cur BY <1>1
<1>3. TypeOK BY DEF IInv
<1>4. PICK k \in 0 .. 3 : alive' = [alive EXCEPT ![c] = First(k)] BY <1>2 DEF OpenFails
<1>5. First(k) \subseteq First(4) /\ "buffer" \notin First(k) BY ObjectsFirst
<1>6. /\ ctx' = [ctx EXCEPT ![c] = "freed"] /\ ctx'[c] = "freed"
      /\ \A y \in Collectors \ {c} : ctx'[y] = ctx[y]
  BY <1>2, <1>3 DEF OpenFails, TypeOK
<1>7. TypeOK'
  <2>1. alive' \in [Collectors -> SUBSET First(4)] BY <1>3, <1>4, <1>5 DEF TypeOK
  <2>2. ready' \in BOOLEAN BY DEF OpenFails
  <2>3. ctx' \in [Collectors -> {"null", "live", "freed"}] BY <1>3, <1>6 DEF TypeOK
  <2>4. pending' \in [Collectors -> Seq(Items)] BY <1>3 DEF TypeOK, OpenFails
  <2>5. QED BY <1>1, <1>2, <2>1, <2>2, <2>3, <2>4, LostTypes DEF OpenFails
<1>8. Turns' /\ \A x \in Collectors : CollectorInv(x)'
  BY <1>1, <1>2, <1>6, TurnLost DEF OpenFails, Failed
<1>9. ObjectsGoWithContext'
  <2>1. ASSUME NEW x \in Collectors \ {c} PROVE alive'[x] = alive[x]
    BY <1>3, <1>4 DEF TypeOK
  <2>2. alive'[c] = First(k) BY <1>3, <1>4 DEF TypeOK
  <2>3. QED BY <1>5, <1>6, <2>1, <2>2 DEF IInv, ObjectsGoWithContext, OpenFails, Return
<1>10. QED BY <1>7, <1>8, <1>9 DEF IInv

\* The error path that frees the buffer and the context.
LEMMA FreeInv ==
  ASSUME IInv, phase \in {"exportTemplates", "setFlow", "setStats"}, FreeAndReturn,
         UNCHANGED <<sent, given, dropped, count, records, tmpl, left, appended, ready>>
  PROVE  IInv'
<1>1. Exporting /\ cur \in Collectors BY Cur DEF Exporting
<1>2. PICK c \in Collectors : c = cur BY <1>1
<1>3. TypeOK BY DEF IInv
<1>4. /\ ctx' = [ctx EXCEPT ![c] = "freed"] /\ alive' = [alive EXCEPT ![c] = {}]
      /\ pending' = [pending EXCEPT ![c] = <<>>] /\ Failed /\ Return
  BY <1>2 DEF FreeAndReturn
<1>5. /\ ctx' \in [Collectors -> {"null", "live", "freed"}]
      /\ alive' \in [Collectors -> SUBSET First(4)]
      /\ pending' \in [Collectors -> Seq(Items)] /\ ready' \in BOOLEAN
  <2>1. ready' \in BOOLEAN BY <1>3 DEF TypeOK
  <2>2. <<>> \in Seq(Items) BY Empty
  <2>3. pending' \in [Collectors -> Seq(Items)] BY <1>3, <1>4, <2>2 DEF TypeOK
  <2>4. ctx' \in [Collectors -> {"null", "live", "freed"}] BY <1>3, <1>4 DEF TypeOK
  <2>5. alive' \in [Collectors -> SUBSET First(4)] BY <1>3, <1>4 DEF TypeOK
  <2>6. QED BY <2>1, <2>3, <2>4, <2>5
<1>6. /\ ctx'[c] = "freed" /\ alive'[c] = {} /\ pending'[c] = <<>>
      /\ \A y \in Collectors \ {c} :
           ctx'[y] = ctx[y] /\ alive'[y] = alive[y] /\ pending'[y] = pending[y]
  BY <1>3, <1>4 DEF TypeOK
<1>7. TypeOK' BY <1>1, <1>2, <1>4, <1>5, LostTypes
<1>8. Turns' /\ \A x \in Collectors : CollectorInv(x)'
  BY <1>1, <1>2, <1>4, <1>6, TurnLost DEF Failed
<1>9. ObjectsGoWithContext'
  BY <1>1, <1>4, <1>6 DEF IInv, ObjectsGoWithContext, Return, Exporting
<1>10. QED BY <1>7, <1>8, <1>9 DEF IInv

LEMMA UseContextInv ==
  ASSUME IInv, UseContext
  PROVE  IInv'
<1>1. Exporting /\ cur \in Collectors BY Cur DEF Exporting, UseContext
<1>2. PICK c \in Collectors : c = cur BY <1>1
<1>3. TypeOK /\ CollectorInv(c) BY DEF IInv
<1>4. CASE ctx[c] = "null" /\ Failed /\ Return /\ UNCHANGED <<ctx, alive, tmpl, count>>
  <2>1. TypeOK' BY <1>1, <1>2, <1>3, <1>4, LostTypes DEF TypeOK, UseContext
  <2>2. Turns' /\ \A x \in Collectors : CollectorInv(x)'
    BY <1>1, <1>2, <1>4, TurnLost DEF UseContext, Failed
  <2>3. ObjectsGoWithContext'
    BY <1>4 DEF IInv, ObjectsGoWithContext, UseContext, Return
  <2>4. QED BY <2>1, <2>2, <2>3 DEF IInv
<1>5. CASE \/ /\ ctx[c] = "live"
              /\ phase' = "exportTemplates"
              /\ UNCHANGED <<todo, ctx, alive, tmpl, count, failed>>
           \/ /\ ctx[c] = "null"
              /\ ctx' = [ctx EXCEPT ![c] = "live"]
              /\ alive' = [alive EXCEPT ![c] = First(4)]
              /\ tmpl' = [tmpl EXCEPT ![c] = [int |-> "none", ext |-> "none"]]
              /\ count' = [count EXCEPT ![c] = [flows |-> 0, msgs |-> 0]]
              /\ phase' = "exportTemplates"
              /\ UNCHANGED <<todo, failed>>
  <2>1. phase' = "exportTemplates" /\ todo' = todo /\ failed' = failed
        /\ UNCHANGED <<records, left, appended, pending, sent, given, dropped>>
        /\ phase = "init" /\ ready' = TRUE
    BY <1>5 DEF UseContext
  <2>2. /\ ctx' \in [Collectors -> {"null", "live", "freed"}]
        /\ alive' \in [Collectors -> SUBSET First(4)]
        /\ tmpl' \in [Collectors -> [int : Templates, ext : Templates]]
        /\ count' \in [Collectors -> [flows : Nat, msgs : Nat]]
    <3>1. ctx' \in [Collectors -> {"null", "live", "freed"}] BY <1>3, <1>5 DEF TypeOK
    <3>2. alive' \in [Collectors -> SUBSET First(4)] BY <1>3, <1>5 DEF TypeOK
    <3>3. tmpl' \in [Collectors -> [int : Templates, ext : Templates]]
      <4>1. [int |-> "none", ext |-> "none"] \in [int : Templates, ext : Templates]
        BY DEF Templates
      <4>2. tmpl' = tmpl \/ tmpl' = [tmpl EXCEPT ![c] = [int |-> "none", ext |-> "none"]]
        BY <1>5
      <4>3. tmpl \in [Collectors -> [int : Templates, ext : Templates]]
        BY <1>3 DEF TypeOK
      <4>4. QED BY <4>1, <4>2, <4>3
    <3>4. count' \in [Collectors -> [flows : Nat, msgs : Nat]]
      <4>1. [flows |-> 0, msgs |-> 0] \in [flows : Nat, msgs : Nat] OBVIOUS
      <4>2. count' = count \/ count' = [count EXCEPT ![c] = [flows |-> 0, msgs |-> 0]]
        BY <1>5
      <4>3. count \in [Collectors -> [flows : Nat, msgs : Nat]] BY <1>3 DEF TypeOK
      <4>4. QED BY <4>1, <4>2, <4>3
    <3>5. QED BY <3>1, <3>2, <3>3, <3>4
  <2>3. TypeOK' BY <1>1, <1>3, <2>1, <2>2 DEF TypeOK, Phases, Exporting
  <2>4. \A y \in Collectors \ {c} : Untouched(y)
    BY <1>3, <1>5, <2>1 DEF TypeOK, Untouched
  <2>5. /\ Turns' /\ Role(c) = "init" /\ Role(c)' = "exportTemplates"
        /\ \A y \in Collectors \ {c} : CollectorInv(y)'
    BY <1>1, <1>2, <2>1, <2>4, OthersStay DEF Running
  <2>6. Stream(c)' = Stream(c) /\ StreamFlows(c)' = StreamFlows(c)
    BY <2>1 DEF Stream, StreamFlows
  <2>7. ctx[c] = "null" => StreamFlows(c) = 0 /\ count[c] = [flows |-> 0, msgs |-> 0]
    BY <1>3, Empty DEF CollectorInv, StreamInv, CountInv, StreamFlows
  <2>8. ctx'[c] = "live" /\ count'[c] = count[c]
    BY <1>3, <1>5, <2>7 DEF TypeOK
  <2>9. ctx[c] # "freed" BY <1>5
  <2>10. /\ Open(c) = 0 /\ Open(c)' = 0 /\ Owed(c)' = Owed(c) /\ OwedOne(c)' = OwedOne(c)
    BY <2>1, <2>5 DEF Open, Owed, OwedOne, Counted, Counting
  <2>11. StreamInv(c)'
    BY <1>3, <2>1, <2>5, <2>6, <2>8 DEF StreamInv, CollectorInv, Running
  <2>12. CountInv(c)'
    BY <1>3, <2>1, <2>5, <2>6, <2>7, <2>8, <2>9, <2>10 DEF CountInv, CollectorInv, TypeOK
  <2>13. CallInv(c)' BY <2>5, <2>8 DEF CallInv, Running
  <2>14. c \notin failed' => Healthy(c)'
    BY <1>3, <2>1, <2>5, <2>6, <2>8, <2>10 DEF Healthy, CollectorInv
  <2>15. ObjectsGoWithContext'
    BY <1>3, <1>5, <2>1, <2>8 DEF IInv, ObjectsGoWithContext, TypeOK
  <2>16. QED BY <2>3, <2>5, <2>11, <2>12, <2>13, <2>14, <2>15 DEF IInv, CollectorInv
<1>6. QED BY <1>2, <1>4, <1>5 DEF UseContext

\* The types in a step that stays with the collector.
LEMMA StayTypes ==
  ASSUME IInv, Exporting, todo' = todo, phase' \in Running,
         UNCHANGED <<records, ready, ctx, alive, given>>,
         left' \in Nat, appended' \in Nat,
         tmpl' \in [Collectors -> [int : Templates, ext : Templates]],
         count' \in [Collectors -> [flows : Nat, msgs : Nat]],
         sent' \in [Collectors -> Seq(Items)], pending' \in [Collectors -> Seq(Items)],
         failed' \subseteq Collectors, dropped' \subseteq failed'
  PROVE  TypeOK' /\ ObjectsGoWithContext'
<1>1. TypeOK BY DEF IInv
<1>2. phase' \in Phases /\ todo # <<>> BY <1>1 DEF Running, Phases, TypeOK, Exporting
<1>3. TypeOK' BY <1>1, <1>2 DEF TypeOK
<1>4. ObjectsGoWithContext'
  BY DEF IInv, ObjectsGoWithContext, Exporting, Running
<1>5. QED BY <1>3, <1>4

LEMMA ExportTemplatesInv ==
  ASSUME IInv, ExportTemplates
  PROVE  IInv'
<1>1. Exporting /\ cur \in Collectors BY Cur DEF Exporting, ExportTemplates
<1>2. PICK c \in Collectors : c = cur BY <1>1
<1>3. TypeOK /\ CollectorInv(c) BY DEF IInv
<1>4. CASE FreeAndReturn BY <1>4, FreeInv DEF ExportTemplates
<1>5. CASE /\ Put(TemplatesItem) /\ phase' = "setFlow"
           /\ UNCHANGED <<todo, ctx, alive, failed>>
  <2>1. /\ phase = "exportTemplates" /\ phase' = "setFlow" /\ todo' = todo
        /\ UNCHANGED <<records, left, appended, ready, ctx, alive, tmpl, count, sent,
                       given, failed, dropped>>
    BY <1>5 DEF ExportTemplates
  <2>2. TemplatesItem \in Items /\ TemplatesItem.kind = "templates" /\ Coded(TemplatesItem)
    BY DEF TemplatesItem, Items, Coded
  <2>3. /\ Stream(c)' = Append(Stream(c), TemplatesItem)
        /\ \A y \in Collectors \ {c} : sent'[y] = sent[y] /\ pending'[y] = pending[y]
        /\ sent' \in [Collectors -> Seq(Items)] /\ pending' \in [Collectors -> Seq(Items)]
    BY <1>2, <1>3, <1>5, <2>1, <2>2, StreamGrows
  <2>4. TypeOK' /\ ObjectsGoWithContext'
    BY <1>1, <1>3, <2>1, <2>3, StayTypes DEF TypeOK, Running
  <2>5. \A y \in Collectors \ {c} : Untouched(y) BY <2>1, <2>3 DEF Untouched
  <2>6. /\ Turns' /\ Role(c) = "exportTemplates" /\ Role(c)' = "setFlow"
        /\ \A y \in Collectors \ {c} : CollectorInv(y)'
    BY <1>1, <1>2, <2>1, <2>5, OthersStay DEF Running
  <2>7. /\ Good(Stream(c)', given'[c], c \in dropped') /\ Stream(c)' # <<>>
        /\ StreamFlows(c)' = StreamFlows(c) + 0
    BY <1>1, <1>2, <2>1, <2>2, <2>3, Grown
  <2>8. ctx[c] = "live" /\ given[c].msgs # 0
    BY <1>3, <2>6 DEF CollectorInv, CallInv, CountInv, Running, OwedOne, Counted, TypeOK
  <2>9. /\ Open(c) = 0 /\ Open(c)' = 0 /\ Owed(c)' = Owed(c) /\ OwedOne(c)' = OwedOne(c)
        /\ StreamFlows(c) \in Nat
    BY <1>3, <2>1, <2>6, StreamType DEF Open, Owed, OwedOne, Counted, Counting
  <2>10. StreamInv(c)'
    BY <2>1, <2>6, <2>7, <2>8 DEF StreamInv
  <2>11. CountInv(c)'
    BY <1>3, <2>1, <2>6, <2>7, <2>8, <2>9 DEF CountInv, CollectorInv
  <2>12. CallInv(c)' BY <2>1, <2>6, <2>8 DEF CallInv
  <2>13. c \notin failed' => Healthy(c)'
    BY <1>3, <2>1, <2>6, <2>7, <2>9 DEF Healthy, CollectorInv
  <2>14. QED BY <2>4, <2>6, <2>10, <2>11, <2>12, <2>13 DEF IInv, CollectorInv
<1>6. QED BY <1>4, <1>5 DEF ExportTemplates

LEMMA SetFlowTemplatesInv ==
  ASSUME IInv, SetFlowTemplates
  PROVE  IInv'
<1>1. Exporting /\ cur \in Collectors BY Cur DEF Exporting, SetFlowTemplates
<1>2. PICK c \in Collectors : c = cur BY <1>1
<1>3. TypeOK /\ CollectorInv(c) BY DEF IInv
<1>4. CASE FreeAndReturn /\ UNCHANGED <<tmpl, left, appended>>
  BY <1>4, FreeInv DEF SetFlowTemplates
<1>5. CASE /\ tmpl' = [tmpl EXCEPT ![c] = [int |-> "flow", ext |-> "flow"]]
           /\ left' = records /\ appended' = 0
           /\ phase' = "append"
           /\ UNCHANGED <<todo, ctx, alive, pending, failed>>
  <2>1. /\ phase = "setFlow" /\ phase' = "append" /\ todo' = todo
        /\ left' = records /\ appended' = 0
        /\ UNCHANGED <<records, ready, ctx, alive, pending, count, sent, given,
                       failed, dropped>>
    BY <1>5 DEF SetFlowTemplates
  <2>2. [int |-> "flow", ext |-> "flow"] \in [int : Templates, ext : Templates]
    BY DEF Templates
  <2>3. /\ tmpl' \in [Collectors -> [int : Templates, ext : Templates]]
        /\ tmpl'[c] = [int |-> "flow", ext |-> "flow"]
        /\ \A y \in Collectors \ {c} : tmpl'[y] = tmpl[y]
    BY <1>3, <1>5, <2>2 DEF TypeOK
  <2>4. TypeOK' /\ ObjectsGoWithContext'
    BY <1>1, <1>3, <2>1, <2>3, StayTypes DEF TypeOK, Running
  <2>5. \A y \in Collectors \ {c} : Untouched(y) BY <2>1, <2>3 DEF Untouched
  <2>6. /\ Turns' /\ Role(c) = "setFlow" /\ Role(c)' = "append"
        /\ \A y \in Collectors \ {c} : CollectorInv(y)'
    BY <1>1, <1>2, <2>1, <2>5, OthersStay DEF Running
  <2>7. Stream(c)' = Stream(c) /\ StreamFlows(c)' = StreamFlows(c)
    BY <2>1 DEF Stream, StreamFlows
  <2>8. /\ Open(c) = 0 /\ Open(c)' = 0 /\ Owed(c)' = Owed(c) /\ OwedOne(c)' = OwedOne(c)
        /\ StreamFlows(c) \in Nat /\ records \in Nat
    BY <1>3, <2>1, <2>6, StreamType DEF Open, Owed, OwedOne, Counted, Counting, TypeOK
  <2>9. StreamInv(c)'
    BY <1>3, <2>1, <2>6, <2>7 DEF StreamInv, CollectorInv, Running
  <2>10. CountInv(c)'
    BY <1>3, <2>1, <2>6, <2>7, <2>8 DEF CountInv, CollectorInv
  <2>11. CallInv(c)' BY <1>3, <2>1, <2>3, <2>6 DEF CallInv, CollectorInv, Running
  <2>12. c \notin failed' => Healthy(c)'
    BY <1>3, <2>1, <2>6, <2>7, <2>8 DEF Healthy, CollectorInv
  <2>13. QED BY <2>4, <2>6, <2>9, <2>10, <2>11, <2>12 DEF IInv, CollectorInv
<1>6. QED BY <1>2, <1>4, <1>5 DEF SetFlowTemplates

LEMMA RecordsDoneInv ==
  ASSUME IInv, RecordsDone
  PROVE  IInv'
<1>1. Exporting /\ cur \in Collectors BY Cur DEF Exporting, RecordsDone
<1>2. PICK c \in Collectors : c = cur BY <1>1
<1>3. TypeOK /\ CollectorInv(c) BY DEF IInv
<1>4. /\ phase = "append" /\ phase' = "emitFlows" /\ todo' = todo /\ left = 0
      /\ UNCHANGED <<records, left, appended, ready, ctx, alive, tmpl, pending, count,
                     sent, given, failed, dropped>>
  BY DEF RecordsDone
<1>5. TypeOK' /\ ObjectsGoWithContext'
  BY <1>1, <1>3, <1>4, StayTypes DEF TypeOK, Running
<1>6. \A y \in Collectors \ {c} : Untouched(y) BY <1>4 DEF Untouched
<1>7. /\ Turns' /\ Role(c) = "append" /\ Role(c)' = "emitFlows"
      /\ \A y \in Collectors \ {c} : CollectorInv(y)'
  BY <1>1, <1>2, <1>4, <1>6, OthersStay DEF Running
<1>8. Stream(c)' = Stream(c) /\ StreamFlows(c)' = StreamFlows(c)
  BY <1>4 DEF Stream, StreamFlows
<1>9. /\ Open(c)' = Open(c) /\ Owed(c)' = Owed(c) /\ OwedOne(c)' = OwedOne(c)
      /\ appended \in Nat /\ records \in Nat
  BY <1>3, <1>4, <1>7 DEF Open, Owed, OwedOne, Counted, Counting, TypeOK
<1>10. StreamInv(c)'
  BY <1>3, <1>4, <1>7, <1>8 DEF StreamInv, CollectorInv, Running
<1>11. CountInv(c)' BY <1>3, <1>4, <1>7, <1>8, <1>9 DEF CountInv, CollectorInv
<1>12. CallInv(c)' BY <1>3, <1>4, <1>7 DEF CallInv, CollectorInv, Running
<1>13. c \notin failed' => Healthy(c)'
  BY <1>3, <1>4, <1>7, <1>8, <1>9 DEF Healthy, CollectorInv
<1>14. QED BY <1>5, <1>7, <1>10, <1>11, <1>12, <1>13 DEF IInv, CollectorInv

LEMMA AppendRecordInv ==
  ASSUME IInv, AppendRecord
  PROVE  IInv'
<1>1. Exporting /\ cur \in Collectors BY Cur DEF Exporting, AppendRecord
<1>2. PICK c \in Collectors : c = cur BY <1>1
<1>3. TypeOK /\ CollectorInv(c) BY DEF IInv
<1>4. /\ phase = "append" /\ phase' = "append" /\ todo' = todo
      /\ left > 0 /\ left' = left - 1 /\ left' \in Nat
      /\ UNCHANGED <<records, ready, ctx, alive, tmpl, count, given, dropped>>
  BY <1>3 DEF AppendRecord, TypeOK
<1>5. Role(c) = "append" BY <1>1, <1>2, <1>3, <1>4, RoleNow
<1>6. CASE BufAppends(FlowItem(tmpl[c])) /\ appended' = appended + 1
  <2> DEFINE item == FlowItem(tmpl[c])
  <2>1. /\ item \in Items /\ item.kind = "flow" /\ Coded(item)
    <3>1. tmpl[c] = [int |-> "flow", ext |-> "flow"]
      BY <1>3, <1>5 DEF CollectorInv, CallInv
    <3>2. tmpl[c] \in [int : Templates, ext : Templates] BY <1>3 DEF TypeOK
    <3>3. QED BY <3>1, <3>2 DEF FlowItem, Items, Coded
  <2>2. BufAppends(item) BY <1>6
  <2> HIDE DEF item
  <2>3. failed' = failed BY <2>2 DEF BufAppends
  <2>4. /\ Stream(c)' = Append(Stream(c), item)
        /\ \A y \in Collectors \ {c} : sent'[y] = sent[y] /\ pending'[y] = pending[y]
        /\ sent' \in [Collectors -> Seq(Items)] /\ pending' \in [Collectors -> Seq(Items)]
    BY <1>2, <1>3, <2>1, <2>2, StreamGrows
  <2>5. TypeOK' /\ ObjectsGoWithContext'
    <3>1. /\ appended' \in Nat /\ dropped' \subseteq failed' /\ failed' \subseteq Collectors
          /\ tmpl' \in [Collectors -> [int : Templates, ext : Templates]]
          /\ count' \in [Collectors -> [flows : Nat, msgs : Nat]]
      <4>1. /\ appended \in Nat /\ dropped \subseteq failed /\ failed \subseteq Collectors
            /\ tmpl \in [Collectors -> [int : Templates, ext : Templates]]
            /\ count \in [Collectors -> [flows : Nat, msgs : Nat]]
        BY <1>3 DEF TypeOK
      <4>2. appended' = appended + 1 /\ dropped' = dropped /\ tmpl' = tmpl /\ count' = count
        BY <1>4, <1>6
      <4>3. appended' \in Nat BY <4>1, <4>2
      <4>4. QED BY <2>3, <4>1, <4>2, <4>3
    <3>2. phase' \in Running BY <1>4 DEF Running
    <3>3. QED BY <1>1, <1>4, <2>4, <3>1, <3>2, StayTypes
  <2>6. \A y \in Collectors \ {c} : Untouched(y) BY <1>4, <2>3, <2>4 DEF Untouched
  <2>7. /\ Turns' /\ Role(c)' = "append"
        /\ \A y \in Collectors \ {c} : CollectorInv(y)'
    BY <1>1, <1>2, <1>4, <2>6, OthersStay DEF Running
  <2>8. /\ Good(Stream(c)', given'[c], c \in dropped') /\ Stream(c)' # <<>>
        /\ StreamFlows(c)' = StreamFlows(c) + 1
    BY <1>1, <1>2, <1>4, <2>1, <2>4, Grown DEF Running
  <2>9. ctx[c] = "live" /\ given[c].msgs # 0
    BY <1>3, <1>5 DEF CollectorInv, CallInv, CountInv, Running, OwedOne, Counted, TypeOK
  <2>10. /\ Open(c) = appended /\ Open(c)' = appended + 1
         /\ Owed(c)' = Owed(c) /\ OwedOne(c)' = OwedOne(c)
         /\ StreamFlows(c) \in Nat /\ appended \in Nat /\ left \in Nat /\ records \in Nat
         /\ count[c].flows \in Nat
    BY <1>3, <1>4, <1>5, <1>6, <2>7, StreamType
       DEF Open, Owed, OwedOne, Counted, Counting, TypeOK
  <2>11. StreamInv(c)' BY <1>4, <2>7, <2>8, <2>9 DEF StreamInv
  <2>12. CountInv(c)'
    BY <1>3, <1>4, <1>5, <1>6, <2>7, <2>8, <2>9, <2>10 DEF CountInv, CollectorInv
  <2>13. CallInv(c)' BY <1>3, <1>4, <1>5, <2>7, <2>9 DEF CallInv, CollectorInv
  <2>14. c \notin failed' => Healthy(c)'
    BY <1>3, <1>4, <1>5, <1>6, <2>3, <2>7, <2>8, <2>10 DEF Healthy, CollectorInv
  <2>15. QED BY <2>5, <2>7, <2>11, <2>12, <2>13, <2>14 DEF IInv, CollectorInv
<1>7. CASE BufAppendFails /\ UNCHANGED appended
  <2>1. failed' = failed \cup {c} /\ UNCHANGED <<pending, sent, appended>>
    BY <1>2, <1>7 DEF BufAppendFails, Failed
  <2>2. TypeOK' /\ ObjectsGoWithContext'
    BY <1>1, <1>3, <1>4, <2>1, StayTypes DEF TypeOK, Running
  <2>3. \A y \in Collectors \ {c} : Untouched(y) BY <1>4, <2>1 DEF Untouched
  <2>4. /\ Turns' /\ Role(c)' = "append"
        /\ \A y \in Collectors \ {c} : CollectorInv(y)'
    BY <1>1, <1>2, <1>4, <2>3, OthersStay DEF Running
  <2>5. Stream(c)' = Stream(c) /\ StreamFlows(c)' = StreamFlows(c)
    BY <2>1 DEF Stream, StreamFlows
  <2>6. /\ Open(c)' = Open(c) /\ Owed(c)' = Owed(c) /\ OwedOne(c)' = OwedOne(c)
        /\ appended \in Nat /\ left \in Nat /\ records \in Nat
    BY <1>3, <1>4, <1>5, <2>1, <2>4 DEF Open, Owed, OwedOne, Counted, Counting, TypeOK
  <2>7. StreamInv(c)' BY <1>3, <1>4, <1>5, <2>4, <2>5 DEF StreamInv, CollectorInv, Running
  <2>8. CountInv(c)'
    BY <1>3, <1>4, <1>5, <2>1, <2>4, <2>5, <2>6 DEF CountInv, CollectorInv
  <2>9. CallInv(c)' BY <1>3, <1>4, <1>5, <2>4 DEF CallInv, CollectorInv, Running
  <2>10. c \in failed' BY <2>1
  <2>11. QED BY <2>2, <2>4, <2>7, <2>8, <2>9, <2>10 DEF IInv, CollectorInv
<1>8. QED BY <1>2, <1>6, <1>7 DEF AppendRecord

LEMMA SetStatsTemplatesInv ==
  ASSUME IInv, SetStatsTemplates
  PROVE  IInv'
<1>1. Exporting /\ cur \in Collectors BY Cur DEF Exporting, SetStatsTemplates
<1>2. PICK c \in Collectors : c = cur BY <1>1
<1>3. TypeOK /\ CollectorInv(c) BY DEF IInv
<1>4. CASE FreeAndReturn /\ UNCHANGED <<tmpl, count>>
  BY <1>4, FreeInv DEF SetStatsTemplates
<1>5. CASE /\ tmpl' = [tmpl EXCEPT ![c] = [int |-> "stats", ext |-> "stats"]]
           /\ count' = [count EXCEPT ![c] = [flows |-> @.flows + appended,
                                             msgs |-> @.msgs + 1]]
           /\ phase' = "appendStats"
           /\ UNCHANGED <<todo, ctx, alive, pending, failed>>
  <2>1. /\ phase = "setStats" /\ phase' = "appendStats" /\ todo' = todo
        /\ UNCHANGED <<records, left, appended, ready, ctx, alive, pending, sent, given,
                       failed, dropped>>
    BY <1>5 DEF SetStatsTemplates
  <2>2. [int |-> "stats", ext |-> "stats"] \in [int : Templates, ext : Templates]
    BY DEF Templates
  <2>3. /\ tmpl' \in [Collectors -> [int : Templates, ext : Templates]]
        /\ tmpl'[c] = [int |-> "stats", ext |-> "stats"]
        /\ \A y \in Collectors \ {c} : tmpl'[y] = tmpl[y]
    BY <1>3, <1>5, <2>2 DEF TypeOK
  <2>4. count \in [Collectors -> [flows : Nat, msgs : Nat]] /\ appended \in Nat
    BY <1>3 DEF TypeOK
  <2>5. /\ count' \in [Collectors -> [flows : Nat, msgs : Nat]]
        /\ count'[c].flows = count[c].flows + appended
        /\ count'[c].msgs = count[c].msgs + 1
        /\ \A y \in Collectors \ {c} : count'[y] = count[y]
    BY <1>5, <2>4
  <2>6. TypeOK' /\ ObjectsGoWithContext'
    BY <1>1, <1>3, <2>1, <2>3, <2>5, StayTypes DEF TypeOK, Running
  <2>7. \A y \in Collectors \ {c} : Untouched(y) BY <2>1, <2>3, <2>5 DEF Untouched
  <2>8. /\ Turns' /\ Role(c) = "setStats" /\ Role(c)' = "appendStats"
        /\ \A y \in Collectors \ {c} : CollectorInv(y)'
    BY <1>1, <1>2, <2>1, <2>7, OthersStay DEF Running
  <2>9. Stream(c)' = Stream(c) /\ StreamFlows(c)' = StreamFlows(c)
    BY <2>1 DEF Stream, StreamFlows
  <2>10. /\ Open(c) = appended /\ Open(c)' = 0 /\ Owed(c) = records /\ Owed(c)' = 0
         /\ OwedOne(c) = 1 /\ OwedOne(c)' = 0
         /\ StreamFlows(c) \in Nat /\ records \in Nat
         /\ count[c].flows \in Nat /\ count[c].msgs \in Nat
         /\ given[c].flows \in Nat /\ given[c].msgs \in Nat /\ ctx[c] = "live"
    BY <1>3, <2>1, <2>8, StreamType
       DEF Open, Owed, OwedOne, Counted, Counting, TypeOK, CollectorInv, CallInv, Running
  <2>11. StreamInv(c)'
    BY <1>3, <2>1, <2>8, <2>9 DEF StreamInv, CollectorInv, Running
  <2>12. CountInv(c)'
    BY <1>3, <2>1, <2>4, <2>5, <2>8, <2>9, <2>10 DEF CountInv, CollectorInv
  <2>13. CallInv(c)' BY <2>1, <2>3, <2>8, <2>10 DEF CallInv
  <2>14. c \notin failed' => Healthy(c)'
    BY <1>3, <2>1, <2>4, <2>5, <2>8, <2>9, <2>10 DEF Healthy, CollectorInv
  <2>15. QED BY <2>6, <2>8, <2>11, <2>12, <2>13, <2>14 DEF IInv, CollectorInv
<1>6. QED BY <1>2, <1>4, <1>5 DEF SetStatsTemplates

LEMMA AppendStatsInv ==
  ASSUME IInv, AppendStats
  PROVE  IInv'
<1>1. Exporting /\ cur \in Collectors BY Cur DEF Exporting, AppendStats
<1>2. PICK c \in Collectors : c = cur BY <1>1
<1>3. TypeOK /\ CollectorInv(c) BY DEF IInv
<1>4. /\ phase = "appendStats" /\ phase' = "emitStats" /\ todo' = todo
      /\ UNCHANGED <<records, left, appended, ready, ctx, alive, tmpl, count, given, dropped>>
  BY DEF AppendStats
<1>5. Role(c) = "appendStats" BY <1>1, <1>2, <1>3, <1>4, RoleNow
<1>6. /\ Open(c) = 0 /\ Owed(c) = 0 /\ OwedOne(c) = 0 /\ ctx[c] = "live"
      /\ StreamFlows(c) \in Nat
      /\ count[c] \in Totals /\ given[c] \in Totals
      /\ count[c].flows \in Nat /\ count[c].msgs \in Nat
      /\ given[c].flows \in Nat /\ given[c].msgs \in Nat
  BY <1>3, <1>5, StreamType
     DEF Open, Owed, OwedOne, Counted, Counting, TypeOK, CollectorInv, CallInv, Running, Totals
<1>7. /\ StreamFlows(c) <= count[c].flows
      /\ count[c].flows <= given[c].flows /\ count[c].msgs <= given[c].msgs
  BY <1>3, <1>6 DEF CollectorInv, CountInv
<1>8. CASE BufAppends(StatsItem(tmpl[c], count[c]))
  <2> DEFINE item == StatsItem(tmpl[c], count[c])
  <2>1. /\ item \in Items /\ item.kind = "stats" /\ item.count = count[c] /\ Coded(item)
    <3>1. tmpl[c] = [int |-> "stats", ext |-> "stats"]
      BY <1>3, <1>5 DEF CollectorInv, CallInv
    <3>2. tmpl[c] \in [int : Templates, ext : Templates] BY <1>3 DEF TypeOK
    <3>3. QED BY <1>6, <3>1, <3>2 DEF StatsItem, Items, Coded, Totals
  <2>2. BufAppends(item) BY <1>8
  <2> HIDE DEF item
  <2>3. failed' = failed BY <2>2 DEF BufAppends
  <2>4. /\ Stream(c)' = Append(Stream(c), item)
        /\ \A y \in Collectors \ {c} : sent'[y] = sent[y] /\ pending'[y] = pending[y]
        /\ sent' \in [Collectors -> Seq(Items)] /\ pending' \in [Collectors -> Seq(Items)]
    BY <1>2, <1>3, <2>1, <2>2, StreamGrows
  <2>5. TypeOK' /\ ObjectsGoWithContext'
    BY <1>1, <1>3, <1>4, <2>3, <2>4, StayTypes DEF TypeOK, Running
  <2>6. \A y \in Collectors \ {c} : Untouched(y) BY <1>4, <2>3, <2>4 DEF Untouched
  <2>7. /\ Turns' /\ Role(c)' = "emitStats"
        /\ \A y \in Collectors \ {c} : CollectorInv(y)'
    BY <1>1, <1>2, <1>4, <2>6, OthersStay DEF Running
  <2>8. /\ Good(Stream(c)', given'[c], c \in dropped') /\ Stream(c)' # <<>>
        /\ Stream(c)'[Len(Stream(c)')] = item
        /\ StreamFlows(c)' = StreamFlows(c) + 0
    BY <1>1, <1>2, <1>4, <1>7, <2>1, <2>4, Grown DEF Running
  <2>9. Open(c)' = 0 /\ Owed(c)' = 0 /\ OwedOne(c)' = 0
    BY <2>7 DEF Open, Owed, OwedOne, Counted, Counting
  <2>11. given[c].msgs > 0 BY <1>3, <1>5 DEF CollectorInv, CountInv
  <2>12. StreamInv(c)' BY <1>4, <1>6, <2>7, <2>8, <2>11 DEF StreamInv
  <2>13. CountInv(c)'
    BY <1>4, <1>6, <1>7, <2>7, <2>8, <2>9, <2>11 DEF CountInv
  <2>14. CallInv(c)' BY <1>4, <1>6, <2>7 DEF CallInv
  <2>15. c \notin failed' => Healthy(c)'
    <3> SUFFICES ASSUME c \notin failed PROVE Healthy(c)' BY <2>3
    <3>1. Healthy(c) BY <1>3 DEF CollectorInv
    <3>2. count[c].flows = given[c].flows /\ count[c].msgs = given[c].msgs
      BY <1>6, <3>1 DEF Healthy
    <3>3. count[c] = given[c] BY <1>6, <3>2 DEF Totals
    <3>4. QED BY <1>4, <1>6, <2>1, <2>7, <2>8, <2>9, <3>1, <3>2, <3>3 DEF Healthy
  <2>16. QED BY <2>5, <2>7, <2>12, <2>13, <2>14, <2>15 DEF IInv, CollectorInv
<1>9. CASE BufAppendFails
  <2>1. failed' = failed \cup {c} /\ UNCHANGED <<pending, sent>>
    BY <1>2, <1>9 DEF BufAppendFails, Failed
  <2>2. TypeOK' /\ ObjectsGoWithContext'
    BY <1>1, <1>3, <1>4, <2>1, StayTypes DEF TypeOK, Running
  <2>3. \A y \in Collectors \ {c} : Untouched(y) BY <1>4, <2>1 DEF Untouched
  <2>4. /\ Turns' /\ Role(c)' = "emitStats"
        /\ \A y \in Collectors \ {c} : CollectorInv(y)'
    BY <1>1, <1>2, <1>4, <2>3, OthersStay DEF Running
  <2>5. Stream(c)' = Stream(c) /\ StreamFlows(c)' = StreamFlows(c)
    BY <2>1 DEF Stream, StreamFlows
  <2>6. Open(c)' = 0 /\ Owed(c)' = 0 /\ OwedOne(c)' = 0
    BY <2>4 DEF Open, Owed, OwedOne, Counted, Counting
  <2>7. StreamInv(c)' BY <1>3, <1>4, <1>5, <2>4, <2>5 DEF StreamInv, CollectorInv, Running
  <2>8. CountInv(c)' BY <1>3, <1>4, <1>5, <1>6, <1>7, <2>4, <2>5, <2>6 DEF CountInv, CollectorInv
  <2>9. CallInv(c)' BY <1>4, <1>6, <2>4 DEF CallInv
  <2>10. c \in failed' BY <2>1
  <2>11. QED BY <2>2, <2>4, <2>7, <2>8, <2>9, <2>10 DEF IInv, CollectorInv
<1>10. QED BY <1>2, <1>8, <1>9 DEF AppendStats

\* What the emission of a message does to the stream.
LEMMA Emitted ==
  ASSUME IInv, NEW c \in Collectors, c = cur, Emit, given' = given
  PROVE  /\ \A y \in Collectors \ {c} :
              /\ sent'[y] = sent[y] /\ pending'[y] = pending[y]
              /\ (y \in failed') = (y \in failed) /\ (y \in dropped') = (y \in dropped)
         /\ sent' \in [Collectors -> Seq(Items)]
         /\ pending' \in [Collectors -> Seq(Items)]
         /\ failed' \subseteq Collectors /\ dropped' \subseteq failed'
         /\ Good(Stream(c)', given'[c], c \in dropped')
         /\ StreamFlows(c)' <= StreamFlows(c)
         /\ StreamFlows(c) \in Nat /\ StreamFlows(c)' \in Nat
         /\ Stream(c) = <<>> => Stream(c)' = <<>>
         /\ c \notin dropped' => Stream(c)' = Stream(c) /\ c \notin dropped
         /\ c \notin failed' =>
              /\ Stream(c)' = Stream(c) /\ StreamFlows(c)' = StreamFlows(c)
              /\ pending'[c] = <<>> /\ c \notin failed
<1>1. TypeOK /\ CollectorInv(c) BY DEF IInv
<1>2. /\ failed \subseteq Collectors /\ dropped \subseteq failed
      /\ sent[c] \in Seq(Items) /\ pending[c] \in Seq(Items)
      /\ given[c] \in Totals /\ Stream(c) = sent[c] \o pending[c]
  BY <1>1 DEF TypeOK, Totals, Stream
<1>3. /\ \A y \in Collectors \ {c} : sent'[y] = sent[y] /\ pending'[y] = pending[y]
      /\ sent' \in [Collectors -> Seq(Items)]
      /\ pending' \in [Collectors -> Seq(Items)]
      /\ \/ /\ Stream(c)' = Stream(c) /\ pending'[c] = <<>>
            /\ UNCHANGED <<failed, dropped>>
         \/ /\ Stream(c)' = Stream(c)
            /\ failed' = failed \cup {c} /\ UNCHANGED dropped
         \/ /\ Stream(c)' = sent[c]
            /\ failed' = failed \cup {c} /\ dropped' = dropped \cup {c}
  BY <1>1, StreamEmitted
<1>4. failed' \subseteq Collectors /\ dropped' \subseteq failed' BY <1>2, <1>3
<1>5. \A y \in Collectors \ {c} :
        (y \in failed') = (y \in failed) /\ (y \in dropped') = (y \in dropped)
  BY <1>3
<1>6. Good(Stream(c), given[c], c \in dropped) BY <1>1 DEF CollectorInv, StreamInv
<1>7. StreamFlows(c) = Flows(Stream(c), Len(Stream(c))) BY DEF StreamFlows
<1>8. /\ Flows(sent[c], Len(sent[c])) <= StreamFlows(c)
      /\ Flows(sent[c], Len(sent[c])) \in Nat /\ StreamFlows(c) \in Nat
  BY <1>2, <1>7, FlowsPrefix
<1>9. Good(sent[c], given[c], TRUE)
  <2> DEFINE lost == c \in dropped
  <2>1. lost \in BOOLEAN /\ Good(sent[c] \o pending[c], given[c], lost) BY <1>2, <1>6
  <2> HIDE DEF lost
  <2>2. Good(sent[c], given[c], lost) BY <1>2, <2>1, GoodPrefix
  <2>3. QED BY <2>2 DEF Good
<1>10. Stream(c) = <<>> => sent[c] = <<>>
  <2>1. sent[c] \o pending[c] = <<>> => sent[c] = <<>> BY <1>2, ConcatIsEmpty
  <2>2. QED BY <1>2, <2>1
<1>11. CASE Stream(c)' = Stream(c) /\ UNCHANGED dropped
           /\ (failed' = failed \cup {c} \/ (failed' = failed /\ pending'[c] = <<>>))
  <2>1. StreamFlows(c)' = StreamFlows(c) BY <1>11 DEF StreamFlows
  <2>2. Good(Stream(c)', given'[c], c \in dropped') BY <1>6, <1>11
  <2>3. QED BY <1>3, <1>4, <1>5, <1>8, <1>11, <2>1, <2>2
<1>12. CASE /\ Stream(c)' = sent[c]
            /\ failed' = failed \cup {c} /\ dropped' = dropped \cup {c}
  <2>1. StreamFlows(c)' = Flows(sent[c], Len(sent[c])) BY <1>12 DEF StreamFlows
  <2>2. c \in dropped' /\ c \in failed' BY <1>12
  <2>3. Good(Stream(c)', given'[c], c \in dropped')
    <3>1. (c \in dropped') = TRUE BY <2>2
    <3>2. QED BY <1>9, <1>12, <3>1
  <2>4. QED BY <1>3, <1>4, <1>5, <1>8, <1>10, <1>12, <2>1, <2>2, <2>3
<1>13. QED BY <1>3, <1>11, <1>12

LEMMA EmitFlowsInv ==
  ASSUME IInv, EmitFlows
  PROVE  IInv'
<1>1. Exporting /\ cur \in Collectors BY Cur DEF Exporting, EmitFlows
<1>2. PICK c \in Collectors : c = cur BY <1>1
<1>3. TypeOK /\ CollectorInv(c) BY DEF IInv
<1>4. /\ phase = "emitFlows" /\ phase' = "setStats" /\ todo' = todo /\ Emit
      /\ UNCHANGED <<records, left, appended, ready, ctx, alive, tmpl, count, given>>
  BY DEF EmitFlows
<1>5. /\ \A y \in Collectors \ {c} :
           /\ sent'[y] = sent[y] /\ pending'[y] = pending[y]
           /\ (y \in failed') = (y \in failed) /\ (y \in dropped') = (y \in dropped)
      /\ sent' \in [Collectors -> Seq(Items)]
      /\ pending' \in [Collectors -> Seq(Items)]
      /\ failed' \subseteq Collectors /\ dropped' \subseteq failed'
      /\ Good(Stream(c)', given'[c], c \in dropped')
      /\ StreamFlows(c)' <= StreamFlows(c)
      /\ StreamFlows(c) \in Nat /\ StreamFlows(c)' \in Nat
      /\ Stream(c) = <<>> => Stream(c)' = <<>>
      /\ c \notin dropped' => Stream(c)' = Stream(c) /\ c \notin dropped
      /\ c \notin failed' =>
           /\ Stream(c)' = Stream(c) /\ StreamFlows(c)' = StreamFlows(c)
           /\ pending'[c] = <<>> /\ c \notin failed
  BY <1>2, <1>4, Emitted
<1>6. TypeOK' /\ ObjectsGoWithContext'
  <2>1. /\ left' \in Nat /\ appended' \in Nat
        /\ tmpl' \in [Collectors -> [int : Templates, ext : Templates]]
        /\ count' \in [Collectors -> [flows : Nat, msgs : Nat]]
    BY <1>3, <1>4 DEF TypeOK
  <2>2. phase' \in Running BY <1>4 DEF Running
  <2>3. QED BY <1>1, <1>4, <1>5, <2>1, <2>2, StayTypes
<1>7. \A y \in Collectors \ {c} : Untouched(y) BY <1>4, <1>5 DEF Untouched
<1>8. /\ Turns' /\ Role(c) = "emitFlows" /\ Role(c)' = "setStats"
      /\ \A y \in Collectors \ {c} : CollectorInv(y)'
  BY <1>1, <1>2, <1>4, <1>7, OthersStay DEF Running
<1>9. /\ Open(c)' = Open(c) /\ Owed(c)' = Owed(c) /\ OwedOne(c)' = OwedOne(c)
      /\ Open(c) \in Nat /\ count[c].flows \in Nat /\ ctx[c] = "live"
  BY <1>3, <1>4, <1>8
     DEF Open, Owed, OwedOne, Counted, Counting, TypeOK, CollectorInv, CallInv, Running
<1>10. StreamInv(c)'
  BY <1>3, <1>4, <1>5, <1>8 DEF StreamInv, CollectorInv, Running
<1>11. CountInv(c)'
  BY <1>3, <1>4, <1>5, <1>8, <1>9 DEF CountInv, CollectorInv
<1>12. CallInv(c)' BY <1>4, <1>8, <1>9 DEF CallInv
<1>13. c \notin failed' => Healthy(c)'
  BY <1>3, <1>4, <1>5, <1>8, <1>9 DEF Healthy, CollectorInv
<1>14. QED BY <1>6, <1>8, <1>10, <1>11, <1>12, <1>13 DEF IInv, CollectorInv

LEMMA EmitStatsInv ==
  ASSUME IInv, EmitStats
  PROVE  IInv'
<1>1. Exporting /\ cur \in Collectors BY Cur DEF Exporting, EmitStats
<1>2. PICK c \in Collectors : c = cur BY <1>1
<1>3. TypeOK /\ Turns /\ CollectorInv(c) BY DEF IInv
<1>4. /\ phase = "emitStats" /\ Emit /\ Return
      /\ UNCHANGED <<records, left, appended, ready, ctx, alive, tmpl, count, given>>
  BY DEF EmitStats
<1>5. /\ \A y \in Collectors \ {c} :
           /\ sent'[y] = sent[y] /\ pending'[y] = pending[y]
           /\ (y \in failed') = (y \in failed) /\ (y \in dropped') = (y \in dropped)
      /\ sent' \in [Collectors -> Seq(Items)]
      /\ pending' \in [Collectors -> Seq(Items)]
      /\ failed' \subseteq Collectors /\ dropped' \subseteq failed'
      /\ Good(Stream(c)', given'[c], c \in dropped')
      /\ StreamFlows(c)' <= StreamFlows(c)
      /\ StreamFlows(c) \in Nat /\ StreamFlows(c)' \in Nat
      /\ Stream(c) = <<>> => Stream(c)' = <<>>
      /\ c \notin failed' =>
           /\ Stream(c)' = Stream(c) /\ StreamFlows(c)' = StreamFlows(c)
           /\ pending'[c] = <<>> /\ c \notin failed
  BY <1>2, <1>4, Emitted
<1>6. /\ Role(c)' = "done" /\ Turns'
      /\ \A y \in Collectors \ {c} : Role(y)' = Role(y)
      /\ todo' \in Seq(Collectors) /\ phase' \in {"idle", "init"}
      /\ (phase' = "init" => todo' # <<>>)
  BY <1>1, <1>2, <1>3, <1>4, RoleReturns
<1>7. /\ Role(c) = "emitStats"
      /\ \A y \in Collectors \ {c} : Role(y) \in {"init", "done"}
  BY <1>1, <1>2, <1>3, <1>4, RoleNow
<1>8. TypeOK' BY <1>3, <1>4, <1>5, <1>6 DEF TypeOK, Phases
<1>9. ObjectsGoWithContext' BY <1>4, <1>6 DEF IInv, ObjectsGoWithContext
<1>10. ASSUME NEW y \in Collectors \ {c} PROVE CollectorInv(y)'
  <2>1. Untouched(y) BY <1>4, <1>5 DEF Untouched
  <2>2. QED BY <1>4, <1>6, <1>7, <2>1, Others
<1>11. /\ Open(c) = 0 /\ Owed(c) = 0 /\ OwedOne(c) = 0
       /\ Open(c)' = 0 /\ Owed(c)' = 0 /\ OwedOne(c)' = 0
       /\ count[c].flows \in Nat /\ ctx[c] = "live" /\ given[c].msgs > 0
  BY <1>3, <1>6, <1>7
     DEF Open, Owed, OwedOne, Counted, Counting, TypeOK, CollectorInv, CallInv, CountInv, Running
<1>12. StreamInv(c)'
  BY <1>4, <1>5, <1>6, <1>11 DEF StreamInv, Running
<1>13. CountInv(c)'
  BY <1>3, <1>4, <1>5, <1>6, <1>11 DEF CountInv, CollectorInv
<1>14. CallInv(c)' BY <1>6 DEF CallInv, Running
<1>15. c \notin failed' => Healthy(c)'
  BY <1>3, <1>4, <1>5, <1>6, <1>7, <1>11 DEF Healthy, CollectorInv
<1>16. QED BY <1>6, <1>8, <1>9, <1>10, <1>12, <1>13, <1>14, <1>15 DEF IInv, CollectorInv

LEMMA ExitInv ==
  ASSUME IInv, Exit
  PROVE  IInv'
<1>1. TypeOK /\ todo = <<>> BY DEF IInv, Turns, Exit
<1>2. /\ phase' \in {"exited", "undefined"} /\ todo' = todo
      /\ pending' = [x \in Collectors |-> <<>>]
      /\ alive' = [x \in Collectors |-> IF ctx[x] = "live" THEN {} ELSE alive[x]]
      /\ UNCHANGED <<records, left, appended, ready, ctx, tmpl, count, sent, given,
                     failed, dropped>>
  BY DEF Exit
<1>3. TypeOK'
  <2>1. pending' \in [Collectors -> Seq(Items)] BY <1>2, Empty
  <2>2. alive' \in [Collectors -> SUBSET First(4)] BY <1>1, <1>2 DEF TypeOK
  <2>3. phase' \in Phases /\ phase' \in {"idle", "exited", "undefined"} BY <1>2 DEF Phases
  <2>4. QED BY <1>1, <1>2, <2>1, <2>2, <2>3 DEF TypeOK
<1>4. Turns' BY <1>1, <1>2 DEF IInv, Turns
<1>5. ObjectsGoWithContext' BY <1>2 DEF IInv, ObjectsGoWithContext, Exit
<1>6. ASSUME NEW x \in Collectors PROVE CollectorInv(x)'
  <2>1. Role(x) = "done" /\ Role(x)' = "done"
    <3>1. DOMAIN todo = {} BY <1>1, TurnFacts
    <3>2. QED BY <1>2, <3>1 DEF Role, InTodo
  <2>2. CollectorInv(x) BY DEF IInv
  <2>3. /\ sent[x] \in Seq(Items) /\ pending[x] \in Seq(Items)
        /\ Stream(x) = sent[x] \o pending[x] /\ given[x] \in Totals
    BY <1>1 DEF TypeOK, Stream, Totals
  <2>4. Stream(x)' = sent[x] BY <1>2, <2>3, ConcatEmptySeq DEF Stream
  <2>5. StreamFlows(x)' = Flows(sent[x], Len(sent[x])) BY <2>4 DEF StreamFlows
  <2>6. /\ StreamFlows(x)' <= StreamFlows(x)
        /\ StreamFlows(x)' \in Nat /\ StreamFlows(x) \in Nat
    BY <2>3, <2>5, FlowsPrefix DEF StreamFlows
  <2>7. Stream(x) = <<>> => Stream(x)' = <<>>
    <3>1. sent[x] \o pending[x] = <<>> => sent[x] = <<>> BY <2>3, ConcatIsEmpty
    <3>2. QED BY <2>3, <2>4, <3>1
  <2>8. Good(Stream(x)', given'[x], x \in dropped')
    <3> DEFINE lost == x \in dropped
    <3>1. lost \in BOOLEAN /\ Good(sent[x] \o pending[x], given[x], lost)
      BY <2>2, <2>3 DEF CollectorInv, StreamInv
    <3> HIDE DEF lost
    <3>2. Good(sent[x], given[x], lost) BY <2>3, <3>1, GoodPrefix
    <3>3. QED BY <1>2, <2>4, <3>2 DEF lost
  <2>9. /\ Open(x) = 0 /\ Owed(x) = 0 /\ OwedOne(x) = 0
        /\ Open(x)' = 0 /\ Owed(x)' = 0 /\ OwedOne(x)' = 0
        /\ count[x].flows \in Nat
    BY <1>1, <2>1 DEF Open, Owed, OwedOne, Counted, Counting, TypeOK
  <2>10. StreamInv(x)'
    BY <1>2, <2>1, <2>2, <2>7, <2>8 DEF StreamInv, CollectorInv, Running
  <2>11. CountInv(x)' BY <1>2, <2>1, <2>2, <2>6, <2>9 DEF CountInv, CollectorInv
  <2>12. CallInv(x)' BY <2>1 DEF CallInv, Running
  <2>13. x \notin failed' => Healthy(x)'
    <3> SUFFICES ASSUME x \notin failed PROVE Healthy(x)' BY <1>2
    <3>1. Healthy(x) /\ pending[x] = <<>> BY <2>1, <2>2 DEF CollectorInv, Healthy
    <3>2. Stream(x)' = Stream(x) BY <2>3, <2>4, <3>1, ConcatEmptySeq
    <3>3. StreamFlows(x)' = StreamFlows(x) BY <3>2 DEF StreamFlows
    <3>4. QED BY <1>2, <2>1, <2>9, <3>1, <3>2, <3>3 DEF Healthy
  <2>14. QED BY <2>10, <2>11, <2>12, <2>13 DEF CollectorInv
<1>7. QED BY <1>3, <1>4, <1>5, <1>6 DEF IInv

LEMMA StepInv == IInv /\ [Next]_vars => IInv'
<1> SUFFICES ASSUME IInv, [Next]_vars PROVE IInv' OBVIOUS
<1>1. CASE StartCycle
  <2>1. PICK n \in 1 .. MaxRecords : BeginCycle(n) BY <1>1 DEF StartCycle
  <2>2. n \in Nat BY ExporterAssumption
  <2>3. QED BY <2>1, <2>2, StartCycleInv
<1>2. CASE ExportInit BY <1>2, ExportInitInv
<1>3. CASE UseContext BY <1>3, UseContextInv
<1>4. CASE OpenFails BY <1>4, OpenFailsInv
<1>5. CASE UseFreed BY <1>5, UseFreedInv
<1>6. CASE ExportTemplates BY <1>6, ExportTemplatesInv
<1>7. CASE SetFlowTemplates BY <1>7, SetFlowTemplatesInv
<1>8. CASE AppendRecord BY <1>8, AppendRecordInv
<1>9. CASE RecordsDone BY <1>9, RecordsDoneInv
<1>10. CASE EmitFlows BY <1>10, EmitFlowsInv
<1>11. CASE SetStatsTemplates BY <1>11, SetStatsTemplatesInv
<1>12. CASE AppendStats BY <1>12, AppendStatsInv
<1>13. CASE EmitStats BY <1>13, EmitStatsInv
<1>14. CASE Exit BY <1>14, ExitInv
<1>15. CASE UNCHANGED vars
  <2>1. TypeOK' /\ Turns' /\ ObjectsGoWithContext'
    BY <1>15 DEF IInv, TypeOK, Turns, ObjectsGoWithContext, vars
  <2>2. ASSUME NEW x \in Collectors PROVE CollectorInv(x)'
    <3>1. CollectorInv(x) BY DEF IInv
    <3>2. /\ Stream(x)' = Stream(x) /\ Role(x)' = Role(x)
      BY <1>15 DEF Stream, Role, InTodo, cur, vars
    <3>3. /\ StreamFlows(x)' = StreamFlows(x) /\ Open(x)' = Open(x)
          /\ Owed(x)' = Owed(x) /\ OwedOne(x)' = OwedOne(x)
      BY <1>15, <3>2 DEF StreamFlows, Open, Owed, OwedOne, Counted, vars
    <3>4. StreamInv(x)' BY <1>15, <3>1, <3>2 DEF StreamInv, CollectorInv, vars
    <3>5. CountInv(x)' BY <1>15, <3>1, <3>2, <3>3 DEF CountInv, CollectorInv, vars
    <3>6. CallInv(x)' BY <1>15, <3>1, <3>2 DEF CallInv, CollectorInv, vars
    <3>7. x \notin failed' => Healthy(x)'
      BY <1>15, <3>1, <3>2, <3>3 DEF Healthy, CollectorInv, vars
    <3>8. QED BY <3>4, <3>5, <3>6, <3>7 DEF CollectorInv
  <2>3. QED BY <2>1, <2>2 DEF IInv
<1>16. QED
  BY <1>1, <1>2, <1>3, <1>4, <1>5, <1>6, <1>7, <1>8, <1>9, <1>10, <1>11, <1>12,
     <1>13, <1>14, <1>15 DEF Next

(***************************************************************************)
(* The theorems.                                                           *)
(***************************************************************************)
\* The invariant holds in every reachable state, whatever calls fail.
THEOREM Invariance == Spec => []IInv
<1>1. Init => IInv BY InitInv
<1>2. IInv /\ [Next]_vars => IInv' BY StepInv
<1>3. QED BY <1>1, <1>2, PTL DEF Spec

\* Every variable keeps its type.
THEOREM TypeCorrect == Spec => []TypeOK
<1>1. IInv => TypeOK BY DEF IInv
<1>2. QED BY <1>1, Invariance, PTL

\* A context in use has all its objects, and its buffer goes with it, however
\* the libfixbuf calls of any number of cycles fail (nvipfix_export).
THEOREM ObjectsFreed == Spec => []ObjectsGoWithContext
<1>1. IInv => ObjectsGoWithContext BY DEF IInv
<1>2. QED BY <1>1, Invariance, PTL

\* What has been sent to a collector is the beginning of a good stream.
LEMMA SentGood ==
  ASSUME IInv, NEW x \in Collectors
  PROVE  /\ Good(sent[x], given[x], x \in dropped)
         /\ DOMAIN sent[x] = 1 .. Len(sent[x])
         /\ sent[x] \in Seq(Items) /\ Len(sent[x]) \in Nat
<1>1. /\ sent[x] \in Seq(Items) /\ pending[x] \in Seq(Items)
      /\ given[x] \in Totals /\ Good(Stream(x), given[x], x \in dropped)
  BY DEF IInv, TypeOK, Totals, CollectorInv, StreamInv
<1> DEFINE lost == x \in dropped
<1>2. lost \in BOOLEAN /\ Good(sent[x] \o pending[x], given[x], lost) BY <1>1 DEF Stream
<1> HIDE DEF lost
<1>3. Good(sent[x], given[x], lost) BY <1>1, <1>2, GoodPrefix
<1>4. QED BY <1>1, <1>3, LenProperties DEF lost

\* A collector can decode what it is sent, whatever failed for it before: the
\* templates in use are those of the item's kind, and were sent before it.
THEOREM SentDecodable == Spec => []Decodable
<1>1. IInv => Decodable
  <2> SUFFICES ASSUME IInv, NEW x \in Collectors, NEW i \in DOMAIN sent[x],
                      sent[x][i].kind # "templates"
               PROVE  /\ sent[x][i].with = [int |-> sent[x][i].kind, ext |-> sent[x][i].kind]
                      /\ x \notin dropped =>
                           \E j \in 1 .. i - 1 : sent[x][j].kind = "templates"
    BY DEF Decodable
  <2>1. Good(sent[x], given[x], x \in dropped) /\ i \in 1 .. Len(sent[x])
        /\ sent[x] \in Seq(Items)
    BY SentGood
  <2>2. sent[x] # <<>>
    <3>1. Len(sent[x]) # 0 BY <2>1, SentGood
    <3>2. QED BY <2>1, <3>1, EmptySeq
  <2>3. Coded(sent[x][i]) BY <2>1 DEF Good
  <2>4. x \notin dropped => sent[x][1].kind = "templates" BY <2>1, <2>2 DEF Good
  <2>5. x \notin dropped => i # 1 BY <2>4
  <2>6. x \notin dropped => 1 \in 1 .. i - 1 BY <2>1, <2>5, SentGood
  <2>7. QED BY <2>3, <2>4, <2>6 DEF Coded
<1>2. QED BY <1>1, Invariance, PTL

\* The totals in the stats records a collector gets cover the flow records it
\* got before them, and never exceed what it was given, in any cycle.
THEOREM StatsCover == Spec => []StatsCoverFlows
<1>1. IInv => StatsCoverFlows
  <2> SUFFICES ASSUME IInv, NEW x \in Collectors, NEW i \in DOMAIN sent[x],
                      sent[x][i].kind = "stats"
               PROVE  /\ Flows(sent[x], i) <= sent[x][i].count.flows
                      /\ sent[x][i].count.flows <= given[x].flows
                      /\ sent[x][i].count.msgs <= given[x].msgs
    BY DEF StatsCoverFlows
  <2>1. Good(sent[x], given[x], x \in dropped) /\ i \in 1 .. Len(sent[x]) BY SentGood
  <2>2. Covered(sent[x], i, given[x]) BY <2>1 DEF Good
  <2>3. QED BY <2>2 DEF Covered
<1>2. QED BY <1>1, Invariance, PTL

\* Between cycles a collector without failures has all it was given.
LEMMA HealthyInv == IInv => HealthyGetAll
<1> SUFFICES ASSUME IInv, phase = "idle", NEW x \in Collectors \ failed
             PROVE  /\ Flows(sent[x], Len(sent[x])) = given[x].flows
                    /\ sent[x] # <<>> => sent[x][Len(sent[x])].count = given[x]
                    /\ given[x].msgs > 0 => sent[x] # <<>>
  BY DEF HealthyGetAll
<1>1. TypeOK /\ todo = <<>> BY DEF IInv, Turns
<1>2. Role(x) = "done"
  <2>1. DOMAIN todo = {} BY <1>1, TurnFacts
  <2>2. QED BY <2>1 DEF Role, InTodo
<1>3. Healthy(x) /\ StreamInv(x) BY DEF IInv, CollectorInv
<1>4. pending[x] = <<>> /\ sent[x] \in Seq(Items) BY <1>1, <1>2, <1>3 DEF Healthy, TypeOK
<1>5. Stream(x) = sent[x] BY <1>4, ConcatEmptySeq DEF Stream
<1>6. /\ Owed(x) = 0 /\ Open(x) = 0
      /\ count[x].flows \in Nat /\ given[x].flows \in Nat /\ given[x].msgs \in Nat
  BY <1>1, <1>2 DEF Owed, Open, Counted, Counting, TypeOK
<1>7. Flows(sent[x], Len(sent[x])) = given[x].flows
  BY <1>3, <1>5, <1>6 DEF Healthy, StreamFlows
<1>8. given[x].msgs = 0 => sent[x] = <<>> BY <1>3, <1>5 DEF StreamInv
<1>9. given[x].msgs > 0 => sent[x] # <<>> /\ sent[x][Len(sent[x])].count = given[x]
  BY <1>2, <1>3, <1>5 DEF Healthy
<1>10. QED BY <1>6, <1>7, <1>8, <1>9

\* Between cycles a collector none of whose calls failed has every record of
\* every cycle, whatever the failures of the others did to the loop.
THEOREM HealthyComplete == Spec => []HealthyGetAll
<1>1. QED BY HealthyInv, Invariance, PTL

(***************************************************************************)
(* What it takes for the exporter to use a context that is gone.           *)
(***************************************************************************)
\* The calls behind the store of the context's pointer, whose error path frees
\* the context and leaves the pointer.
FreeingFaults == {"open", "templates", "set"}

\* A pointer to a freed context is the mark of such a call that failed.
Blamed(x) == ctx[x] = "freed" => x \in failed \cap Faulty /\ FreeingFaults \cap Faults # {}

BlameInv ==
  /\ \A x \in Collectors : Blamed(x)
  /\ phase = "undefined" => \E x \in Collectors : ctx[x] = "freed"

\* A step that frees no context, and one that frees that of the current collector.
LEMMA NoneFreed ==
  ASSUME IInv, BlameInv, failed \subseteq failed',
         \A x \in Collectors : ctx'[x] = "freed" => ctx[x] = "freed"
  PROVE  \A x \in Collectors : Blamed(x)'
BY DEF BlameInv, Blamed

LEMMA CurrentFreed ==
  ASSUME IInv, BlameInv, Exporting, ctx' = [ctx EXCEPT ![cur] = "freed"], Failed,
         NEW kind \in FreeingFaults, MayFail(kind)
  PROVE  \A x \in Collectors : Blamed(x)'
<1> SUFFICES ASSUME NEW x \in Collectors, ctx'[x] = "freed"
             PROVE  x \in failed' \cap Faulty /\ FreeingFaults \cap Faults # {}
  BY DEF Blamed
<1>1. ctx \in [Collectors -> {"null", "live", "freed"}] BY DEF IInv, TypeOK
<1>2. CASE x = cur BY <1>2 DEF Failed, MayFail
<1>3. CASE x # cur
  <2>1. ctx[x] = "freed" BY <1>1, <1>3
  <2>2. x \in failed \cap Faulty /\ FreeingFaults \cap Faults # {}
    BY <2>1 DEF BlameInv, Blamed
  <2>3. QED BY <2>2 DEF Failed
<1>4. QED BY <1>2, <1>3

LEMMA BlameStep == IInv /\ BlameInv /\ [Next]_vars => BlameInv'
<1> SUFFICES ASSUME IInv, BlameInv, [Next]_vars PROVE BlameInv' OBVIOUS
<1>1. ctx \in [Collectors -> {"null", "live", "freed"}] BY DEF IInv, TypeOK
<1>2. CASE StartCycle
  <2>1. UNCHANGED <<ctx, failed>> /\ phase' # "undefined"
    BY <1>2 DEF StartCycle, BeginCycle
  <2>2. QED BY <2>1, NoneFreed DEF BlameInv
<1>3. CASE ExportInit
  <2>1. ctx' = ctx /\ failed \subseteq failed' /\ phase' # "undefined"
    BY <1>3 DEF ExportInit, Failed, Return
  <2>2. QED BY <2>1, NoneFreed DEF BlameInv
<1>4. CASE UseContext
  <2>1. failed \subseteq failed' /\ phase' # "undefined"
    BY <1>4 DEF UseContext, Failed, Return
  <2>2. ASSUME NEW x \in Collectors, ctx'[x] = "freed" PROVE ctx[x] = "freed"
    BY <1>1, <1>4, <2>2 DEF UseContext
  <2>3. QED BY <2>1, <2>2, NoneFreed DEF BlameInv
<1>5. CASE OpenFails
  <2>1. /\ ctx' = [ctx EXCEPT ![cur] = "freed"] /\ Failed /\ MayFail("open")
        /\ phase' # "undefined" /\ Exporting
    BY <1>5 DEF OpenFails, Return, Exporting
  <2>2. "open" \in FreeingFaults BY DEF FreeingFaults
  <2>3. QED BY <2>1, <2>2, CurrentFreed DEF BlameInv
<1>6. CASE UseFreed
  <2>1. Exporting /\ ctx[cur] = "freed" /\ UNCHANGED <<ctx, failed>>
    BY <1>6 DEF UseFreed, Exporting
  <2>2. QED BY <2>1, Cur, NoneFreed DEF BlameInv
<1>7. CASE ExportTemplates \/ SetFlowTemplates \/ SetStatsTemplates
  <2>1. phase' # "undefined" /\ Exporting
    BY <1>7 DEF ExportTemplates, SetFlowTemplates, SetStatsTemplates, FreeAndReturn, Return,
                Exporting
  <2>2. CASE UNCHANGED <<ctx, failed>> BY <2>1, <2>2, NoneFreed DEF BlameInv
  <2>3. CASE \E kind \in {"templates", "set"} : MayFail(kind) /\ FreeAndReturn
    <3>1. PICK kind \in {"templates", "set"} : MayFail(kind) /\ FreeAndReturn BY <2>3
    <3>2. kind \in FreeingFaults BY DEF FreeingFaults
    <3>3. ctx' = [ctx EXCEPT ![cur] = "freed"] /\ Failed BY <3>1 DEF FreeAndReturn
    <3>4. QED BY <2>1, <3>1, <3>2, <3>3, CurrentFreed DEF BlameInv
  <2>4. QED BY <1>7, <2>2, <2>3 DEF ExportTemplates, SetFlowTemplates, SetStatsTemplates
<1>8. CASE AppendRecord \/ RecordsDone \/ EmitFlows \/ AppendStats \/ EmitStats
  <2>1. ctx' = ctx /\ failed \subseteq failed' /\ phase' # "undefined"
    BY <1>8 DEF AppendRecord, RecordsDone, EmitFlows, AppendStats, EmitStats, Emit,
                BufAppends, BufAppendFails, Failed, Return
  <2>2. QED BY <2>1, NoneFreed DEF BlameInv
<1>9. CASE Exit
  <2>1. UNCHANGED <<ctx, failed>> BY <1>9 DEF Exit
  <2>2. phase' = "undefined" => \E x \in Collectors : ctx[x] = "freed" BY <1>9 DEF Exit
  <2>3. QED BY <2>1, <2>2, NoneFreed DEF BlameInv
<1>10. CASE UNCHANGED vars
  <2>1. UNCHANGED <<ctx, failed, phase>> BY <1>10 DEF vars
  <2>2. QED BY <2>1, NoneFreed DEF BlameInv
<1>11. QED
  BY <1>2, <1>3, <1>4, <1>5, <1>6, <1>7, <1>8, <1>9, <1>10 DEF Next

LEMMA Blame == Spec => []BlameInv
<1>1. Init => BlameInv BY DEF Init, BlameInv, Blamed
<1>2. IInv /\ BlameInv /\ [Next]_vars => BlameInv' BY BlameStep
<1>3. QED BY <1>1, <1>2, Invariance, PTL DEF Spec

\* As long as no call has failed, in however many cycles, the exporter neither
\* goes on with a context that is gone nor frees one twice at its exit.
THEOREM DefinedWhileNoneFailed == Spec => [](failed = {} => KeepsExporting)
<1>1. BlameInv => (failed = {} => KeepsExporting) BY DEF BlameInv, Blamed, KeepsExporting
<1>2. QED BY <1>1, Blame, PTL

\* Of all failures only those behind the store of the context's pointer make a
\* later export undefined: if a session can always be opened and its templates
\* be set and exported, the exporter keeps exporting, though init, the context,
\* appends and emits fail for any collector in any cycle (nvipfix_export).
THEOREM ExportsThroughFailures ==
  ASSUME FreeingFaults \cap Faults = {}
  PROVE  Spec => []KeepsExporting
<1>1. BlameInv => KeepsExporting BY DEF BlameInv, Blamed, KeepsExporting
<1>2. QED BY <1>1, Blame, PTL

(***************************************************************************)
(* Every call brings the end of the exports of a cycle nearer: collectors  *)
(* are left to serve, or calls for the one it is, or records to append.    *)
(***************************************************************************)
CallsLeft ==
  CASE phase = "init"        -> 9 [] phase = "exportTemplates" -> 8
    [] phase = "setFlow"     -> 7 [] phase = "append"          -> 6
    [] phase = "emitFlows"   -> 5 [] phase = "setStats"        -> 4
    [] phase = "appendStats" -> 3 [] phase = "emitStats"       -> 2
    [] phase = "idle"        -> 1 [] OTHER                     -> 0

Nearer ==
  \/ Len(todo') < Len(todo)
  \/ /\ todo' = todo
     /\ \/ CallsLeft' < CallsLeft
        \/ CallsLeft' = CallsLeft /\ left' < left

LEMMA StepNearer ==
  ASSUME TypeOK, Next, ~StartCycle
  PROVE  Nearer
<1>1. CASE Exit BY <1>1 DEF Exit, Nearer, CallsLeft
<1>2. ASSUME Exporting, Return PROVE Nearer
  <2>1. todo # <<>> /\ todo \in Seq(Collectors) BY <1>2 DEF TypeOK, Exporting
  <2>2. Len(todo') = Len(todo) - 1 /\ Len(todo) \in Nat
    BY <1>2, <2>1, HeadTailProperties, LenProperties DEF Return
  <2>3. QED BY <2>2 DEF Nearer
<1>3. CASE ExportInit \/ OpenFails \/ EmitStats
  BY <1>2, <1>3 DEF ExportInit, OpenFails, EmitStats, Exporting
<1>4. CASE UseFreed \/ RecordsDone \/ EmitFlows \/ AppendStats
  BY <1>4 DEF UseFreed, RecordsDone, EmitFlows, AppendStats, Nearer, CallsLeft
<1>5. CASE AppendRecord
  <2>1. left \in Nat /\ left' = left - 1 /\ todo' = todo /\ phase' = phase
    BY <1>5 DEF AppendRecord, TypeOK
  <2>2. CallsLeft' = CallsLeft BY <2>1 DEF CallsLeft
  <2>3. QED BY <2>1, <2>2 DEF Nearer
<1>6. CASE UseContext
  <2>1. Return \/ (UNCHANGED todo /\ phase' = "exportTemplates")
    BY <1>6, Zenon DEF UseContext
  <2>2. phase = "init" BY <1>6 DEF UseContext
  <2>3. QED BY <1>2, <2>1, <2>2 DEF Exporting, Nearer, CallsLeft
<1>7. CASE ExportTemplates
  <2>1. Return \/ (UNCHANGED todo /\ phase' = "setFlow")
    BY Zenon, <1>7 DEF ExportTemplates, FreeAndReturn
  <2>2. phase = "exportTemplates" BY <1>7 DEF ExportTemplates
  <2>3. QED BY <1>2, <2>1, <2>2 DEF Exporting, Nearer, CallsLeft
<1>8. CASE SetFlowTemplates
  <2>1. Return \/ (UNCHANGED todo /\ phase' = "append")
    BY Zenon, <1>8 DEF SetFlowTemplates, FreeAndReturn
  <2>2. phase = "setFlow" BY <1>8 DEF SetFlowTemplates
  <2>3. QED BY <1>2, <2>1, <2>2 DEF Exporting, Nearer, CallsLeft
<1>9. CASE SetStatsTemplates
  <2>1. Return \/ (UNCHANGED todo /\ phase' = "appendStats")
    BY Zenon, <1>9 DEF SetStatsTemplates, FreeAndReturn
  <2>2. phase = "setStats" BY <1>9 DEF SetStatsTemplates
  <2>3. QED BY <1>2, <2>1, <2>2 DEF Exporting, Nearer, CallsLeft
<1>10. QED BY <1>1, <1>3, <1>4, <1>5, <1>6, <1>7, <1>8, <1>9 DEF Next

\* Once a cycle has begun, each call of nvipfix_export, failing or not, and the
\* exit leave less to do: no failure makes the loops over the collectors and
\* over the records start again (main.c 43-53, export.c 326-376).
THEOREM ExportsEnd == Spec => [][StartCycle \/ Nearer]_vars
<1>1. TypeOK /\ [Next]_vars => [StartCycle \/ Nearer]_vars BY StepNearer
<1>2. QED BY <1>1, TypeCorrect, PTL DEF Spec
=============================================================================

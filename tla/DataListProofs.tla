--------------------------- MODULE DataListProofs ---------------------------
(***************************************************************************)
(* Lemmas about the record list, for any set of addresses: what an         *)
(* importer that adds records, and a loop that frees them, keep true.      *)
(***************************************************************************)
EXTENDS DataList, SequenceTheorems, WellFoundedInduction, TLAPS

(***************************************************************************)
(* WellLinked is preserved as long as a record is only added while no loop *)
(* frees records, and the loop frees the first record.                     *)
(***************************************************************************)
Building == cursor = Null /\ (list <=> order # <<>>)
Freeing  == cursor = IF order = <<>> THEN Null ELSE order[1]

\* What TypeOK says of order, for SMT.
LEMMA OrderFacts ==
  ASSUME ListTypeOK
  PROVE  /\ Len(order) \in Nat /\ DOMAIN order = 1 .. Len(order)
         /\ \A i \in 1 .. Len(order) : order[i] \in Records
         /\ order = <<>> <=> Len(order) = 0
<1>1. order \in Seq(Records) BY DEF ListTypeOK
<1>2. QED BY <1>1, LenProperties, ElementOfSeq, EmptySeq

LEMMA ListStarts ==
  ASSUME ListInit
  PROVE  ListTypeOK /\ WellLinked /\ Building /\ order = <<>>
<1> USE DEF ListInit
<1>1. <<>> \in Seq(Records) BY EmptySeq
<1>2. ListTypeOK BY <1>1 DEF ListTypeOK, Pointer
<1>3. Listed = {} BY DEF Listed
<1>4. DOMAIN order = {} /\ Len(order) = 0 BY EmptySeq
<1>5. WellLinked BY <1>3, <1>4 DEF WellLinked
<1>6. QED BY <1>2, <1>5 DEF Building

\* What the copy does to the links of its record is undone by linking it.
LEMMA CopiedLinks ==
  ASSUME ListTypeOK, NEW r \in Records
  PROVE  /\ Copied(next, r) \in [Records -> Pointer]
         /\ Copied(prev, r) \in [Records -> Pointer]
         /\ \A t : [Copied(next, r) EXCEPT ![t] = r, ![r] = Null]
                    = [next EXCEPT ![t] = r, ![r] = Null]
         /\ \A p : [Copied(prev, r) EXCEPT ![r] = p] = [prev EXCEPT ![r] = p]
         /\ [Copied(next, r) EXCEPT ![r] = Null] = [next EXCEPT ![r] = Null]
BY DEF ListTypeOK, Copied, Pointer

\* A record that was just allocated becomes the last one of the list.
LEMMA AddSucceeds ==
  ASSUME ListTypeOK, WellLinked, Building, AddCopySucceeds
  PROVE  ListTypeOK' /\ WellLinked' /\ Building'
<1>1. PICK r \in Records \ live :
        /\ live' = live \cup {r} /\ tail' = r /\ list' = TRUE
        /\ order' = Append(order, r)
        /\ leaked' = leaked /\ cursor' = cursor
        /\ IF list THEN LinkAfterTail(r, Copied(next, r), Copied(prev, r))
                   ELSE LinkFirst(r, Copied(next, r), Copied(prev, r))
  BY DEF AddCopySucceeds
<1>1a. /\ list => /\ prev' = [prev EXCEPT ![r] = tail]
                   /\ next' = [next EXCEPT ![tail] = r, ![r] = Null]
                   /\ head' = head
       /\ ~list => /\ prev' = [prev EXCEPT ![r] = Null]
                    /\ next' = [next EXCEPT ![r] = Null]
                    /\ head' = r
  BY <1>1, CopiedLinks DEF ListTypeOK, LinkAfterTail, LinkFirst
<1>2. /\ order' \in Seq(Records)
      /\ Len(order') = Len(order) + 1
      /\ \A i \in 1 .. Len(order) : order'[i] = order[i]
      /\ order'[Len(order) + 1] = r
      /\ order' # <<>>
  BY <1>1, AppendProperties DEF ListTypeOK
<1>3. DOMAIN order' = 1 .. Len(order) + 1
  BY <1>2, LenProperties
<1>4. ListTypeOK'
  <2>1. r \in Pointer /\ Null \in Pointer BY DEF Pointer
  <2>2. /\ next' \in [Records -> Pointer] /\ prev' \in [Records -> Pointer]
        /\ head' \in Pointer
    <3>1. CASE list BY <1>1, <1>1a, <2>1, <3>1 DEF ListTypeOK
    <3>2. CASE ~list BY <1>1, <1>1a, <2>1, <3>2 DEF ListTypeOK
    <3>3. QED BY <3>1, <3>2
  <2>3. live' \subseteq Records /\ leaked' \subseteq Records
    BY <1>1 DEF ListTypeOK
  <2>4. QED BY <1>1, <1>2, <2>1, <2>2, <2>3 DEF ListTypeOK
<1>5. \A i \in 1 .. Len(order) : order[i] \in live /\ order[i] # r
  BY <1>1, OrderFacts DEF WellLinked, Listed
<1>6. /\ next'[r] = Null
      /\ \A i \in 1 .. Len(order) :
           i # Len(order) => next'[order[i]] = next[order[i]]
      /\ \A i \in 1 .. Len(order) : prev'[order[i]] = prev[order[i]]
  <2>1. CASE list
    <3>1. tail = order[Len(order)] /\ Len(order) > 0
      BY <2>1, OrderFacts DEF WellLinked, Building
    <3>2. ASSUME NEW i \in 1 .. Len(order), i # Len(order) PROVE order[i] # tail
      <4>1. i \in DOMAIN order /\ Len(order) \in DOMAIN order
        BY <3>1, OrderFacts
      <4>2. QED BY <3>1, <3>2, <4>1 DEF WellLinked
    <3>3. /\ next' = [next EXCEPT ![tail] = r, ![r] = Null]
          /\ prev' = [prev EXCEPT ![r] = tail]
      BY <1>1a, <2>1
    <3>4. tail \in Records /\ r \in Records BY <3>1, <1>1, OrderFacts
    <3>5. next'[r] = Null BY <3>3, <3>4 DEF ListTypeOK
    <3>6. ASSUME NEW i \in 1 .. Len(order)
          PROVE  /\ i # Len(order) => next'[order[i]] = next[order[i]]
                 /\ prev'[order[i]] = prev[order[i]]
      BY <1>5, <3>2, <3>3, <3>4, OrderFacts DEF ListTypeOK
    <3>7. QED BY <3>5, <3>6
  <2>2. CASE ~list
    BY <1>1, <1>1a, <1>5, <2>2, OrderFacts DEF ListTypeOK
  <2>3. QED BY <2>1, <2>2
<1>7. order # <<>> => next'[order[Len(order)]] = r /\ prev'[r] = order[Len(order)]
  <2> SUFFICES ASSUME order # <<>>
      PROVE next'[order[Len(order)]] = r /\ prev'[r] = order[Len(order)]
    OBVIOUS
  <2>1. Len(order) \in 1 .. Len(order) /\ list /\ tail = order[Len(order)]
    BY OrderFacts DEF WellLinked, Building
  <2>2. tail \in Records /\ tail # r BY <1>5, <2>1, OrderFacts
  <2>3. /\ next' = [next EXCEPT ![tail] = r, ![r] = Null]
        /\ prev' = [prev EXCEPT ![r] = tail]
    BY <1>1a, <2>1
  <2>4. next'[tail] = r /\ prev'[r] = tail
    BY <1>1, <2>2, <2>3 DEF ListTypeOK
  <2>5. QED BY <2>1, <2>4
<1>8. head' = order'[1] /\ prev'[head'] = Null
  <2>1. CASE list
    <3>1. Len(order) > 0 /\ head = order[1] /\ prev[head] = Null
      BY <2>1, OrderFacts DEF WellLinked, Building
    <3>2. head' = head BY <1>1a, <2>1
    <3>3. 1 \in 1 .. Len(order) BY <3>1, OrderFacts
    <3>4. order'[1] = order[1] /\ prev'[order[1]] = prev[order[1]]
      BY <1>2, <1>6, <3>3
    <3>5. QED BY <3>1, <3>2, <3>4
  <2>2. CASE ~list
    <3>1. Len(order) = 0 BY <2>2, OrderFacts DEF Building
    <3>2. QED BY <1>1, <1>1a, <1>2, <2>2, <3>1 DEF ListTypeOK
  <2>3. QED BY <2>1, <2>2
<1>9. \A i \in 1 .. Len(order') - 1 :
        next'[order'[i]] = order'[i + 1] /\ prev'[order'[i + 1]] = order'[i]
  <2> SUFFICES ASSUME NEW i \in 1 .. Len(order)
      PROVE next'[order'[i]] = order'[i + 1] /\ prev'[order'[i + 1]] = order'[i]
    BY <1>2, OrderFacts
  <2>1. CASE i = Len(order)
    <3>1. order # <<>> BY <2>1, OrderFacts
    <3>2. order'[i] = order[Len(order)] /\ order'[i + 1] = r BY <1>2, <2>1
    <3>3. QED BY <1>7, <3>1, <3>2
  <2>2. CASE i # Len(order)
    <3>0. Len(order) \in Nat BY OrderFacts
    <3>1. i \in 1 .. Len(order) - 1 /\ i + 1 \in 1 .. Len(order)
      BY <2>2, <3>0
    <3>2. next[order[i]] = order[i + 1] /\ prev[order[i + 1]] = order[i]
      BY <3>1 DEF WellLinked
    <3>3. QED BY <1>2, <1>6, <2>2, <3>1, <3>2
  <2>3. QED BY <2>1, <2>2
<1>10. \A i, j \in DOMAIN order' : order'[i] = order'[j] => i = j
  BY <1>2, <1>3, <1>5, OrderFacts DEF WellLinked
<1>11. Listed' = Listed \cup {r}
  BY <1>2, <1>3, OrderFacts DEF Listed
<1>12. r \notin leaked /\ r \notin Listed BY <1>1 DEF WellLinked
<1>13. live' = Listed' \cup leaked' /\ Listed' \cap leaked' = {}
  BY <1>1, <1>11, <1>12 DEF WellLinked
<1>14. tail' = order'[Len(order')] /\ next'[tail'] = Null
  BY <1>1, <1>2, <1>6
<1>15. WellLinked' BY <1>1, <1>8, <1>9, <1>10, <1>13, <1>14 DEF WellLinked
<1>16. QED BY <1>1, <1>2, <1>4, <1>15 DEF Building

\* A failed addition changes nothing in the list; it may leak its record.
LEMMA AddFails ==
  ASSUME ListTypeOK, WellLinked, Building, AddCopyFails
  PROVE  ListTypeOK' /\ WellLinked' /\ Building'
<1>1. UNCHANGED <<list, head, tail, order, cursor>>
  BY DEF AddCopyFails
<1>2. \/ UNCHANGED <<next, prev, live, leaked>>
      \/ \E r \in Records \ live :
           /\ ~list
           /\ live' = live \cup {r} /\ leaked' = leaked \cup {r}
           /\ next' = Copied(next, r) /\ prev' = Copied(prev, r)
  BY DEF AddCopyFails
<1>3. Listed' = Listed BY <1>1 DEF Listed
<1>4. live' = Listed' \cup leaked' /\ Listed' \cap leaked' = {}
  BY <1>2, <1>3 DEF WellLinked
<1>5. ListTypeOK'
  <2>1. next' \in [Records -> Pointer] /\ prev' \in [Records -> Pointer]
    <3>1. CASE UNCHANGED <<next, prev, live, leaked>> BY <3>1 DEF ListTypeOK
    <3>2. ASSUME NEW r \in Records \ live,
                 next' = Copied(next, r), prev' = Copied(prev, r)
          PROVE  next' \in [Records -> Pointer] /\ prev' \in [Records -> Pointer]
      BY <3>2, CopiedLinks
    <3>3. QED BY <1>2, <3>1, <3>2
  <2>2. QED BY <1>1, <1>2, <2>1 DEF ListTypeOK
<1>6. WellLinked'
  <2>1. CASE list
    <3>1. next' = next /\ prev' = prev BY <1>2, <2>1
    <3>2. QED BY <1>1, <1>4, <3>1 DEF WellLinked
  <2>2. CASE ~list
    <3>1. order = <<>> /\ Len(order) = 0 /\ DOMAIN order = {}
      BY <2>2, OrderFacts, EmptySeq DEF Building
    <3>2. QED BY <1>1, <1>4, <2>2, <3>1 DEF WellLinked
  <2>3. QED BY <2>1, <2>2
<1>7. QED BY <1>1, <1>5, <1>6 DEF Building

\* The loop that frees the list starts at its first record.
LEMMA FreeStarts ==
  ASSUME ListTypeOK, WellLinked, Building, FreeBegins
  PROVE  ListTypeOK' /\ WellLinked' /\ Freeing' /\ Listed' = Listed
<1>1. /\ cursor' = IF list THEN head ELSE Null
      /\ UNCHANGED <<list, head, tail, next, prev, live, order, leaked>>
  BY DEF FreeBegins
<1>2. order # <<>> => head = order[1] /\ order[1] \in Records
  BY OrderFacts DEF WellLinked, Building
<1>3. Freeing' BY <1>1, <1>2 DEF Freeing, Building
<1>4. Listed' = Listed BY <1>1 DEF Listed
<1>5. cursor' = Null => order = <<>> BY <1>1, <1>2, DataListAssumption DEF Building
<1>6. WellLinked' BY <1>1, <1>4, <1>5 DEF WellLinked
<1>7. cursor' \in Pointer BY <1>1 DEF ListTypeOK, Pointer
<1>8. ListTypeOK' BY <1>1, <1>7 DEF ListTypeOK
<1>9. QED BY <1>3, <1>4, <1>6, <1>8

\* One turn of the loop: the first record goes, its successor is the next.
LEMMA FreeFirst ==
  ASSUME ListTypeOK, WellLinked, Freeing, FreeRecord
  PROVE  ListTypeOK' /\ WellLinked' /\ Freeing'
<1>1. order # <<>> /\ cursor = order[1] /\ Len(order) \in Nat \ {0}
  BY OrderFacts DEF Freeing, FreeRecord
<1>2. /\ cursor' = next[cursor] /\ live' = live \ {cursor}
      /\ order' = SubSeq(order, 2, Len(order))
      /\ UNCHANGED <<list, head, tail, next, prev, leaked>>
  BY DEF FreeRecord
<1>3. /\ order' \in Seq(Records)
      /\ Len(order') = Len(order) - 1
      /\ \A i \in 1 .. Len(order) - 1 : order'[i] = order[i + 1]
  <2>1. \A i \in 2 .. Len(order) : order[i] \in Records
    BY <1>1, OrderFacts
  <2>2. /\ order' \in Seq(Records)
        /\ Len(order') = IF 2 <= Len(order) THEN Len(order) - 2 + 1 ELSE 0
        /\ \A i \in 1 .. Len(order) - 2 + 1 : order'[i] = order[2 + i - 1]
    BY <1>1, <1>2, <2>1, SubSeqProperties
  <2>3. Len(order') = Len(order) - 1
    <3> DEFINE n == Len(order)
               m == Len(order')
    <3>1. m = IF 2 <= n THEN n - 2 + 1 ELSE 0 BY <2>2
    <3>2. n \in Nat \ {0} BY <1>1
    <3> HIDE DEF n, m
    <3>3. m = n - 1 BY <3>1, <3>2
    <3>4. QED BY <3>3 DEF n, m
  <2>4. ASSUME NEW i \in 1 .. Len(order) - 1 PROVE order'[i] = order[i + 1]
    <3>1. i \in 1 .. Len(order) - 2 + 1 /\ 2 + i - 1 = i + 1 BY <1>1
    <3>2. order'[i] = order[2 + i - 1] BY <2>2, <3>1
    <3>3. QED BY <3>1, <3>2
  <2>5. QED BY <2>2, <2>3, <2>4
<1>3a. Len(order) \in Nat \ {0} /\ Len(order') = Len(order) - 1 BY <1>1, <1>3
<1>3b. Len(order') - 1 = Len(order) - 2 BY <1>3a
<1>4. DOMAIN order' = 1 .. Len(order) - 1 BY <1>3, LenProperties
<1>5. order' = <<>> <=> Len(order) = 1 BY <1>1, <1>3, EmptySeq
<1>6. next[cursor] \in Pointer BY <1>1, OrderFacts DEF ListTypeOK
<1>7. ListTypeOK' BY <1>2, <1>3, <1>6 DEF ListTypeOK
<1>8. Freeing'
  <2>1. CASE Len(order) = 1
    BY <1>1, <1>2, <1>5, <2>1 DEF WellLinked, Freeing
  <2>2. CASE Len(order) # 1
    <3>1. 1 \in 1 .. Len(order) - 1 BY <1>3a, <2>2
    <3>2. next[order[1]] = order[1 + 1] BY <3>1 DEF WellLinked
    <3>3. order'[1] = order[1 + 1] BY <1>3, <3>1
    <3>4. QED BY <1>1, <1>2, <1>5, <2>2, <3>2, <3>3 DEF Freeing
  <2>3. QED BY <2>1, <2>2
<1>9. order' # <<>> => list' /\ tail' = order'[Len(order')] /\ next'[tail'] = Null
  <2> SUFFICES ASSUME Len(order) # 1
      PROVE list' /\ tail' = order'[Len(order')] /\ next'[tail'] = Null
    BY <1>5
  <2>1. order'[Len(order')] = order[Len(order)] BY <1>1, <1>3
  <2>2. QED BY <1>1, <1>2, <2>1 DEF WellLinked
<1>10. \A i \in 1 .. Len(order') - 1 :
         next'[order'[i]] = order'[i + 1] /\ prev'[order'[i + 1]] = order'[i]
  <2> SUFFICES ASSUME NEW i \in 1 .. Len(order) - 2
      PROVE next[order'[i]] = order'[i + 1] /\ prev[order'[i + 1]] = order'[i]
    BY <1>2, <1>3b
  <2>1. i + 1 \in 1 .. Len(order) - 1 /\ i \in 1 .. Len(order) - 1 BY <1>3a
  <2>2. order'[i] = order[i + 1] /\ order'[i + 1] = order[i + 1 + 1]
    BY <1>3, <2>1
  <2>3. /\ next[order[i + 1]] = order[i + 1 + 1]
        /\ prev[order[i + 1 + 1]] = order[i + 1]
    BY <2>1 DEF WellLinked
  <2>4. QED BY <2>2, <2>3
<1>11. \A i, j \in DOMAIN order' : order'[i] = order'[j] => i = j
  <2> SUFFICES ASSUME NEW i \in 1 .. Len(order) - 1, NEW j \in 1 .. Len(order) - 1,
                      order[i + 1] = order[j + 1]
      PROVE i = j
    BY <1>3, <1>4
  <2>1. i + 1 \in DOMAIN order /\ j + 1 \in DOMAIN order BY <1>1, OrderFacts
  <2>2. i + 1 = j + 1 BY <2>1 DEF WellLinked
  <2>3. QED BY <2>2
<1>12. Listed' = Listed \ {cursor}
  <2>1. \A i \in 1 .. Len(order) - 1 :
          /\ i + 1 \in DOMAIN order /\ order[i + 1] # order[1]
    BY <1>1, OrderFacts DEF WellLinked
  <2>2. Listed' = {order[i + 1] : i \in 1 .. Len(order) - 1}
    BY <1>3, <1>4 DEF Listed
  <2>3. ASSUME NEW k \in DOMAIN order, order[k] # order[1]
        PROVE \E i \in 1 .. Len(order) - 1 : order[k] = order[i + 1]
    <3>1. k - 1 \in 1 .. Len(order) - 1 /\ k = k - 1 + 1
      BY <1>3a, <2>3, OrderFacts
    <3>2. QED BY <3>1
  <2>4. Listed' \subseteq Listed \ {cursor}
    BY <1>1, <2>1, <2>2 DEF Listed
  <2>5. Listed \ {cursor} \subseteq Listed'
    BY <1>1, <2>2, <2>3 DEF Listed
  <2>6. QED BY <2>4, <2>5
<1>13. live' = Listed' \cup leaked' /\ Listed' \cap leaked' = {}
  <2>1. cursor \in Listed BY <1>1, OrderFacts DEF Listed
  <2>2. QED BY <1>2, <1>12, <2>1 DEF WellLinked
<1>14. list' /\ cursor' = Null => order' = <<>>
  <2>1. order' # <<>> => order'[1] \in Records
    BY <1>3, <1>4, <1>5, <1>1, ElementOfSeq
  <2>2. QED BY <1>8, <2>1, DataListAssumption DEF Freeing
<1>15. WellLinked' BY <1>9, <1>10, <1>11, <1>13, <1>14 DEF WellLinked
<1>16. QED BY <1>7, <1>8, <1>15

\* The loop ends when no record is left, and the header goes.
LEMMA FreeEnds ==
  ASSUME ListTypeOK, WellLinked, Freeing, FreeHeader
  PROVE  ListTypeOK' /\ WellLinked' /\ Building' /\ order' = <<>> /\ ~list'
<1>1. /\ cursor = Null /\ list' = FALSE
      /\ UNCHANGED <<head, tail, next, prev, live, order, leaked, cursor>>
  BY DEF FreeHeader
<1>2. order = <<>> BY <1>1, OrderFacts, DataListAssumption DEF Freeing
<1>3. Listed' = Listed BY <1>1 DEF Listed
<1>4. WellLinked' BY <1>1, <1>2, <1>3 DEF WellLinked
<1>5. ListTypeOK' BY <1>1 DEF ListTypeOK
<1>6. QED BY <1>1, <1>2, <1>4, <1>5 DEF Building

\* The loop is at a record that is allocated.
LEMMA CursorLive ==
  ASSUME ListTypeOK, WellLinked, Freeing, cursor # Null
  PROVE  cursor = order[1] /\ cursor \in Listed /\ cursor \in live
<1>1. cursor = order[1] /\ 1 \in DOMAIN order BY OrderFacts DEF Freeing
<1>2. QED BY <1>1 DEF WellLinked, Listed

\* What refers to the list only is unchanged if the list is.
LEMMA SameList ==
  ASSUME UNCHANGED listVars
  PROVE  /\ ListTypeOK' = ListTypeOK /\ WellLinked' = WellLinked
         /\ Building' = Building /\ Freeing' = Freeing /\ Listed' = Listed
BY DEF listVars, ListTypeOK, WellLinked, Building, Freeing, Listed

(***************************************************************************)
(* What is left to do is measured by several numbers, of which the first   *)
(* to change falls; it cannot do so forever.                               *)
(***************************************************************************)
Measures(n) == [1 .. n -> Nat]
Descent(n)  == LexProductOrdering(OpToRel(<, Nat), Nat, n)

LEMMA DescentEnds ==
  ASSUME NEW n \in Nat
  PROVE  IsWellFoundedOn(Descent(n), Measures(n))
<1>1. IsWellFoundedOn(OpToRel(<, Nat), Nat) BY NatLessThanWellFounded
<1>2. QED BY <1>1, WFLexProductOrdering DEF Descent, Measures

LEMMA Descends ==
  ASSUME NEW n \in Nat, NEW s \in Measures(n), NEW t \in Measures(n),
         NEW j \in 1 .. n, t[j] < s[j], \A i \in 1 .. j - 1 : t[i] = s[i]
  PROVE  <<t, s>> \in Descent(n)
<1>1. s[j] \in Nat /\ t[j] \in Nat BY DEF Measures
<1>2. <<t[j], s[j]>> \in OpToRel(<, Nat) BY <1>1 DEF OpToRel
<1>3. <<t, s>> \in Measures(n) \X Measures(n) OBVIOUS
<1>4. QED BY <1>2, <1>3 DEF Descent, LexProductOrdering, Measures
=============================================================================

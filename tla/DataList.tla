------------------------------ MODULE DataList ------------------------------
(***************************************************************************)
(* The list of data records (data.c): a header with head and tail, and     *)
(* records linked both ways, all from malloc.  The operators are the       *)
(* effects of the functions; a module that EXTENDS this one calls them.    *)
(***************************************************************************)
EXTENDS Naturals, Sequences

CONSTANTS
  Records,   \* the addresses malloc can return for a record
  Null

ASSUME DataListAssumption == Null \notin Records

VARIABLES
  list,      \* the caller's pointer: TRUE if it points to a header
  head,
  tail,
  next,
  prev,
  live,      \* the records that are allocated
  order,     \* history: the records of the list, in the order they came
  leaked,    \* history: records allocated that no list ever got
  cursor     \* the loop variable of nvipfix_data_list_free

listVars == <<list, head, tail, next, prev, live, order, leaked, cursor>>

Pointer == Records \cup {Null}

ListInit ==
  /\ list = FALSE
  /\ head = Null /\ tail = Null
  /\ next = [r \in Records |-> Null]
  /\ prev = [r \in Records |-> Null]
  /\ live = {} /\ order = <<>> /\ leaked = {}
  /\ cursor = Null

-----------------------------------------------------------------------------
(***************************************************************************)
(* Variants of the code with a plausible mistake; no action uses them.     *)
(***************************************************************************)
\* The old tail does not learn of its successor.
LinkBackOnly(r, nx, pv) ==
  /\ prev' = [pv EXCEPT ![r] = tail]
  /\ next' = [nx EXCEPT ![r] = Null]
  /\ UNCHANGED head

\* The new record's successor is taken from the list as its predecessor is: the
\* end of the list leads back to its head.
LinkAsRing(r, nx, pv) ==
  /\ prev' = [pv EXCEPT ![r] = tail]
  /\ next' = [nx EXCEPT ![tail] = r, ![r] = head]
  /\ UNCHANGED head

\* The successor is read only after the record was freed.
FreeBeforeNext ==
  /\ cursor # Null
  /\ live' = live \ {cursor}
  /\ order' = SubSeq(order, 2, Len(order))
  /\ cursor' \in Pointer
  /\ UNCHANGED <<list, head, tail, next, prev, leaked>>

-----------------------------------------------------------------------------
\* nvipfix_data_list_add for a list that is there.
LinkAfterTail(r, nx, pv) ==
  /\ prev' = [pv EXCEPT ![r] = tail]
  /\ next' = [nx EXCEPT ![tail] = r, ![r] = Null]
  /\ UNCHANGED head

\* nvipfix_data_list_add for a NULL list, once the header is allocated.
LinkFirst(r, nx, pv) ==
  /\ prev' = [pv EXCEPT ![r] = Null]
  /\ next' = [nx EXCEPT ![r] = Null]
  /\ head' = r

\* *record = *a_record: the caller's record is a local of zeros (import.c 158
\* and 283) that no list has had, and so are the links of the copy.
Copied(link, r) == [link EXCEPT ![r] = Null]

\* nvipfix_data_list_add_copy, and the caller that keeps its list unless it
\* gets a new one.
AddCopySucceeds ==
  \E r \in Records \ live :
    /\ live' = live \cup {r}
    /\ IF list THEN LinkAfterTail(r, Copied(next, r), Copied(prev, r))
               ELSE LinkFirst(r, Copied(next, r), Copied(prev, r))
    /\ tail' = r
    /\ list' = TRUE
    /\ order' = Append(order, r)
    /\ UNCHANGED <<leaked, cursor>>

\* No memory for the record; or for the header, and then the record is lost.
AddCopyFails ==
  /\ \/ UNCHANGED <<next, prev, live, leaked>>
     \/ /\ ~list
        /\ \E r \in Records \ live :
             /\ live' = live \cup {r} /\ leaked' = leaked \cup {r}
             /\ next' = Copied(next, r) /\ prev' = Copied(prev, r)
  /\ UNCHANGED <<list, head, tail, order, cursor>>

\* nvipfix_data_list_free, one turn of its loop at a time.
FreeBegins ==
  /\ cursor' = IF list THEN head ELSE Null
  /\ UNCHANGED <<list, head, tail, next, prev, live, order, leaked>>

FreeRecord ==
  /\ cursor # Null
  /\ cursor' = next[cursor]
  /\ live' = live \ {cursor}
  /\ order' = SubSeq(order, 2, Len(order))
  /\ UNCHANGED <<list, head, tail, next, prev, leaked>>

FreeHeader ==
  /\ cursor = Null
  /\ list' = FALSE
  /\ UNCHANGED <<head, tail, next, prev, live, order, leaked, cursor>>

-----------------------------------------------------------------------------
ListTypeOK ==
  /\ list \in BOOLEAN
  /\ head \in Pointer /\ tail \in Pointer /\ cursor \in Pointer
  /\ next \in [Records -> Pointer] /\ prev \in [Records -> Pointer]
  /\ live \subseteq Records /\ leaked \subseteq Records
  /\ order \in Seq(Records)

Listed == {order[i] : i \in DOMAIN order}

\* Following next from the head, and prev from the tail, visits the records in
\* the order they were added; exactly they and the leaked ones are allocated.
WellLinked ==
  /\ list /\ cursor = Null =>
       order = <<>> \/ (head = order[1] /\ prev[head] = Null)
  /\ order # <<>> => list /\ tail = order[Len(order)] /\ next[tail] = Null
  /\ \A i \in 1 .. Len(order) - 1 :
       next[order[i]] = order[i + 1] /\ prev[order[i + 1]] = order[i]
  /\ \A i, j \in DOMAIN order : order[i] = order[j] => i = j
  /\ live = Listed \cup leaked /\ Listed \cap leaked = {}

=============================================================================

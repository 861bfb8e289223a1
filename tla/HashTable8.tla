----------------------------- MODULE HashTable8 -----------------------------
(***************************************************************************)
(* The hash table of src/src/types.c (nvipfix_hashtable8_...): an array of *)
(* 255 root nodes inside the table, one for each hash of 8 bits but the    *)
(* last, and under each root a binary search tree of the keys with that    *)
(* hash.  A node is named by its place, <<bucket, path>>, the path being   *)
(* the turns from the root to it, so that the pointers lt and gt are the   *)
(* places that exist.  A root with a key of no length is an empty one.     *)
(*                                                                         *)
(* The first add makes the table and settles whether it copies and frees   *)
(* its values (`owns'); later adds ignore the functions they bring.  Every *)
(* malloc and every copy may fail.                                         *)
(***************************************************************************)
EXTENDS Naturals, Sequences

CONSTANTS
  Keys,      \* the keys the callers use, each a sequence of bytes
  Hash,      \* the hash of each, of 8 bits
  Values,    \* the values they store
  NoValue,   \* the NULL pointer as a value
  Copies,    \* the memory blocks the copies of values are made in
  NoCopy     \* the block of a value that is the caller's own

ASSUME KeysAssumption == Keys \subseteq Seq(0 .. 255)
ASSUME HashAssumption == Hash \in [Keys -> 0 .. 255]
ASSUME ValuesAssumption == NoValue \notin Values /\ NoCopy \notin Copies

VARIABLES
  table,     \* the caller holds a table
  owns,      \* it copies and frees its values
  node,      \* what is at each place: a key, a value and the copy's block
  live,      \* the blocks in use: the key each copy was made for
  answer,    \* the last call: its name, its key and what it returned
  beyond     \* a call went to nodes[255], outside the array

vars == <<table, owns, node, live, answer, beyond>>

\* Shorter keys first, keys of one length as memcmp orders them.
Before(k, n) ==
  \/ Len(k) < Len(n)
  \/ /\ Len(k) = Len(n)
     /\ \E i \in DOMAIN k : k[i] < n[i] /\ SubSeq(k, 1, i - 1) = SubSeq(n, 1, i - 1)

Turn(k, n) == IF Before(k, n) THEN "lt" ELSE "gt"

Root(k) == <<Hash[k], <<>>>>

RootEmpty(k) == Root(k) \notin DOMAIN node \/ node[Root(k)].key = <<>>

\* The search for k, from the root down, goes along this path.
Passes(k, path) ==
  \A i \in DOMAIN path :
    LET at == <<Hash[k], SubSeq(path, 1, i - 1)>> IN
      at \in DOMAIN node /\ node[at].key # k /\ path[i] = Turn(k, node[at].key)

\* The node the search stops at: none, or the one that has the key.
Found(k) ==
  IF RootEmpty(k) THEN {}
  ELSE {p \in DOMAIN node : p[1] = Hash[k] /\ node[p].key = k /\ Passes(k, p[2])}

ValueOf(k) == IF Found(k) # {} THEN node[CHOOSE p \in Found(k) : TRUE].value ELSE NoValue

(* Variants of the code with a plausible mistake; no action uses them. *)

\* A new node is always linked at lt.
TargetsLeft(k) ==
  IF RootEmpty(k) THEN {Root(k)}
  ELSE IF Found(k) # {} THEN Found(k)
  ELSE {p \in {<<Hash[k], Append(q[2], "lt")>> : q \in DOMAIN node} : p \notin DOMAIN node}

-----------------------------------------------------------------------------
\* The place of the node an add of k returns: an empty root, the node that
\* has the key, or the empty place where the search ends.
Targets(k) ==
  IF RootEmpty(k) THEN {Root(k)}
  ELSE IF Found(k) # {} THEN Found(k)
  ELSE {p \in {<<Hash[k], Append(q[2], turn)>> : q \in DOMAIN node, turn \in {"lt", "gt"}} :
          p \notin DOMAIN node /\ Passes(k, p[2])}

\* What the node at p has before the call stores a value: the root's old
\* value stays when the root is given a key, a new node has none.
Held(p) == IF p \in DOMAIN node THEN node[p].copy ELSE NoCopy

Without(p) == [c \in DOMAIN live \ {Held(p)} |-> live[c]]

SetNode(p, k, v, c) ==
  node' = [q \in DOMAIN node \cup {p} |->
             IF q = p THEN [key |-> k, value |-> v, copy |-> c] ELSE node[q]]

Init ==
  /\ table = FALSE /\ owns = FALSE
  /\ node = <<>> /\ live = <<>>
  /\ answer = <<"new">> /\ beyond = FALSE

-----------------------------------------------------------------------------
(* Variants of the code with a plausible mistake; no action uses them. *)

\* The node keeps the value that was freed.
AddCopyFailsKeeping(k, v) ==
  \E p \in Targets(k) :
    /\ Hash[k] # 255
    /\ v # NoValue
    /\ table => owns
    /\ live' = Without(p)
    /\ answer' = <<"add", k, FALSE>>
    /\ UNCHANGED <<table, owns, node, beyond>>

\* The walk stops one bucket early.
BucketsButLast == 0 .. 253

-----------------------------------------------------------------------------
(* Operations *)

\* Any call with a table and a key of hash 255 reads, and may write, what
\* lies after the array: the model follows the program no further.
Beyond(k) ==
  /\ Hash[k] = 255
  /\ beyond' = TRUE
  /\ UNCHANGED <<table, owns, node, live, answer>>

\* The add stores the caller's pointer, in a table that does not own.
AddPointer(k, v) ==
  \E p \in Targets(k) :
    /\ Hash[k] # 255
    /\ table => ~owns
    /\ SetNode(p, k, v, NoCopy)
    /\ table' = TRUE /\ owns' = FALSE
    /\ answer' = <<"add", k, TRUE>>
    /\ UNCHANGED <<live, beyond>>

\* The add frees the old copy, then stores a new one, perhaps in the same
\* block.  A copy of NULL is NULL.
AddCopy(k, v) ==
  \E p \in Targets(k) :
    /\ Hash[k] # 255
    /\ table => owns
    /\ IF v = NoValue
       THEN /\ SetNode(p, k, NoValue, NoCopy)
            /\ live' = Without(p)
       ELSE \E c \in Copies \ DOMAIN Without(p) :
              /\ SetNode(p, k, v, c)
              /\ live' = [d \in DOMAIN Without(p) \cup {c} |-> IF d = c THEN k ELSE live[d]]
    /\ table' = TRUE /\ owns' = TRUE
    /\ answer' = <<"add", k, TRUE>>
    /\ UNCHANGED beyond

\* The value cannot be copied: the old one is gone all the same, and a table
\* made for this add is given up.
AddCopyFails(k, v) ==
  \E p \in Targets(k) :
    /\ Hash[k] # 255
    /\ v # NoValue
    /\ table => owns
    /\ live' = Without(p)
    /\ IF table THEN SetNode(p, k, NoValue, NoCopy) ELSE UNCHANGED node
    /\ answer' = <<"add", k, FALSE>>
    /\ UNCHANGED <<table, owns, beyond>>

\* There is no memory for the table, or for the node and its key.
AddNoMemory(k) ==
  /\ ~table \/ (Hash[k] # 255 /\ Found(k) = {})
  /\ answer' = <<"add", k, FALSE>>
  /\ UNCHANGED <<table, owns, node, live, beyond>>

Get(k) ==
  /\ Hash[k] # 255 \/ ~table
  /\ answer' = <<"get", k, ValueOf(k)>>
  /\ UNCHANGED <<table, owns, node, live, beyond>>

\* Every tree is walked, those whose root is empty left out, and the caller
\* forgets the table.
Buckets == 0 .. 254

Freed(c) ==
  \E p \in DOMAIN node :
    /\ p[1] \in Buckets /\ node[<<p[1], <<>>>>].key # <<>>
    /\ node[p].copy = c

Free ==
  /\ table
  /\ live' = [c \in {d \in DOMAIN live : ~Freed(d)} |-> live[c]]
  /\ table' = FALSE /\ owns' = FALSE
  /\ node' = <<>>
  /\ answer' = <<"free">>
  /\ UNCHANGED beyond

Add(k, v) == AddPointer(k, v) \/ AddCopy(k, v) \/ AddCopyFails(k, v) \/ AddNoMemory(k)

Next ==
  /\ ~beyond
  /\ \/ \E k \in Keys, v \in Values \cup {NoValue} : Add(k, v)
     \/ \E k \in Keys : Get(k) \/ Beyond(k)
     \/ Free

Spec == Init /\ [][Next]_vars

-----------------------------------------------------------------------------
(* Properties *)

\* The state is of these types, and a node is in a bucket the array has.
TypeOK ==
  /\ table \in BOOLEAN /\ owns \in BOOLEAN /\ beyond \in BOOLEAN
  /\ \A p \in DOMAIN node :
       /\ p[1] \in Buckets /\ \A i \in DOMAIN p[2] : p[2][i] \in {"lt", "gt"}
       /\ node[p] \in [key : Keys, value : Values \cup {NoValue}, copy : Copies \cup {NoCopy}]
  /\ DOMAIN live \subseteq Copies /\ \A c \in DOMAIN live : live[c] \in Keys
  /\ answer[1] \in {"new", "add", "get", "free"}

\* nvipfix_hashtable8_get_or_add links a node where a later search for its
\* key passes: every key in the table but that of an empty root is found, in
\* one node only, however the tree has grown since.
EveryKeyFound ==
  \A p \in DOMAIN node : node[p].key # <<>> \/ p[2] # <<>> => Found(node[p].key) = {p}

\* nvipfix_hashtable8_add and _free release each copy once: no two nodes
\* share one, none has one that was freed, and one that no node has was made
\* for the empty key, which an empty root takes and nobody finds again.
CopiesOwned ==
  /\ \A p, q \in DOMAIN node : p # q /\ node[p].copy = node[q].copy => node[p].copy = NoCopy
  /\ \A p \in DOMAIN node : node[p].copy \in DOMAIN live \cup {NoCopy}
  /\ \A c \in DOMAIN live : live[c] = <<>> \/ \E p \in DOMAIN node : node[p].copy = c

\* The keys the table keeps its promise for: not the empty one, and none
\* with the hash the array has no bucket for.
KeptKeys == {k \in Keys : k # <<>> /\ Hash[k] # 255}

Map == INSTANCE KeyMap WITH
         Kept <- KeptKeys, None <- NoValue, map <- [k \in KeptKeys |-> ValueOf(k)]

\* For every key that is not empty and has a bucket, the table is the map its
\* callers take it for: an add or a failed add of one key, with whatever node
\* or tree it goes to, changes what that key has and no other.
ImplementsMap == Map!Spec
=============================================================================

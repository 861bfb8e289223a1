------------------------------- MODULE KeyMap -------------------------------
(***************************************************************************)
(* What a table of values by key promises its caller: a key has the value  *)
(* last put under it, a put that fails leaves its key without a value, and *)
(* no call changes what another key has.  The promise is for the keys of   *)
(* Kept; a call with any other key may answer anything.                    *)
(***************************************************************************)
CONSTANTS Keys, Kept, Values, None

VARIABLES
  map,     \* the value each kept key has, or None
  answer   \* the last call: its name, its key and what it returned

vars == <<map, answer>>

Init == map = [k \in Kept |-> None] /\ answer = <<"new">>

Put(k, v) ==
  /\ map' = [map EXCEPT ![k] = v]
  /\ answer' = <<"add", k, TRUE>>

PutFails(k) ==
  /\ map' = [map EXCEPT ![k] = None]
  /\ answer' = <<"add", k, FALSE>>

Get(k) == answer' = <<"get", k, map[k]>> /\ UNCHANGED map

Clear == map' = [k \in Kept |-> None] /\ answer' = <<"free">>

Other(k) ==
  /\ answer' \in {<<"add", k, ok>> : ok \in BOOLEAN}
                   \cup {<<"get", k, v>> : v \in Values \cup {None}}
  /\ UNCHANGED map

Next ==
  \/ \E k \in Kept, v \in Values \cup {None} : Put(k, v)
  \/ \E k \in Kept : PutFails(k) \/ Get(k)
  \/ \E k \in Keys \ Kept : Other(k)
  \/ Clear

Spec == Init /\ [][Next]_vars
=============================================================================

------------------------------- MODULE KeyedMap -------------------------------
(***************************************************************************)
(* What a Common Lisp hash table promises its callers: a finite map from   *)
(* keys to values, and the answer each call returns.  The one liberty it   *)
(* takes is that a question about a key that is not in the map may signal  *)
(* an error instead of answering no; it never changes the map by that.     *)
(***************************************************************************)
CONSTANTS Keys, Values, NoValue, Failed, Yes

VARIABLES
  map,       \* the entries
  reply      \* what the last call returned

Init == map = [k \in {} |-> NoValue] /\ reply = NoValue

\* (setf (gethash k table) v)
Put(k, v) ==
  /\ map' = [x \in DOMAIN map \cup {k} |-> IF x = k THEN v ELSE map[x]]
  /\ reply' = v

\* (gethash k table), and the walks, which hand out entries.
Get(k) == k \in DOMAIN map /\ reply' = map[k] /\ UNCHANGED map

\* (remhash k table)
Remove(k) ==
  /\ k \in DOMAIN map
  /\ map' = [x \in DOMAIN map \ {k} |-> map[x]]
  /\ reply' = Yes

\* gethash or remhash of a key that is not there.
Miss(k) == k \notin DOMAIN map /\ reply' \in {NoValue, Failed} /\ UNCHANGED map

\* (clrhash table)
Clear == map' = [k \in {} |-> NoValue] /\ UNCHANGED reply

Next ==
  \/ \E k \in Keys : Get(k) \/ Remove(k) \/ Miss(k) \/ \E v \in Values : Put(k, v)
  \/ Clear

Spec == Init /\ [][Next]_<<map, reply>>
===============================================================================

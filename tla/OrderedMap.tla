------------------------------ MODULE OrderedMap ------------------------------
(***************************************************************************)
(* What a map<K,V> promises a program: a finite set of keys with a value     *)
(* each, iterated in the order the keys were inserted.  Writing a present    *)
(* key keeps its place; removing it and inserting it again moves it to the   *)
(* end.                                                                     *)
(***************************************************************************)
EXTENDS Integers, Sequences, SequencesExt

CONSTANTS Keys, Values

\* The last operation, with what it was given and what it answered.
Answers == [op : {"none"}]
      \cup [op : {"put", "get"}, key : Keys, val : Values]
      \cup [op : {"contains", "delete"}, key : Keys, is : BOOLEAN]
      \cup [op : {"missing"}, key : Keys]

None            == [op |-> "none"]
Stored(k, v)    == [op |-> "put", key |-> k, val |-> v]
Value(k, v)     == [op |-> "get", key |-> k, val |-> v]
Missing(k)      == [op |-> "missing", key |-> k]
Contained(k, b) == [op |-> "contains", key |-> k, is |-> b]
Deleted(k, b)   == [op |-> "delete", key |-> k, is |-> b]

VARIABLES
  entries,  \* the sequence of <<key, value>> pairs
  res       \* the last operation and its answer
vars == <<entries, res>>

Present(k) == \E i \in DOMAIN entries : entries[i][1] = k
Place(k)   == CHOOSE i \in DOMAIN entries : entries[i][1] = k

Init == entries = <<>> /\ res = None

Put(k, v) ==
  /\ entries' = IF Present(k) THEN [entries EXCEPT ![Place(k)] = <<k, v>>]
                ELSE Append(entries, <<k, v>>)
  /\ res' = Stored(k, v)

Delete(k) ==
  /\ entries' = IF Present(k) THEN RemoveAt(entries, Place(k)) ELSE entries
  /\ res' = Deleted(k, Present(k))

Has(k) == res' = Contained(k, Present(k)) /\ UNCHANGED entries

Lookup(k) ==
  /\ res' = IF Present(k) THEN Value(k, entries[Place(k)][2]) ELSE Missing(k)
  /\ UNCHANGED entries

Next == \E k \in Keys : \/ \E v \in Values : Put(k, v)
                        \/ Delete(k) \/ Has(k) \/ Lookup(k)

Spec == Init /\ [][Next]_vars
=============================================================================

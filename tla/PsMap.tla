--------------------------------- MODULE PsMap ---------------------------------
(***************************************************************************)
(* The map of the native runtime, c/runtime/ps_map.c: an open addressing    *)
(* table with linear probing and tombstones, and an array of the keys in     *)
(* insertion order, under one iteration of the interpreter (iter_begin,      *)
(* branch_iter_has_next and iter_next of c/runtime/ps_vm.c).                 *)
(*                                                                         *)
(* Looking a key up probes at most cap slots and is one step here; the loop *)
(* of ps_map_set has no such bound and is modelled slot by slot.  A map is   *)
(* used by one thread, so nothing happens between the steps of a set.        *)
(***************************************************************************)
EXTENDS Integers, Sequences, SequencesExt

CONSTANTS
  Keys, Values,
  Hash,       \* hash_value: a natural number for every key
  InitCap,    \* the first capacity of the table and of the order, 8 in the code
  OutOfMemory, \* whether an allocation may fail
  Loops       \* whether the program loops over the map while it changes it

ASSUME HashAssumption == Hash \in [Keys -> Nat]
ASSUME CapAssumption  == InitCap \in Nat /\ InitCap >= 2
ASSUME OomAssumption  == OutOfMemory \in BOOLEAN /\ Loops \in BOOLEAN

Answer == INSTANCE OrderedMap WITH entries <- <<>>, res <- <<>>

\* A slot: never used, a tombstone, or an entry (used[i] = 0, 2, 1).
Free  == [used |-> 0]
Tomb  == [used |-> 2]
Full(k, v) == [used |-> 1, key |-> k, val |-> v]
Slots == {Free, Tomb} \cup [used : {1}, key : Keys, val : Values]

\* A set under way: the entry it writes, the slot it is at and the first
\* tombstone it passed, -1 for none.
Idle    == [k |-> "idle"]
Probing == [k : {"probing"}, key : Keys, val : Values, idx : Nat, tomb : Nat \cup {-1}]

NoIter  == [k |-> "none"]
\* An iteration: how many keys it has yielded.
Iters   == [k : {"iter"}, index : Nat]

Oom     == [op |-> "oom"]
Raised  == [op |-> "internal"]
Answers == Answer!Answers \cup {Oom, Raised}

VARIABLES
  table,  \* used, keys and values: the slots 0 .. cap - 1
  cap, len,
  order,  \* the keys in insertion order
  ocap,   \* order_cap: the room the order array has
  set,    \* the set under way
  iter,   \* the iteration under way
  res     \* the last operation and its answer
vars == <<table, cap, len, order, ocap, set, iter, res>>

TypeOK ==
  /\ cap \in Nat
  /\ table \in [0..(cap - 1) -> Slots]
  /\ len \in Nat
  /\ order \in Seq(Keys)
  /\ ocap \in Nat /\ Len(order) <= ocap
  /\ set \in Probing \cup {Idle}
  /\ set # Idle => set.idx < cap /\ set.tomb < cap
  /\ iter \in Iters \cup {NoIter}
  /\ res \in Answers

-----------------------------------------------------------------------------
IsEntry(slot, k) == slot.used = 1 /\ slot.key = k

\* The slots a search for k looks at, in order: the d-th of a table of c.
At(k, d, c) == (Hash[k] + d) % c

\* The searches of has_key, get and remove: the first entry of k that no free
\* slot comes before.
Hit(k, d) == /\ IsEntry(table[At(k, d, cap)], k)
             /\ \A e \in 0..(d - 1) : /\ table[At(k, e, cap)] # Free
                                      /\ ~IsEntry(table[At(k, e, cap)], k)
Found(k)  == \E d \in 0..(cap - 1) : Hit(k, d)
SlotOf(k) == At(k, CHOOSE d \in 0..(cap - 1) : Hit(k, d), cap)

\* Mutant of Needs: the table may be filled.
NeedsOne(c, need) == c < need

\* ensure_cap: the table is at least twice as large as the entries it must
\* hold; a new table gets the entries of the old one in the order of their
\* slots, and no tombstones.
Needs(c, need) == c < 2 * need
NewCap(need) ==
  LET first == IF cap = 0 THEN InitCap ELSE 2 * cap
      double[c \in Nat] == IF Needs(c, need) THEN double[2 * c] ELSE c
  IN  IF Needs(first, need) THEN double[2 * first] ELSE first
\* An entry goes to the first free slot of its search.
Insert(t, c, slot) ==
  LET free(d) == t[At(slot.key, d, c)] = Free
      d == CHOOSE d \in 0..(c - 1) : free(d) /\ \A e \in 0..(d - 1) : ~free(e)
  IN  [t EXCEPT ![At(slot.key, d, c)] = slot]
Rehashed(c) ==
  FoldLeft(LAMBDA t, slot : IF slot.used = 1 THEN Insert(t, c, slot) ELSE t,
           [i \in 0..(c - 1) |-> Free],
           [i \in 1..cap |-> table[i - 1]])

\* ensure_order_cap, for one key more.
OrderCap == IF Len(order) < ocap THEN ocap ELSE IF ocap = 0 THEN InitCap ELSE 2 * ocap

Init ==
  /\ table = <<>> /\ cap = 0 /\ len = 0 /\ order = <<>> /\ ocap = 0
  /\ set = Idle /\ iter = NoIter
  /\ res = Answer!None

-----------------------------------------------------------------------------
\* ps_map_set: room is made first, then the search for the key begins.
BeginSet(k, v) ==
  /\ set = Idle
  /\ cap' = IF Needs(cap, len + 1) THEN NewCap(len + 1) ELSE cap
  /\ table' = IF Needs(cap, len + 1) THEN Rehashed(cap') ELSE table
  /\ set' = [k |-> "probing", key |-> k, val |-> v, idx |-> Hash[k] % cap', tomb |-> -1]
  /\ UNCHANGED <<len, order, ocap, iter, res>>

\* The new table cannot be allocated.
NoTable(k) ==
  /\ OutOfMemory
  /\ set = Idle
  /\ Needs(cap, len + 1)
  /\ res' = Oom
  /\ UNCHANGED <<table, cap, len, order, ocap, set, iter>>

\* Mutants of the steps of a set: the value of a present key stays; the search
\* stops at a tombstone; it runs past the last slot; the entry is not counted.
FindsOnly ==
  /\ set # Idle
  /\ IsEntry(table[set.idx], set.key)
  /\ set' = Idle
  /\ res' = Answer!Stored(set.key, set.val)
  /\ UNCHANGED <<table, cap, len, order, ocap, iter>>
ProbesStuck ==
  /\ set # Idle
  /\ table[set.idx] # Free /\ ~IsEntry(table[set.idx], set.key)
  /\ set' = [set EXCEPT !.idx = IF table[set.idx] = Tomb THEN set.idx ELSE (set.idx + 1) % cap]
  /\ UNCHANGED <<table, cap, len, order, ocap, iter, res>>
ProbesPast ==
  /\ set # Idle
  /\ table[set.idx] # Free /\ ~IsEntry(table[set.idx], set.key)
  /\ set' = [set EXCEPT !.idx = set.idx + 1]
  /\ UNCHANGED <<table, cap, len, order, ocap, iter, res>>
InsertsUncounted ==
  /\ set # Idle
  /\ table[set.idx] = Free
  /\ table' = [table EXCEPT ![IF set.tomb = -1 THEN set.idx ELSE set.tomb]
                              = Full(set.key, set.val)]
  /\ order' = Append(order, set.key)
  /\ ocap' = OrderCap
  /\ set' = Idle
  /\ res' = Answer!Stored(set.key, set.val)
  /\ UNCHANGED <<cap, len, iter>>

\* The loop of ps_map_set, one slot: the key is there and gets the value ...
SetFinds ==
  /\ set # Idle
  /\ IsEntry(table[set.idx], set.key)
  /\ table' = [table EXCEPT ![set.idx].val = set.val]
  /\ set' = Idle
  /\ res' = Answer!Stored(set.key, set.val)
  /\ UNCHANGED <<cap, len, order, ocap, iter>>

\* ... or it is not, the slot is remembered if it is the first tombstone, and
\* the search goes on.
SetProbes ==
  /\ set # Idle
  /\ table[set.idx] # Free /\ ~IsEntry(table[set.idx], set.key)
  /\ set' = [set EXCEPT !.tomb = IF table[set.idx] = Tomb /\ set.tomb = -1
                                 THEN set.idx ELSE set.tomb,
                        !.idx = (set.idx + 1) % cap]
  /\ UNCHANGED <<table, cap, len, order, ocap, iter, res>>

\* A free slot ends the search: the entry goes into the first tombstone
\* passed or into the free slot, and to the end of the order.
Target == IF set.tomb = -1 THEN set.idx ELSE set.tomb
SetInserts ==
  /\ set # Idle
  /\ table[set.idx] = Free
  /\ table' = [table EXCEPT ![Target] = Full(set.key, set.val)]
  /\ order' = Append(order, set.key)
  /\ ocap' = OrderCap
  /\ len' = len + 1
  /\ set' = Idle
  /\ res' = Answer!Stored(set.key, set.val)
  /\ UNCHANGED <<cap, iter>>

\* The order array is full and cannot be grown: the entry is in the table by
\* then.
NoOrder ==
  /\ OutOfMemory
  /\ set # Idle
  /\ Len(order) = ocap
  /\ table[set.idx] = Free
  /\ table' = [table EXCEPT ![Target] = Full(set.key, set.val)]
  /\ set' = Idle
  /\ res' = Oom
  /\ UNCHANGED <<cap, len, order, ocap, iter>>

\* Mutants of RemoveKey: the slot becomes free; the counter stays.
RemoveFrees(k) ==
  /\ set = Idle
  /\ cap # 0 /\ len # 0 /\ Found(k)
  /\ table' = [table EXCEPT ![SlotOf(k)] = Free]
  /\ order' = IF \E i \in DOMAIN order : order[i] = k THEN RemoveFirst(order, k) ELSE order
  /\ len' = len - 1
  /\ res' = Answer!Deleted(k, TRUE)
  /\ UNCHANGED <<cap, ocap, set, iter>>
RemoveUncounted(k) ==
  /\ set = Idle
  /\ cap # 0 /\ len # 0 /\ Found(k)
  /\ table' = [table EXCEPT ![SlotOf(k)] = Tomb]
  /\ order' = RemoveFirst(order, k)
  /\ res' = Answer!Deleted(k, TRUE)
  /\ UNCHANGED <<cap, len, ocap, set, iter>>

\* ps_map_remove: the first occurrence of the key leaves the order, the slot
\* becomes a tombstone.
RemoveKey(k) ==
  /\ set = Idle
  /\ IF cap = 0 \/ len = 0 \/ ~Found(k)
     THEN /\ res' = Answer!Deleted(k, FALSE)
          /\ UNCHANGED <<table, len, order>>
     ELSE /\ table' = [table EXCEPT ![SlotOf(k)] = Tomb]
          /\ order' = IF \E i \in DOMAIN order : order[i] = k
                      THEN RemoveFirst(order, k) ELSE order
          /\ len' = len - 1
          /\ res' = Answer!Deleted(k, TRUE)
  /\ UNCHANGED <<cap, ocap, set, iter>>

HasKey(k) ==
  /\ set = Idle
  /\ res' = Answer!Contained(k, cap # 0 /\ Found(k))
  /\ UNCHANGED <<table, cap, len, order, ocap, set, iter>>

Get(k) ==
  /\ set = Idle
  /\ res' = IF cap # 0 /\ Found(k) THEN Answer!Value(k, table[SlotOf(k)].val)
            ELSE Answer!Missing(k)
  /\ UNCHANGED <<table, cap, len, order, ocap, set, iter>>

-----------------------------------------------------------------------------
\* for (k in m): an iteration begins at the first key.
IterBegin ==
  /\ Loops
  /\ set = Idle /\ iter = NoIter
  /\ iter' = [k |-> "iter", index |-> 0]
  /\ UNCHANGED <<table, cap, len, order, ocap, set, res>>

\* It asks len whether there is a next key, and takes it from order.  An entry
\* the two disagree about raises, and the loop is left.
IterNext ==
  /\ set = Idle /\ iter # NoIter
  /\ iter.index < len
  /\ IF iter.index < Len(order)
     THEN /\ iter' = [iter EXCEPT !.index = iter.index + 1]
          /\ UNCHANGED res
     ELSE /\ iter' = NoIter
          /\ res' = Raised
  /\ UNCHANGED <<table, cap, len, order, ocap, set>>

\* Past the last key the loop ends; a loop may also be left before.
IterEnd ==
  /\ set = Idle /\ iter # NoIter
  /\ iter' = NoIter
  /\ UNCHANGED <<table, cap, len, order, ocap, set, res>>

SetSteps == SetFinds \/ SetProbes \/ SetInserts \/ NoOrder
Next ==
  \/ \E k \in Keys : \/ \E v \in Values : BeginSet(k, v)
                     \/ NoTable(k) \/ RemoveKey(k) \/ HasKey(k) \/ Get(k)
  \/ SetFinds \/ SetProbes \/ SetInserts \/ NoOrder
  \/ IterBegin \/ IterNext \/ IterEnd

Spec     == Init /\ [][Next]_vars
FairSpec == Spec /\ WF_vars(SetSteps)

-----------------------------------------------------------------------------
Live == {i \in 0..(cap - 1) : table[i].used = 1}

\* Between operations the three views of the map agree: the counter, the order
\* and the table hold the same entries, each once (m->len, m->order, m->used).
OrderMatchesTable ==
  set = Idle =>
    /\ len = Len(order)
    /\ \A i, j \in DOMAIN order : order[i] = order[j] => i = j
    /\ {order[i] : i \in DOMAIN order} = {table[i].key : i \in Live}

\* Every entry is where a search for its key finds it: no entry is shadowed by
\* a second one of the same key, and no free slot cuts its search short, in
\* spite of reused tombstones and of the reordering of a new table.
EntriesAreFound == \A i \in Live : Found(table[i].key) /\ SlotOf(table[i].key) = i

\* At least half of the slots hold no entry, also once the set under way has
\* inserted its own.
HalfEmpty == 2 * (IF set = Idle THEN len ELSE len + 1) <= cap

\* The map implements the ordered map: its entries are the keys in order with
\* the values of their slots, and every answer is the one the ordered map gives.
Entries == [i \in DOMAIN order |-> <<order[i], table[SlotOf(order[i])].val>>]
Ordered == INSTANCE OrderedMap WITH entries <- Entries
ImplementsOrderedMap == Ordered!Spec

\* Every assignment to a map ends.
SetEnds == (set # Idle) ~> (set = Idle)

\* A loop never asks for an entry that is not there: branch_iter_has_next looks
\* at len and iter_next at the order, and whatever the body of the loop does to
\* the map between the two, the second finds what the first has promised.
LoopNeverRaises == res # Raised
=============================================================================

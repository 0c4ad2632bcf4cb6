----------------------------- MODULE PsMap_proofs -----------------------------
(***************************************************************************)
(* For every set of keys, every hash and every first capacity, however the  *)
(* program loops: the counter of a map stays below half of its table and is *)
(* never ahead of its order, every search finds its entry, whatever          *)
(* allocation fails; and while memory lasts, counter, order and table hold   *)
(* the same entries and the map implements the ordered map.                 *)
(*                                                                         *)
(* The slots of a search are a circle through the table (AtCircle).  A       *)
(* table is good if no free slot comes before an entry in its search         *)
(* (Placed) and no key has two (Distinct); the loop of ps_map_set has seen   *)
(* neither a free slot nor its key (Searching).  A new table is filled slot  *)
(* by slot, a fold which is taken apart here by induction (RehashedBySlots). *)
(***************************************************************************)
EXTENDS PsMap, SequenceTheorems, FiniteSetTheorems, WellFoundedInduction, TLAPS

\* The counter against the table and against the order, and what that needs:
\* the set under way is one of this map.
Counted ==
  /\ cap \in Nat /\ len \in Nat /\ order \in Seq(Keys)
  /\ set = Idle \/ set \in Probing
  /\ iter = NoIter \/ iter \in Iters
  /\ len <= Len(order)
  /\ HalfEmpty
  /\ res # Raised

-----------------------------------------------------------------------------
(* The order without a key. *)

\* A set of natural numbers that is not empty has a least element.
LEMMA LeastIndex ==
  ASSUME NEW T \in SUBSET Nat, T # {}
  PROVE  Min(T) \in T /\ \A y \in T : Min(T) <= y
<1> DEFINE Less == {p \in Nat \X Nat : p[1] < p[2]}
<1>1. IsWellFoundedOn(Less, Nat)
  BY NatLessThanWellFounded, Zenon DEF OpToRel
<1>2. \A a, b \in Nat : a < b => <<a, b>> \in Less
  OBVIOUS
<1> HIDE DEF Less
<1>3. PICK x \in T : \A y \in T : ~(<<y, x>> \in Less)
  BY <1>1, WFMin
<1>4. ASSUME NEW y \in T PROVE x <= y
  <2>1. x \in Nat /\ y \in Nat
    OBVIOUS
  <2>2. ~(<<y, x>> \in Less)
    BY <1>3, Zenon
  <2>3. ~(y < x)
    BY <1>2, <2>1, <2>2, Zenon
  <2> QED
    BY <2>1, <2>3
<1> QED
  BY <1>3, <1>4 DEF Min

\* Taking the element at a place closes the gap.
LEMMA WithoutPlace ==
  ASSUME NEW S, NEW s \in Seq(S), NEW i \in 1 .. Len(s)
  PROVE  /\ RemoveAt(s, i) \in Seq(S) /\ Len(RemoveAt(s, i)) = Len(s) - 1
         /\ \A j \in 1 .. Len(s) - 1 : RemoveAt(s, i)[j] = IF j < i THEN s[j] ELSE s[j + 1]
<1> DEFINE a == SubSeq(s, 1, i - 1)
           b == SubSeq(s, i + 1, Len(s))
<1>1. a \in Seq(S) /\ Len(a) = i - 1 /\ \A j \in 1 .. i - 1 : a[j] = s[j]
  BY SubSeqProperties
<1>2. b \in Seq(S) /\ Len(b) = Len(s) - i /\ \A j \in 1 .. Len(s) - i : b[j] = s[i + j]
  BY SubSeqProperties
<1>3. RemoveAt(s, i) = a \o b
  BY DEF RemoveAt
<1> HIDE DEF a, b
<1>4. /\ a \o b \in Seq(S) /\ Len(a \o b) = Len(a) + Len(b)
      /\ \A j \in 1 .. Len(a) + Len(b) : (a \o b)[j] = IF j <= Len(a) THEN a[j] ELSE b[j - Len(a)]
  BY <1>1, <1>2, ConcatProperties
<1>5. Len(s) \in Nat
  BY LenProperties
<1>6. ASSUME NEW j \in 1 .. Len(s) - 1
      PROVE  (a \o b)[j] = IF j < i THEN s[j] ELSE s[j + 1]
  <2>1. (a \o b)[j] = IF j < i THEN a[j] ELSE b[j - (i - 1)]
    BY <1>1, <1>2, <1>4, <1>5
  <2>2. CASE j < i
    BY <1>1, <2>1, <2>2
  <2>3. CASE ~(j < i)
    <3>1. j - (i - 1) \in 1 .. Len(s) - i /\ i + (j - (i - 1)) = j + 1
      BY <1>5, <2>3
    <3>2. b[j - (i - 1)] = s[j + 1]
      BY <1>2, <3>1
    <3> QED
      BY <2>1, <2>3, <3>2
  <2> QED
    BY <1>5, <2>2, <2>3
<1> QED
  BY <1>1, <1>2, <1>3, <1>4, <1>5, <1>6

\* The first occurrence of a key that is there leaves the order.
LEMMA WithoutKey ==
  ASSUME NEW s \in Seq(Keys), NEW k, \E i \in DOMAIN s : s[i] = k
  PROVE  /\ RemoveFirst(s, k) \in Seq(Keys) /\ Len(RemoveFirst(s, k)) = Len(s) - 1
         /\ \E p \in 1 .. Len(s) : s[p] = k /\ RemoveFirst(s, k) = RemoveAt(s, p)
<1> DEFINE I == {i \in 1 .. Len(s) : s[i] = k}
<1>1. I # {} /\ I \in SUBSET Nat
  OBVIOUS
<1>2. Min(I) \in I
  BY <1>1, LeastIndex
<1>3. SelectInSeq(s, LAMBDA v : v = k) = Min(I)
  BY <1>1 DEF SelectInSeq
<1>4. RemoveFirst(s, k) = RemoveAt(s, Min(I))
  BY <1>1, <1>3 DEF RemoveFirst
<1> QED
  BY <1>2, <1>4, WithoutPlace

-----------------------------------------------------------------------------
(* The counter. *)

\* A table of half a slot per entry is large enough for one entry more when it
\* is doubled once.
LEMMA RoomForOne ==
  ASSUME Counted, set = Idle, Needs(cap, len + 1)
  PROVE  NewCap(len + 1) \in Nat /\ 2 * (len + 1) <= NewCap(len + 1) /\ cap < NewCap(len + 1)
<1> DEFINE first == IF cap = 0 THEN InitCap ELSE 2 * cap
<1>1. first \in Nat /\ 2 * (len + 1) <= first /\ cap < first
  BY CapAssumption DEF Counted, HalfEmpty
<1>2. ~Needs(first, len + 1)
  BY <1>1 DEF Needs, Counted
<1>3. NewCap(len + 1) = first
  BY <1>2 DEF NewCap
<1> QED
  BY <1>1, <1>3

\* The empty map.
LEMMA InitCounted == Init => Counted
  BY DEF Init, Counted, HalfEmpty, Raised, Answer!None

\* Every step of every operation keeps the counter.
LEMMA NextCounted ==
  ASSUME Counted, [Next]_vars
  PROVE  Counted'
<1>1. ASSUME NEW k \in Keys, NEW v \in Values, BeginSet(k, v)
      PROVE  Counted'
  <2>1. cap' \in Nat /\ 2 * (len + 1) <= cap'
    BY <1>1, RoomForOne DEF BeginSet, Counted, Needs
  <2>2. Hash[k] % cap' \in Nat
    BY <2>1, HashAssumption DEF Counted
  <2>3. set' \in Probing /\ set' # Idle
    BY <1>1, <2>2 DEF BeginSet, Probing, Idle
  <2> QED
    BY <1>1, <2>1, <2>3 DEF BeginSet, Counted, HalfEmpty
<1>2. ASSUME NEW k \in Keys, NoTable(k)
      PROVE  Counted'
  BY <1>2 DEF NoTable, Counted, HalfEmpty, Oom, Raised
<1>3. ASSUME NEW k \in Keys, RemoveKey(k)
      PROVE  Counted'
  <2>1. res' # Raised /\ UNCHANGED <<cap, set, iter>> /\ set = Idle
    BY <1>3 DEF RemoveKey, Answer!Deleted, Raised
  <2>2. CASE cap = 0 \/ len = 0 \/ ~Found(k)
    BY <1>3, <2>1, <2>2 DEF RemoveKey, Counted, HalfEmpty
  <2>3. CASE ~(cap = 0 \/ len = 0 \/ ~Found(k))
    <3>1. len' = len - 1 /\ len' \in Nat
      BY <1>3, <2>3 DEF RemoveKey, Counted
    <3>2. order' \in Seq(Keys) /\ Len(order') >= Len(order) - 1
      BY <1>3, <2>3, WithoutKey DEF RemoveKey, Counted
    <3> QED
      BY <2>1, <3>1, <3>2 DEF Counted, HalfEmpty
  <2> QED
    BY <2>2, <2>3
<1>4. ASSUME NEW k \in Keys, HasKey(k) \/ Get(k)
      PROVE  Counted'
  BY <1>4 DEF HasKey, Get, Counted, HalfEmpty, Answer!Contained, Answer!Value, Answer!Missing, Raised
<1>5. CASE SetFinds
  BY <1>5 DEF SetFinds, Counted, HalfEmpty, Answer!Stored, Raised
<1>6. CASE SetProbes
  <2>1. set \in Probing /\ cap > 0
    BY <1>6 DEF SetProbes, Counted, HalfEmpty
  <2>2. (set.idx + 1) % cap \in Nat /\ set.idx \in Nat
    BY <2>1 DEF Probing, Counted
  <2>3. set' \in Probing /\ set' # Idle
    BY <1>6, <2>1, <2>2 DEF SetProbes, Probing, Idle
  <2> QED
    BY <1>6, <2>3 DEF SetProbes, Counted, HalfEmpty
<1>7. CASE SetInserts
  <2>1. set \in Probing /\ set.key \in Keys
    BY <1>7 DEF SetInserts, Counted, Probing
  <2>2. order' \in Seq(Keys) /\ Len(order') = Len(order) + 1
    BY <1>7, <2>1 DEF SetInserts, Counted
  <2>3. res' # Raised
    BY <1>7 DEF SetInserts, Answer!Stored, Raised
  <2> QED
    BY <1>7, <2>2, <2>3 DEF SetInserts, Counted, HalfEmpty
<1>8. CASE NoOrder
  BY <1>8 DEF NoOrder, Counted, HalfEmpty, Oom, Raised
<1>9. CASE IterBegin \/ IterEnd
  <2>1. iter' = NoIter \/ iter' \in Iters
    BY <1>9 DEF IterBegin, IterEnd, Iters
  <2> QED
    BY <1>9, <2>1 DEF IterBegin, IterEnd, Counted, HalfEmpty
<1>10. CASE IterNext
  <2>1. iter.index \in Nat /\ iter.index < Len(order)
    BY <1>10 DEF IterNext, Counted, Iters
  <2>2. iter' \in Iters /\ res' = res
    BY <1>10, <2>1 DEF IterNext, Counted, Iters
  <2> QED
    BY <1>10, <2>2 DEF IterNext, Counted, HalfEmpty
<1>11. CASE UNCHANGED vars
  BY <1>11 DEF vars, Counted, HalfEmpty
<1> QED
  BY <1>1, <1>2, <1>3, <1>4, <1>5, <1>6, <1>7, <1>8, <1>9, <1>10, <1>11 DEF Next

\* The table always has a slot to spare for every entry the map counts, so
\* that a search can end.
THEOREM HalfOfTheTable == Spec => []HalfEmpty
<1>1. Counted /\ [Next]_vars => Counted'
  BY NextCounted
<1>2. Counted => HalfEmpty
  BY DEF Counted
<1> QED
  BY <1>1, <1>2, InitCounted, PTL DEF Spec

\* Whatever the body of a loop does to the map, and whatever allocation fails
\* in it, the order has the key that the counter has promised.
THEOREM LoopsFindTheirKeys == Spec => []LoopNeverRaises
<1>1. Counted /\ [Next]_vars => Counted'
  BY NextCounted
<1>2. Counted => LoopNeverRaises
  BY DEF Counted, LoopNeverRaises
<1> QED
  BY <1>1, <1>2, InitCounted, PTL DEF Spec

-----------------------------------------------------------------------------
(* The slots of a search: each slot of the table once, in a circle. *)

\* Quotient and remainder of the hash by the capacity.
LEMMA ModRange ==
  ASSUME NEW a \in Nat, NEW c \in Nat \ {0}
  PROVE  a % c \in 0 .. c - 1 /\ a \div c \in Nat /\ a = c * (a \div c) + (a % c)
<1>1. a % c \in 0 .. c - 1
  OBVIOUS
<1>2. a = c * (a \div c) + (a % c)
  OBVIOUS
<1>3. a \div c \in Int
  OBVIOUS
<1> DEFINE p == a \div c
           s == a % c
<1>4. p \in Int /\ s \in 0 .. c - 1 /\ a = c * p + s
  BY <1>1, <1>2, <1>3
<1> HIDE DEF p, s
<1>5. p >= 0
  <2> SUFFICES ASSUME p <= -1 PROVE FALSE
    BY <1>4
  <2>1. c * p <= -c
    BY <1>4
  <2> QED BY <2>1, <1>4
<1> QED
  BY <1>4, <1>5 DEF p, s

\* The remainder of a multiple and a rest is the rest.
LEMMA ModUnique ==
  ASSUME NEW c \in Nat \ {0}, NEW q \in Nat, NEW r \in 0 .. c - 1
  PROVE  (c * q + r) % c = r
<1> DEFINE a == c * q + r
<1>1. a \in Nat
  OBVIOUS
<1> DEFINE p == a \div c
           s == a % c
<1>2. p \in Nat /\ s \in 0 .. c - 1 /\ a = c * p + s
  BY <1>1, ModRange
<1>3. c * p + s = c * q + r
  BY <1>2
<1> HIDE DEF p, s, a
<1>4. c * (p - q) = r - s
  BY <1>2, <1>3
<1>5. CASE p - q >= 1
  <2>1. c * (p - q) >= c
    BY <1>2, <1>5
  <2> QED BY <2>1, <1>4, <1>2
<1>6. CASE p - q <= -1
  <2>1. c * (p - q) <= -c
    BY <1>2, <1>6
  <2> QED BY <2>1, <1>4, <1>2
<1>7. CASE p = q
  BY <1>3, <1>7, <1>2 DEF s, a
<1> QED BY <1>2, <1>5, <1>6, <1>7

\* d slots on: past the last slot comes the first.
LEMMA ModShift ==
  ASSUME NEW a \in Nat, NEW c \in Nat \ {0}, NEW d \in 0 .. c - 1
  PROVE  (a + d) % c = IF (a % c) + d < c THEN (a % c) + d ELSE (a % c) + d - c
<1> DEFINE q == a \div c
           r == a % c
<1>1. q \in Nat /\ r \in 0 .. c - 1 /\ a = c * q + r
  BY ModRange
<1> HIDE DEF q, r
<1>2. CASE r + d < c
  <2>1. a + d = c * q + (r + d) /\ r + d \in 0 .. c - 1
    BY <1>1, <1>2
  <2> QED BY <2>1, <1>1, <1>2, ModUnique DEF r
<1>3. CASE r + d >= c
  <2>1. a + d = c * (q + 1) + (r + d - c) /\ r + d - c \in 0 .. c - 1 /\ q + 1 \in Nat
    BY <1>1, <1>3
  <2>2. (c * (q + 1) + (r + d - c)) % c = r + d - c
    BY <2>1, ModUnique
  <2> QED BY <2>1, <2>2, <1>1, <1>3 DEF r
<1> QED BY <1>1, <1>2, <1>3

\* The d-th slot of a search, by the slot it begins at.
LEMMA AtIs ==
  ASSUME NEW k \in Keys, NEW c \in Nat \ {0}
  PROVE  /\ Hash[k] % c \in 0 .. c - 1
         /\ \A d \in 0 .. c - 1 :
              At(k, d, c) = IF (Hash[k] % c) + d < c THEN (Hash[k] % c) + d
                            ELSE (Hash[k] % c) + d - c
<1>1. Hash[k] \in Nat
  BY HashAssumption
<1> QED
  BY <1>1, ModRange, ModShift DEF At

\* A search visits every slot, none twice, and one slot further is the next
\* slot, as the loop of ps_map_set steps.
LEMMA AtCircle ==
  ASSUME NEW k \in Keys, NEW c \in Nat \ {0}
  PROVE  /\ \A d \in 0 .. c - 1 : At(k, d, c) \in 0 .. c - 1
         /\ \A d, e \in 0 .. c - 1 : At(k, d, c) = At(k, e, c) => d = e
         /\ \A i \in 0 .. c - 1 : \E d \in 0 .. c - 1 : At(k, d, c) = i
         /\ At(k, 0, c) = Hash[k] % c
         /\ \A d \in 0 .. c - 1 :
              (At(k, d, c) + 1) % c = At(k, IF d = c - 1 THEN 0 ELSE d + 1, c)
<1> DEFINE h == Hash[k] % c
<1>1. /\ h \in 0 .. c - 1
      /\ \A d \in 0 .. c - 1 : At(k, d, c) = IF h + d < c THEN h + d ELSE h + d - c
  BY AtIs
<1>2. \A a \in 0 .. c - 1 : (a + 1) % c = IF a = c - 1 THEN 0 ELSE a + 1
  <2> TAKE a \in 0 .. c - 1
  <2>1. CASE a < c - 1
    BY <2>1, ModUnique, (c * 0 + (a + 1)) % c = a + 1
  <2>2. CASE a = c - 1
    <3>1. (c * 1 + 0) % c = 0
      BY ModUnique
    <3> QED BY <2>2, <3>1
  <2> QED BY <2>1, <2>2
<1> HIDE DEF h
<1>3. \A d \in 0 .. c - 1 : At(k, d, c) \in 0 .. c - 1
  BY <1>1
<1>4. \A d, e \in 0 .. c - 1 : At(k, d, c) = At(k, e, c) => d = e
  BY <1>1
<1>5. ASSUME NEW i \in 0 .. c - 1
      PROVE  \E d \in 0 .. c - 1 : At(k, d, c) = i
  <2> DEFINE d == IF i >= h THEN i - h ELSE i - h + c
  <2>1. d \in 0 .. c - 1 /\ (IF h + d < c THEN h + d ELSE h + d - c) = i
    BY <1>1
  <2> HIDE DEF d
  <2> QED BY <2>1, <1>1
<1>6. At(k, 0, c) = h
  BY <1>1
<1>7. ASSUME NEW d \in 0 .. c - 1
      PROVE  (At(k, d, c) + 1) % c = At(k, IF d = c - 1 THEN 0 ELSE d + 1, c)
  <2> DEFINE x == At(k, d, c)
             f == IF d = c - 1 THEN 0 ELSE d + 1
  <2>1. x \in 0 .. c - 1 /\ (x + 1) % c = IF x = c - 1 THEN 0 ELSE x + 1
    BY <1>2, <1>3
  <2>2. x = IF h + d < c THEN h + d ELSE h + d - c
    BY <1>1
  <2>3. f \in 0 .. c - 1
    OBVIOUS
  <2>4. At(k, f, c) = IF h + f < c THEN h + f ELSE h + f - c
    BY <1>1, <2>3
  <2>5. (IF x = c - 1 THEN 0 ELSE x + 1) = IF h + f < c THEN h + f ELSE h + f - c
    BY <1>1, <2>1, <2>2
  <2> QED
    BY <2>1, <2>4, <2>5
<1> QED
  BY <1>3, <1>4, <1>5, <1>6, <1>7 DEF h

-----------------------------------------------------------------------------
(* Tables. *)

\* The slots 0 .. c - 1.
IsTable(t, c) == t \in [0 .. c - 1 -> Slots]

\* No free slot comes before an entry in the search for its key.
Placed(t, c) ==
  \A i \in 0 .. c - 1 : t[i].used = 1 =>
    \A d \in 0 .. c - 1 : At(t[i].key, d, c) = i =>
      \A e \in 0 .. d - 1 : t[At(t[i].key, e, c)] # Free

\* No key has two entries.
Distinct(t, c) ==
  \A i, j \in 0 .. c - 1 :
    t[i].used = 1 /\ t[j].used = 1 /\ t[i].key = t[j].key => i = j

\* The three kinds of slots and their fields.
LEMMA SlotKinds ==
  /\ Free.used = 0 /\ Tomb.used = 2 /\ Free \in Slots /\ Tomb \in Slots
  /\ Free # Tomb
  /\ \A k \in Keys, v \in Values :
       /\ Full(k, v) \in Slots
       /\ Full(k, v).used = 1 /\ Full(k, v).key = k /\ Full(k, v).val = v
       /\ Full(k, v) # Free /\ Full(k, v) # Tomb
  /\ \A s \in Slots : /\ s.used = 0 => s = Free
                      /\ s.used = 2 => s = Tomb
                      /\ s.used = 1 => s.key \in Keys /\ s.val \in Values /\ s = Full(s.key, s.val)
                      /\ s.used \in {0, 1, 2}
BY DEF Free, Tomb, Full, Slots

\* An entry for a key that has none goes into a slot that holds none and that
\* no free slot comes before.
LEMMA EntryPlaced ==
  ASSUME NEW c \in Nat \ {0}, NEW t, IsTable(t, c), Placed(t, c), Distinct(t, c),
         NEW k \in Keys, NEW v \in Values, NEW d \in 0 .. c - 1,
         t[At(k, d, c)].used # 1,
         \A e \in 0 .. d - 1 : t[At(k, e, c)] # Free,
         \A i \in 0 .. c - 1 : ~IsEntry(t[i], k)
  PROVE  LET u == [t EXCEPT ![At(k, d, c)] = Full(k, v)]
         IN  IsTable(u, c) /\ Placed(u, c) /\ Distinct(u, c)
<1> DEFINE x == At(k, d, c)
           u == [t EXCEPT ![x] = Full(k, v)]
<1>1. x \in 0 .. c - 1
  BY AtCircle
<1>2. Full(k, v) \in Slots /\ Full(k, v).used = 1 /\ Full(k, v).key = k /\ Full(k, v) # Free
  BY SlotKinds
<1>3. IsTable(u, c)
  BY <1>1, <1>2 DEF IsTable
<1>4. u[x] = Full(k, v) /\ \A i \in 0 .. c - 1 : i # x => u[i] = t[i]
  BY <1>1 DEF IsTable
<1>5. \A i \in 0 .. c - 1 : t[i] # Free => u[i] # Free
  BY <1>2, <1>4
<1>6. ASSUME NEW i \in 0 .. c - 1, u[i].used = 1, NEW b \in 0 .. c - 1,
             At(u[i].key, b, c) = i, NEW e \in 0 .. b - 1
      PROVE  u[At(u[i].key, e, c)] # Free
  <2>1. CASE i = x
    <3>1. u[i].key = k /\ b = d
      BY <2>1, <1>2, <1>4, <1>6, AtCircle
    <3>2. e \in 0 .. d - 1 /\ e \in 0 .. c - 1
      BY <3>1
    <3> QED BY <3>1, <3>2, <1>5, AtCircle
  <2>2. CASE i # x
    <3>1. u[i] = t[i] /\ t[i].key \in Keys
      BY <2>2, <1>4, <1>6, SlotKinds DEF IsTable
    <3>2. t[At(t[i].key, e, c)] # Free
      BY <3>1, <1>6 DEF Placed
    <3>3. e \in 0 .. c - 1
      BY <1>6
    <3>4. At(t[i].key, e, c) \in 0 .. c - 1
      BY <3>1, <3>3, AtCircle
    <3> QED BY <3>1, <3>2, <3>4, <1>5
  <2> QED BY <2>1, <2>2
<1>7. Placed(u, c)
  BY <1>6 DEF Placed
<1>8. Distinct(u, c)
  <2> SUFFICES ASSUME NEW i \in 0 .. c - 1, NEW j \in 0 .. c - 1,
                      u[i].used = 1, u[j].used = 1, u[i].key = u[j].key, i # j
               PROVE  FALSE
    BY DEF Distinct
  <2>1. i # x /\ j # x
    BY <1>2, <1>4 DEF IsEntry
  <2> QED BY <2>1, <1>4 DEF Distinct
<1> QED
  BY <1>3, <1>7, <1>8

\* A slot that is not free stays one, and no entry gets a key it had not.
LEMMA EntryChanged ==
  ASSUME NEW c \in Nat \ {0}, NEW t, IsTable(t, c), Placed(t, c), Distinct(t, c),
         NEW x \in 0 .. c - 1, t[x].used = 1,
         NEW s \in Slots, s = Tomb \/ (s.used = 1 /\ s.key = t[x].key)
  PROVE  LET u == [t EXCEPT ![x] = s]
         IN  IsTable(u, c) /\ Placed(u, c) /\ Distinct(u, c)
<1> DEFINE u == [t EXCEPT ![x] = s]
<1>1. IsTable(u, c)
  BY DEF IsTable
<1>2. u[x] = s /\ \A i \in 0 .. c - 1 : i # x => u[i] = t[i]
  BY DEF IsTable
<1>3. s # Free
  BY SlotKinds
<1>4. \A i \in 0 .. c - 1 : u[i].used = 1 => t[i].used = 1 /\ u[i].key = t[i].key
  BY <1>2, SlotKinds
<1>5. \A i \in 0 .. c - 1 : t[i] # Free => u[i] # Free
  BY <1>2, <1>3
<1> HIDE DEF u
<1>6. ASSUME NEW i \in 0 .. c - 1, u[i].used = 1, NEW b \in 0 .. c - 1,
             At(u[i].key, b, c) = i, NEW e \in 0 .. b - 1
      PROVE  u[At(u[i].key, e, c)] # Free
  <2>1. t[i].used = 1 /\ u[i].key = t[i].key /\ t[i].key \in Keys
    BY <1>4, <1>6, SlotKinds DEF IsTable
  <2>2. t[At(t[i].key, e, c)] # Free
    BY <2>1, <1>6 DEF Placed
  <2>3. e \in 0 .. c - 1
    BY <1>6
  <2>4. At(t[i].key, e, c) \in 0 .. c - 1
    BY <2>1, <2>3, AtCircle
  <2> QED BY <2>1, <2>2, <2>4, <1>5
<1>7. Placed(u, c)
  BY <1>6 DEF Placed
<1>8. Distinct(u, c)
  BY <1>4 DEF Distinct
<1> QED
  BY <1>1, <1>7, <1>8 DEF u

-----------------------------------------------------------------------------
(* Searches. *)

\* What a search hits is an entry of its key.
LEMMA HitIsEntry ==
  ASSUME cap \in Nat \ {0}, NEW k \in Keys, Found(k)
  PROVE  SlotOf(k) \in Live /\ table[SlotOf(k)].key = k
<1> DEFINE d == CHOOSE b \in 0 .. cap - 1 : Hit(k, b)
<1>1. d \in 0 .. cap - 1 /\ Hit(k, d)
  BY DEF Found
<1>2. At(k, d, cap) \in 0 .. cap - 1
  BY <1>1, AtCircle
<1>3. SlotOf(k) = At(k, d, cap)
  BY DEF SlotOf
<1> HIDE DEF d
<1> QED
  BY <1>1, <1>2, <1>3 DEF Hit, IsEntry, Live

\* The search for the key of an entry hits that entry.
LEMMA EntryFound ==
  ASSUME cap \in Nat \ {0}, IsTable(table, cap), Placed(table, cap), Distinct(table, cap),
         NEW i \in Live
  PROVE  Found(table[i].key) /\ SlotOf(table[i].key) = i
<1> DEFINE k == table[i].key
<1>1. i \in 0 .. cap - 1 /\ table[i].used = 1 /\ k \in Keys /\ table[i].key = k
  BY SlotKinds DEF Live, IsTable
<1> HIDE DEF k
<1>2. PICK d \in 0 .. cap - 1 : At(k, d, cap) = i
  BY <1>1, AtCircle
<1>3. ASSUME NEW e \in 0 .. d - 1
      PROVE  table[At(k, e, cap)] # Free /\ ~IsEntry(table[At(k, e, cap)], k)
  <2>1. e \in 0 .. cap - 1 /\ e # d
    BY <1>2
  <2>2. At(k, e, cap) \in 0 .. cap - 1
    BY <1>1, <2>1, AtCircle
  <2>3. At(k, e, cap) # At(k, d, cap)
    BY <1>1, <2>1, AtCircle
  <2>4. table[At(k, e, cap)] # Free
    BY <1>1, <1>2 DEF Placed
  <2> QED
    BY <1>1, <1>2, <2>2, <2>3, <2>4 DEF Distinct, IsEntry
<1>4. Hit(k, d)
  BY <1>1, <1>2, <1>3 DEF Hit, IsEntry
<1>5. Found(k)
  BY <1>4 DEF Found
<1>6. SlotOf(k) \in Live /\ table[SlotOf(k)].key = k
  BY <1>1, <1>5, HitIsEntry
<1>7. SlotOf(k) = i
  BY <1>1, <1>6 DEF Distinct, Live
<1> QED
  BY <1>1, <1>5, <1>7

\* A search that has reached a free slot has seen every entry of its key.
LEMMA SearchExhausted ==
  ASSUME NEW c \in Nat \ {0}, NEW t, IsTable(t, c), Placed(t, c), NEW k \in Keys,
         NEW d \in 0 .. c - 1, t[At(k, d, c)] = Free,
         \A e \in 0 .. d - 1 : ~IsEntry(t[At(k, e, c)], k)
  PROVE  \A i \in 0 .. c - 1 : ~IsEntry(t[i], k)
<1> SUFFICES ASSUME NEW i \in 0 .. c - 1, IsEntry(t[i], k)
             PROVE  FALSE
  OBVIOUS
<1>1. t[i].used = 1 /\ t[i].key = k
  BY DEF IsEntry
<1>2. PICK b \in 0 .. c - 1 : At(k, b, c) = i
  BY AtCircle
<1>3. ~(d \in 0 .. b - 1)
  BY <1>1, <1>2 DEF Placed
<1>4. ~(b \in 0 .. d - 1)
  BY <1>2
<1>5. b # d
  BY <1>1, <1>2, SlotKinds
<1> QED
  BY <1>3, <1>4, <1>5

-----------------------------------------------------------------------------
(* A new table. *)

\* Induction, for a property given as a set.
LEMMA EveryNat ==
  ASSUME NEW T \in SUBSET Nat, 0 \in T, \A n \in T : n + 1 \in T
  PROVE  T = Nat
<1> SUFFICES ASSUME Nat \ T # {} PROVE FALSE
  OBVIOUS
<1> DEFINE m == Min(Nat \ T)
<1>1. m \in Nat \ T /\ \A y \in Nat \ T : m <= y
  BY LeastIndex
<1> HIDE DEF m
<1>3. m - 1 \in Nat /\ ~(m - 1 \in Nat \ T)
  BY <1>1
<1> QED
  BY <1>1, <1>3

\* The last element of an initial segment of the naturals.
LEMMA LastOne ==
  ASSUME NEW n \in Nat \ {0}, NEW s \in SUBSET (1 .. n), n \in s
  PROVE  Max(s) = n
<1>1. \A y \in s : n >= y
  OBVIOUS
<1>2. \A x \in s : (\A y \in s : x >= y) => x = n
  OBVIOUS
<1> QED
  BY <1>1, <1>2 DEF Max

\* ensure_cap: what one slot of the old table does to the new one.
Reinsert(t, c, slot) == IF slot.used = 1 THEN Insert(t, c, slot) ELSE t

\* The loop over the old slots as the fold states it: on sets of places, from the last.
Folded(it, n, c, base, q) ==
  it = [s \in SUBSET (1 .. n) |-> IF s = {} THEN base
                                  ELSE Reinsert(it[s \ {Max(s)}], c, q[Max(s)])]

\* There is such a function for every number of slots.
LEMMA FoldExists ==
  ASSUME NEW c, NEW base, NEW q
  PROVE  \A n \in Nat : \E it : Folded(it, n, c, base, q)
<1> DEFINE T == {n \in Nat : \E it : Folded(it, n, c, base, q)}
<1>1. 0 \in T
  <2> DEFINE it == [s \in SUBSET (1 .. 0) |-> base]
  <2>1. \A s \in SUBSET (1 .. 0) : s = {}
    OBVIOUS
  <2>2. it = [s \in SUBSET (1 .. 0) |-> IF s = {} THEN base
                                       ELSE Reinsert(it[s \ {Max(s)}], c, q[Max(s)])]
    BY <2>1
  <2> HIDE DEF it
  <2> QED
    BY <2>2 DEF Folded
<1>2. ASSUME NEW n \in T PROVE n + 1 \in T
  <2>1. PICK it : Folded(it, n, c, base, q)
    OBVIOUS
  <2>2. n \in Nat /\ n + 1 \in Nat \ {0}
    OBVIOUS
  <2> DEFINE m == n + 1
             up == [s \in SUBSET (1 .. m) |->
                      IF m \in s THEN Reinsert(it[s \ {m}], c, q[m]) ELSE it[s]]
  <2>3. \A s \in SUBSET (1 .. m) : m \notin s => s \in SUBSET (1 .. n)
    BY <2>2
  <2>4. \A s \in SUBSET (1 .. m) : up[s] = IF m \in s THEN Reinsert(it[s \ {m}], c, q[m]) ELSE it[s]
    OBVIOUS
  <2>5. \A s \in SUBSET (1 .. n) : s \in SUBSET (1 .. m) /\ m \notin s /\ up[s] = it[s]
    BY <2>2
  <2> HIDE DEF up
  <2>6. ASSUME NEW s \in SUBSET (1 .. m)
        PROVE  up[s] = IF s = {} THEN base ELSE Reinsert(up[s \ {Max(s)}], c, q[Max(s)])
    <3>1. CASE m \in s
      <4>1. Max(s) = m
        BY <2>2, <3>1, LastOne
      <4>2. s \ {m} \in SUBSET (1 .. n)
        BY <2>2
      <4> QED
        BY <2>4, <2>5, <3>1, <4>1, <4>2
    <3>2. CASE m \notin s
      <4>1. s \in SUBSET (1 .. n)
        BY <2>3, <3>2
      <4>2. s \ {Max(s)} \in SUBSET (1 .. n)
        BY <4>1
      <4>3. it[s] = IF s = {} THEN base ELSE Reinsert(it[s \ {Max(s)}], c, q[Max(s)])
        BY <2>1, <4>1 DEF Folded
      <4> QED
        BY <2>5, <4>1, <4>2, <4>3
    <3> QED
      BY <3>1, <3>2
  <2>7. up = [s \in SUBSET (1 .. m) |-> up[s]]
    BY DEF up
  <2>8. up = [s \in SUBSET (1 .. m) |-> IF s = {} THEN base
                                        ELSE Reinsert(up[s \ {Max(s)}], c, q[Max(s)])]
    BY <2>6, <2>7
  <2> QED
    BY <2>2, <2>8 DEF Folded
<1> HIDE DEF T
<1>3. T = Nat
  BY <1>1, <1>2, EveryNat DEF T
<1> QED
  BY <1>3 DEF T

\* The table that ensure_cap makes is reached slot by slot.
LEMMA RehashedBySlots ==
  ASSUME NEW c, cap \in Nat
  PROVE  \E r : /\ r[0] = [i \in 0 .. c - 1 |-> Free]
                /\ \A i \in 1 .. cap : r[i] = Reinsert(r[i - 1], c, table[i - 1])
                /\ Rehashed(c) = r[cap]
<1> DEFINE base == [i \in 0 .. c - 1 |-> Free]
           q == [i \in 1 .. cap |-> table[i - 1]]
           it == CHOOSE f : Folded(f, cap, c, base, q)
<1>1. Folded(it, cap, c, base, q)
  BY FoldExists
<1>2. Rehashed(c) = it[1 .. cap]
  BY DEF Rehashed, FoldLeft, MapThenFoldSet, Folded, Reinsert
<1> HIDE DEF it, base
<1> DEFINE r == [i \in 0 .. cap |-> it[1 .. i]]
<1>3. r[0] = base
  <2>1. 1 .. 0 = {} /\ {} \in SUBSET (1 .. cap)
    OBVIOUS
  <2> QED
    BY <1>1, <2>1 DEF Folded
<1>4. ASSUME NEW i \in 1 .. cap
      PROVE  r[i] = Reinsert(r[i - 1], c, table[i - 1])
  <2>1. 1 .. i \in SUBSET (1 .. cap) /\ i \in Nat \ {0} /\ i \in 1 .. i
    OBVIOUS
  <2>2. Max(1 .. i) = i
    BY <2>1, LastOne
  <2>3. (1 .. i) \ {i} = 1 .. (i - 1)
    OBVIOUS
  <2>4. it[1 .. i] = Reinsert(it[1 .. (i - 1)], c, q[i])
    BY <1>1, <2>1, <2>2, <2>3 DEF Folded
  <2> QED
    BY <2>4
<1>5. r[cap] = it[1 .. cap]
  OBVIOUS
<1> QED
  BY <1>2, <1>3, <1>4, <1>5 DEF base

\* Insert takes the first free slot of the search for the key.
LEMMA InsertTakesFree ==
  ASSUME NEW c \in Nat \ {0}, NEW t, NEW s, s.key \in Keys,
         \E i \in 0 .. c - 1 : t[i] = Free
  PROVE  \E d \in 0 .. c - 1 :
           /\ Insert(t, c, s) = [t EXCEPT ![At(s.key, d, c)] = s]
           /\ t[At(s.key, d, c)] = Free
           /\ \A e \in 0 .. d - 1 : t[At(s.key, e, c)] # Free
<1> DEFINE F == {d \in 0 .. c - 1 : t[At(s.key, d, c)] = Free}
           First(d) == t[At(s.key, d, c)] = Free /\ \A e \in 0 .. d - 1 : t[At(s.key, e, c)] # Free
           m == CHOOSE d \in 0 .. c - 1 : First(d)
<1>1. PICK b \in 0 .. c - 1 : t[At(s.key, b, c)] = Free
  BY AtCircle
<1>2. F # {} /\ F \in SUBSET Nat
  BY <1>1
<1>3. PICK l \in F : \A y \in F : l <= y
  BY <1>2, LeastIndex
<1>4. l \in 0 .. c - 1 /\ First(l)
  <2>1. ASSUME NEW e \in 0 .. l - 1 PROVE t[At(s.key, e, c)] # Free
    <3>1. e \in 0 .. c - 1 /\ ~(l <= e)
      OBVIOUS
    <3> QED
      BY <1>3, <3>1
  <2> QED
    BY <2>1
<1>5. m \in 0 .. c - 1 /\ First(m)
  <2> HIDE DEF First, F
  <2> QED
    BY <1>4
<1>6. Insert(t, c, s) = [t EXCEPT ![At(s.key, m, c)] = s]
  BY DEF Insert
<1> HIDE DEF m
<1> QED
  BY <1>5, <1>6

\* The slots of a table that are not free.
Taken(t, c) == {i \in 0 .. c - 1 : t[i] # Free}

\* They are finitely many, and fewer than the slots leave one free.
LEMMA TakenSlots ==
  ASSUME NEW c \in Nat, NEW t
  PROVE  /\ IsFiniteSet(Taken(t, c)) /\ Cardinality(Taken(t, c)) \in Nat
         /\ Cardinality(Taken(t, c)) < c => \E i \in 0 .. c - 1 : t[i] = Free
<1>1. IsFiniteSet(0 .. c - 1) /\ Cardinality(0 .. c - 1) = c
  BY FS_Interval
<1>2. Taken(t, c) \in SUBSET (0 .. c - 1)
  BY DEF Taken
<1>3. IsFiniteSet(Taken(t, c)) /\ Cardinality(Taken(t, c)) \in Nat
  BY <1>1, <1>2, FS_Subset, FS_CardinalityType
<1>4. ASSUME Cardinality(Taken(t, c)) < c PROVE \E i \in 0 .. c - 1 : t[i] = Free
  <2> SUFFICES ASSUME \A i \in 0 .. c - 1 : t[i] # Free PROVE FALSE
    OBVIOUS
  <2>1. Taken(t, c) = 0 .. c - 1
    BY DEF Taken
  <2> QED
    BY <1>1, <1>3, <1>4, <2>1
<1> QED
  BY <1>3, <1>4

\* Writing one slot takes at most one more.
LEMMA OneMoreTaken ==
  ASSUME NEW c \in Nat, NEW t, IsTable(t, c), NEW x \in 0 .. c - 1, NEW s
  PROVE  Cardinality(Taken([t EXCEPT ![x] = s], c)) <= Cardinality(Taken(t, c)) + 1
<1> DEFINE u == [t EXCEPT ![x] = s]
           m == Taken(t, c) \cup {x}
<1>1. IsFiniteSet(Taken(t, c)) /\ Cardinality(Taken(t, c)) \in Nat
  BY TakenSlots
<1>2. Taken(u, c) \in SUBSET m
  BY DEF Taken, IsTable
<1>3. /\ IsFiniteSet(m)
      /\ Cardinality(m) = IF x \in Taken(t, c) THEN Cardinality(Taken(t, c)) ELSE Cardinality(Taken(t, c)) + 1
  BY <1>1, FS_AddElement
<1>4. Cardinality(Taken(u, c)) <= Cardinality(m)
  <2> HIDE DEF m, u
  <2> QED
    BY <1>2, <1>3, FS_Subset
<1>5. Cardinality(Taken(u, c)) \in Nat
  BY TakenSlots
<1> QED
  BY <1>1, <1>3, <1>4, <1>5

\* The new table after the first n slots of the old one.
Reordered(t, c, n) ==
  /\ IsTable(t, c) /\ Placed(t, c) /\ Distinct(t, c)
  /\ Cardinality(Taken(t, c)) <= n
  /\ \A i \in 0 .. n - 1 : table[i].used = 1 => \E j \in 0 .. c - 1 : t[j] = table[i]
  /\ \A j \in 0 .. c - 1 : t[j].used = 1 => \E i \in 0 .. n - 1 : table[i] = t[j]

\* One slot more: its entry, if it has one, is added to those of the new table.
LEMMA OneMoreSlot ==
  ASSUME NEW c \in Nat, NEW n \in Nat, cap \in Nat, n < cap, cap < c,
         IsTable(table, cap), Distinct(table, cap),
         NEW t, Reordered(t, c, n)
  PROVE  Reordered(Reinsert(t, c, table[n]), c, n + 1)
<1> DEFINE s == table[n]
<1>1. s \in Slots /\ n \in 0 .. cap - 1
  BY DEF IsTable
<1>2. Cardinality(Taken(t, c)) \in Nat /\ \E i \in 0 .. c - 1 : t[i] = Free
  <2>1. Cardinality(Taken(t, c)) <= n
    BY DEF Reordered
  <2>2. Cardinality(Taken(t, c)) \in Nat
    BY TakenSlots
  <2>3. Cardinality(Taken(t, c)) < c
    BY <2>1, <2>2
  <2> QED
    BY <2>2, <2>3, TakenSlots
<1>3. CASE s.used # 1
  <2>1. Reinsert(t, c, s) = t
    BY <1>3 DEF Reinsert
  <2>2. \A i \in 0 .. n : i \in 0 .. n - 1 \/ i = n
    OBVIOUS
  <2> QED
    BY <1>2, <1>3, <2>1, <2>2 DEF Reordered
<1>4. CASE s.used = 1
  <2>1. s.key \in Keys /\ s.val \in Values /\ s = Full(s.key, s.val)
    BY <1>1, <1>4, SlotKinds
  <2>2. PICK d \in 0 .. c - 1 :
          /\ Insert(t, c, s) = [t EXCEPT ![At(s.key, d, c)] = s]
          /\ t[At(s.key, d, c)] = Free
          /\ \A e \in 0 .. d - 1 : t[At(s.key, e, c)] # Free
    BY <1>2, <2>1, InsertTakesFree
  <2> DEFINE x == At(s.key, d, c)
             u == [t EXCEPT ![x] = s]
  <2>3. Reinsert(t, c, s) = u
    BY <1>4, <2>2 DEF Reinsert
  <2>4. x \in 0 .. c - 1
    BY <2>1, AtCircle
  <2>5. \A i \in 0 .. c - 1 : ~IsEntry(t[i], s.key)
    BY <1>1, <1>4 DEF Reordered, IsEntry, Distinct
  <2>6. t[x].used # 1
    BY <2>2, SlotKinds
  <2>7. IsTable(u, c) /\ Placed(u, c) /\ Distinct(u, c)
    <3>1. c \in Nat \ {0} /\ IsTable(t, c) /\ Placed(t, c) /\ Distinct(t, c)
      BY DEF Reordered
    <3>2. PICK k \in Keys, v \in Values : k = s.key /\ v = s.val /\ s = Full(k, v)
      BY <2>1
    <3>3. u = [t EXCEPT ![At(k, d, c)] = Full(k, v)]
      BY <3>2
    <3>4. \A e \in 0 .. d - 1 : t[At(k, e, c)] # Free
      BY <2>2, <3>2
    <3>5. t[At(k, d, c)].used # 1 /\ \A i \in 0 .. c - 1 : ~IsEntry(t[i], k)
      BY <2>5, <2>6, <3>2
    <3> HIDE DEF u, s
    <3> QED
      BY <3>1, <3>3, <3>4, <3>5, EntryPlaced
  <2>8. u[x] = s /\ \A i \in 0 .. c - 1 : i # x => u[i] = t[i]
    BY <2>4 DEF Reordered, IsTable
  <2>9. Cardinality(Taken(u, c)) <= n + 1
    <3>1. Cardinality(Taken(u, c)) <= Cardinality(Taken(t, c)) + 1
      BY <1>1, <2>4, OneMoreTaken DEF Reordered
    <3>2. Cardinality(Taken(u, c)) \in Nat
      BY TakenSlots
    <3> QED
      BY <1>2, <3>1, <3>2 DEF Reordered
  <2> HIDE DEF u
  <2>10. ASSUME NEW i \in 0 .. n, table[i].used = 1
         PROVE  \E j \in 0 .. c - 1 : u[j] = table[i]
    <3>1. CASE i = n
      BY <2>4, <2>8, <3>1
    <3>2. CASE i # n
      <4>1. PICK j \in 0 .. c - 1 : t[j] = table[i]
        BY <2>10, <3>2 DEF Reordered
      <4>2. j # x
        BY <2>6, <2>10, <4>1
      <4> QED
        BY <2>8, <4>1, <4>2
    <3> QED
      BY <3>1, <3>2
  <2>11. ASSUME NEW j \in 0 .. c - 1, u[j].used = 1
         PROVE  \E i \in 0 .. n : table[i] = u[j]
    <3>1. CASE j = x
      BY <2>8, <3>1
    <3>2. CASE j # x
      BY <2>8, <2>11, <3>2 DEF Reordered
    <3> QED
      BY <3>1, <3>2
  <2> QED
    BY <2>3, <2>7, <2>9, <2>10, <2>11 DEF Reordered
<1> QED
  BY <1>3, <1>4

\* A new table holds the entries of the old one, each once and where a search
\* finds it.
LEMMA RehashKeeps ==
  ASSUME cap \in Nat, IsTable(table, cap), Distinct(table, cap), NEW c \in Nat, cap < c
  PROVE  Reordered(Rehashed(c), c, cap)
<1>1. PICK r : /\ r[0] = [i \in 0 .. c - 1 |-> Free]
               /\ \A i \in 1 .. cap : r[i] = Reinsert(r[i - 1], c, table[i - 1])
               /\ Rehashed(c) = r[cap]
  BY RehashedBySlots
<1> DEFINE T == {n \in Nat : n <= cap => Reordered(r[n], c, n)}
<1>2. 0 \in T
  <2> DEFINE t == [i \in 0 .. c - 1 |-> Free]
  <2>1. IsTable(t, c) /\ \A i \in 0 .. c - 1 : t[i] = Free /\ t[i].used # 1
    BY SlotKinds DEF IsTable
  <2>2. Taken(t, c) = {}
    BY <2>1 DEF Taken
  <2>3. Cardinality(Taken(t, c)) = 0
    BY <2>2, FS_EmptySet
  <2> HIDE DEF t
  <2>4. Reordered(t, c, 0)
    BY <2>1, <2>3 DEF Reordered, Placed, Distinct
  <2> QED
    BY <1>1, <2>4 DEF t
<1>3. ASSUME NEW n \in T PROVE n + 1 \in T
  <2> SUFFICES ASSUME n + 1 <= cap PROVE Reordered(r[n + 1], c, n + 1)
    OBVIOUS
  <2>1. n \in Nat /\ n < cap /\ Reordered(r[n], c, n)
    OBVIOUS
  <2>2. n + 1 \in 1 .. cap /\ (n + 1) - 1 = n
    BY <2>1
  <2>3. r[n + 1] = Reinsert(r[n], c, table[n])
    BY <1>1, <2>2
  <2> QED
    BY <2>1, <2>3, OneMoreSlot
<1> HIDE DEF T
<1>4. T = Nat
  BY <1>2, <1>3, EveryNat DEF T
<1> QED
  BY <1>1, <1>4 DEF T

-----------------------------------------------------------------------------
(* The table. *)

Tabled == IsTable(table, cap) /\ Placed(table, cap) /\ Distinct(table, cap)

\* No free slot was passed on the way to the d-th slot of the search for k.
Passed(k, d) == \A e \in 0 .. d - 1 : table[At(k, e, cap)] # Free

\* The set under way has seen neither a free slot nor an entry of its key, and
\* the tombstone it remembers is one.
Searching ==
  set # Idle =>
    /\ \E d \in 0 .. cap - 1 :
         /\ set.idx = At(set.key, d, cap)
         /\ Passed(set.key, d)
         /\ \A e \in 0 .. d - 1 : ~IsEntry(table[At(set.key, e, cap)], set.key)
    /\ set.tomb # -1 =>
         \E d \in 0 .. cap - 1 : /\ set.tomb = At(set.key, d, cap)
                                 /\ Passed(set.key, d)
                                 /\ table[set.tomb] = Tomb

IInv == Counted /\ Tabled /\ Searching

\* The empty map.
LEMMA InitIInv == Init => IInv
<1> SUFFICES ASSUME Init PROVE IInv
  OBVIOUS
<1>1. 0 .. cap - 1 = {} /\ table = <<>>
  BY DEF Init
<1>2. table \in [0 .. cap - 1 -> Slots]
  BY <1>1
<1>3. Tabled
  BY <1>1, <1>2 DEF Tabled, IsTable, Placed, Distinct
<1>4. Searching
  BY DEF Init, Searching
<1> QED
  BY <1>3, <1>4, InitCounted DEF IInv

\* What a set has before it and where it writes.
LEMMA SetState ==
  ASSUME IInv, set # Idle
  PROVE  /\ cap \in Nat \ {0}
         /\ set.key \in Keys /\ set.val \in Values
         /\ set.idx \in 0 .. cap - 1 /\ set.tomb \in -1 .. cap - 1
         /\ set \in Probing
<1>1. cap \in Nat \ {0} /\ set \in Probing
  BY DEF IInv, Counted, HalfEmpty
<1>2. set.key \in Keys /\ set.val \in Values
  BY <1>1 DEF Probing
<1>3. \A d \in 0 .. cap - 1 : At(set.key, d, cap) \in 0 .. cap - 1
  BY <1>1, <1>2, AtCircle
<1>4. set.idx \in 0 .. cap - 1
  BY <1>3 DEF IInv, Searching
<1>5. set.tomb # -1 => set.tomb \in 0 .. cap - 1
  BY <1>3 DEF IInv, Searching
<1> QED
  BY <1>1, <1>2, <1>4, <1>5

\* The slot a new entry goes to, and the table with it.
LEMMA TargetPlaced ==
  ASSUME IInv, set # Idle, table[set.idx] = Free
  PROVE  LET u == [table EXCEPT ![Target] = Full(set.key, set.val)]
         IN  /\ Target \in 0 .. cap - 1 /\ table[Target].used # 1
             /\ \A i \in 0 .. cap - 1 : ~IsEntry(table[i], set.key)
             /\ IsTable(u, cap) /\ Placed(u, cap) /\ Distinct(u, cap)
<1>1. /\ cap \in Nat \ {0} /\ set.key \in Keys /\ set.val \in Values
      /\ set.idx \in 0 .. cap - 1 /\ set.tomb \in -1 .. cap - 1
  BY SetState
<1>2. IsTable(table, cap) /\ Placed(table, cap) /\ Distinct(table, cap)
  BY DEF IInv, Tabled
<1>3. \A i \in 0 .. cap - 1 : ~IsEntry(table[i], set.key)
  <2>1. PICK d \in 0 .. cap - 1 :
          /\ set.idx = At(set.key, d, cap)
          /\ \A e \in 0 .. d - 1 : ~IsEntry(table[At(set.key, e, cap)], set.key)
    BY DEF IInv, Searching
  <2> QED
    BY <1>1, <1>2, <2>1, SearchExhausted
<1>4. PICK d \in 0 .. cap - 1 :
        Target = At(set.key, d, cap) /\ Passed(set.key, d) /\ table[Target] \in {Free, Tomb}
  <2>1. CASE set.tomb = -1
    BY <2>1 DEF IInv, Searching, Target
  <2>2. CASE set.tomb # -1
    BY <2>2 DEF IInv, Searching, Target
  <2> QED
    BY <2>1, <2>2
<1>5. Target \in 0 .. cap - 1 /\ table[Target].used # 1
  <2>1. At(set.key, d, cap) \in 0 .. cap - 1
    BY <1>1, AtCircle
  <2> QED
    BY <1>4, <2>1, SlotKinds
<1> QED
  BY <1>1, <1>2, <1>3, <1>4, <1>5, EntryPlaced DEF Passed

\* Every step keeps the table and the search of the set under way.
LEMMA NextIInv ==
  ASSUME IInv, [Next]_vars
  PROVE  IInv'
<1>1. Counted'
  BY NextCounted DEF IInv
<1>2. cap \in Nat /\ Tabled /\ Searching
  BY DEF IInv, Counted
<1>3. ASSUME NEW k \in Keys, NEW v \in Values, BeginSet(k, v)
      PROVE  IInv'
  <2>1. set = Idle /\ cap' \in Nat \ {0}
    BY <1>1, <1>3 DEF BeginSet, Counted, HalfEmpty, Idle
  <2>2. Tabled'
    <3>1. CASE Needs(cap, len + 1)
      <4>1. cap' = NewCap(len + 1) /\ table' = Rehashed(cap')
        BY <1>3, <3>1 DEF BeginSet
      <4>2. cap < cap'
        BY <2>1, <3>1, <4>1, RoomForOne DEF IInv
      <4>3. Reordered(Rehashed(cap'), cap', cap)
        BY <1>2, <2>1, <4>2, RehashKeeps DEF Tabled
      <4> QED
        BY <4>1, <4>3 DEF Reordered, Tabled, IsTable, Placed, Distinct
    <3>2. CASE ~Needs(cap, len + 1)
      <4>1. cap' = cap /\ table' = table
        BY <1>3, <3>2 DEF BeginSet
      <4> QED
        BY <1>2, <4>1 DEF Tabled, IsTable, Placed, Distinct
    <3> QED
      BY <3>1, <3>2
  <2>3. set' = [k |-> "probing", key |-> k, val |-> v, idx |-> Hash[k] % cap', tomb |-> -1]
    BY <1>3 DEF BeginSet
  <2>4. At(k, 0, cap') = Hash[k] % cap'
    <3>1. Hash[k] + 0 = Hash[k]
      BY HashAssumption
    <3> QED
      BY <3>1 DEF At
  <2>5. 0 \in 0 .. cap' - 1
    <3>1. \A c \in Nat \ {0} : 0 \in 0 .. c - 1
      OBVIOUS
    <3> QED
      BY <2>1, <3>1
  <2>6. Searching'
    BY <2>3, <2>4, <2>5 DEF Searching, Passed
  <2> QED
    BY <1>1, <2>2, <2>6 DEF IInv
<1>4. CASE SetProbes
  <2>1. UNCHANGED <<table, cap>> /\ set # Idle /\ set' # Idle
    BY <1>4, SetState DEF SetProbes, Probing, Idle
  <2>2. set'.key = set.key /\ set'.idx = (set.idx + 1) % cap
        /\ set'.tomb = IF table[set.idx] = Tomb /\ set.tomb = -1 THEN set.idx ELSE set.tomb
    BY <1>4, SetState DEF SetProbes, Probing
  <2>3. cap \in Nat \ {0} /\ set.key \in Keys
    BY <2>1, SetState
  <2>4. PICK d \in 0 .. cap - 1 :
          /\ set.idx = At(set.key, d, cap)
          /\ Passed(set.key, d)
          /\ \A e \in 0 .. d - 1 : ~IsEntry(table[At(set.key, e, cap)], set.key)
    BY <1>2, <2>1 DEF Searching
  <2>5. table[set.idx] # Free /\ ~IsEntry(table[set.idx], set.key)
    BY <1>4 DEF SetProbes
  <2> DEFINE f == IF d = cap - 1 THEN 0 ELSE d + 1
  <2>6. f \in 0 .. cap - 1 /\ set'.idx = At(set.key, f, cap)
    <3>1. f \in 0 .. cap - 1
      BY <2>3
    <3>2. (At(set.key, d, cap) + 1) % cap = At(set.key, f, cap)
      BY <2>3, AtCircle
    <3> HIDE DEF f
    <3> QED
      BY <2>2, <2>4, <3>1, <3>2
  <2>7. \A e \in 0 .. f - 1 : e \in 0 .. d - 1 \/ e = d
    BY <2>3
  <2>8. /\ Passed(set.key, f)
        /\ \A e \in 0 .. f - 1 : ~IsEntry(table[At(set.key, e, cap)], set.key)
    BY <2>4, <2>5, <2>7 DEF Passed
  <2> HIDE DEF f
  <2>9. set'.tomb # -1 =>
         \E b \in 0 .. cap - 1 : /\ set'.tomb = At(set.key, b, cap)
                                 /\ Passed(set.key, b)
                                 /\ table[set'.tomb] = Tomb
    <3>1. CASE table[set.idx] = Tomb /\ set.tomb = -1
      BY <2>2, <2>4, <3>1
    <3>2. CASE ~(table[set.idx] = Tomb /\ set.tomb = -1)
      BY <1>2, <2>1, <2>2, <3>2 DEF Searching
    <3> QED
      BY <3>1, <3>2
  <2>10. Searching'
    BY <2>1, <2>2, <2>6, <2>8, <2>9 DEF Searching, Passed
  <2>11. Tabled'
    BY <1>2, <2>1 DEF Tabled, IsTable, Placed, Distinct
  <2> QED
    BY <1>1, <2>10, <2>11 DEF IInv
<1>5. CASE SetInserts \/ NoOrder
  <2>1. /\ set # Idle /\ table[set.idx] = Free /\ cap' = cap /\ set' = Idle
        /\ table' = [table EXCEPT ![Target] = Full(set.key, set.val)]
    BY <1>5 DEF SetInserts, NoOrder
  <2>2. Tabled'
    BY <2>1, TargetPlaced DEF IInv, Tabled, IsTable, Placed, Distinct
  <2> QED
    BY <1>1, <2>1, <2>2 DEF IInv, Searching
<1>6. CASE SetFinds
  <2>1. /\ set # Idle /\ IsEntry(table[set.idx], set.key) /\ cap' = cap /\ set' = Idle
        /\ table' = [table EXCEPT ![set.idx].val = set.val]
    BY <1>6 DEF SetFinds
  <2>2. /\ cap \in Nat \ {0} /\ set.idx \in 0 .. cap - 1
        /\ set.key \in Keys /\ set.val \in Values
    BY <2>1, SetState
  <2> DEFINE s == Full(set.key, set.val)
  <2>3. table[set.idx] \in Slots /\ table[set.idx].used = 1 /\ table[set.idx].key = set.key
    BY <1>2, <2>1, <2>2 DEF Tabled, IsTable, IsEntry
  <2>4. table' = [table EXCEPT ![set.idx] = s]
    <3>1. table[set.idx] = Full(set.key, table[set.idx].val)
      BY <2>3, SlotKinds
    <3>2. [Full(set.key, table[set.idx].val) EXCEPT !.val = set.val] = s
      BY DEF Full
    <3>3. [table[set.idx] EXCEPT !.val = set.val] = s
      BY <3>1, <3>2
    <3> QED
      BY <2>1, <3>3
  <2>5. s \in Slots /\ s.used = 1 /\ s.key = table[set.idx].key
    BY <2>2, <2>3, SlotKinds
  <2> HIDE DEF s
  <2>6. IsTable(table', cap) /\ Placed(table', cap) /\ Distinct(table', cap)
    BY <1>2, <2>2, <2>3, <2>4, <2>5, EntryChanged DEF Tabled
  <2>7. Tabled'
    BY <2>1, <2>6 DEF Tabled, IsTable, Placed, Distinct
  <2> QED
    BY <1>1, <2>1, <2>7 DEF IInv, Searching
<1>7. ASSUME NEW k \in Keys, RemoveKey(k)
      PROVE  IInv'
  <2>1. set = Idle /\ UNCHANGED <<cap, set>>
    BY <1>7 DEF RemoveKey
  <2>2. CASE cap = 0 \/ len = 0 \/ ~Found(k)
    BY <1>1, <1>2, <1>7, <2>1, <2>2 DEF RemoveKey, IInv, Tabled, IsTable, Placed, Distinct, Searching
  <2>3. CASE ~(cap = 0 \/ len = 0 \/ ~Found(k))
    <3>1. cap \in Nat \ {0} /\ Found(k) /\ table' = [table EXCEPT ![SlotOf(k)] = Tomb]
      BY <1>2, <1>7, <2>3 DEF RemoveKey
    <3>2. SlotOf(k) \in 0 .. cap - 1 /\ table[SlotOf(k)].used = 1
      BY <3>1, HitIsEntry DEF Live
    <3>3. Tabled'
      BY <1>2, <2>1, <3>1, <3>2, EntryChanged, SlotKinds DEF Tabled, IsTable, Placed, Distinct
    <3> QED
      BY <1>1, <2>1, <3>3 DEF IInv, Searching
  <2> QED
    BY <2>2, <2>3
<1>8. ASSUME UNCHANGED <<table, cap, set>>
      PROVE  IInv'
  BY <1>1, <1>2, <1>8 DEF IInv, Tabled, IsTable, Placed, Distinct, Searching, Passed
<1>9. ASSUME NEW k \in Keys, NoTable(k) \/ HasKey(k) \/ Get(k)
      PROVE  UNCHANGED <<table, cap, set>>
  BY <1>9 DEF NoTable, HasKey, Get
<1>10. CASE IterBegin \/ IterNext \/ IterEnd \/ UNCHANGED vars
  BY <1>8, <1>10 DEF IterBegin, IterNext, IterEnd, vars
<1> QED
  BY <1>3, <1>4, <1>5, <1>6, <1>7, <1>8, <1>9, <1>10 DEF Next

\* In a good table every search finds its entry.
LEMMA FoundInvariant == IInv => EntriesAreFound
<1> SUFFICES ASSUME IInv, NEW i \in Live
             PROVE  Found(table[i].key) /\ SlotOf(table[i].key) = i
  BY DEF EntriesAreFound
<1>1. cap \in Nat \ {0}
  BY DEF Live, IInv, Counted
<1> QED
  BY <1>1, EntryFound DEF IInv, Tabled

-----------------------------------------------------------------------------
(* The order. *)

\* The order has the key of every entry once, and no other key.
Listed ==
  /\ len = Len(order)
  /\ \A p, q \in 1 .. Len(order) : order[p] = order[q] => p = q
  /\ \A p \in 1 .. Len(order) : \E i \in Live : table[i].key = order[p]
  /\ \A i \in Live : \E p \in 1 .. Len(order) : order[p] = table[i].key

\* The empty map.
LEMMA InitListed == Init => Listed
  BY DEF Init, Listed, Live

\* While memory lasts, what is written to the table is written to the order, and
\* what is taken from the one is taken from the other.
LEMMA NextListed ==
  ASSUME ~OutOfMemory, IInv, Listed, [Next]_vars
  PROVE  Listed'
<1>1. cap \in Nat /\ order \in Seq(Keys) /\ Tabled /\ Searching
  BY DEF IInv, Counted
<1>2. ASSUME UNCHANGED <<table, cap, len, order>> PROVE Listed'
  BY <1>2 DEF Listed, Live
<1>3. ASSUME NEW k \in Keys, NEW v \in Values, BeginSet(k, v)
      PROVE  Listed'
  <2>1. UNCHANGED <<len, order>>
    BY <1>3 DEF BeginSet
  <2>2. CASE ~Needs(cap, len + 1)
    BY <1>2, <1>3, <2>1, <2>2 DEF BeginSet
  <2>3. CASE Needs(cap, len + 1)
    <3>1. set = Idle /\ cap' = NewCap(len + 1) /\ table' = Rehashed(cap')
      BY <1>3, <2>3 DEF BeginSet
    <3>2. cap' \in Nat /\ cap < cap'
      BY <2>3, <3>1, RoomForOne DEF IInv
    <3>3. Reordered(table', cap', cap)
      BY <1>1, <3>1, <3>2, RehashKeeps DEF Tabled
    <3>4. ASSUME NEW p \in 1 .. Len(order)
          PROVE  \E i \in Live' : table'[i].key = order[p]
      <4>1. PICK i \in Live : table[i].key = order[p]
        BY DEF Listed
      <4>2. PICK j \in 0 .. cap' - 1 : table'[j] = table[i]
        BY <3>3, <4>1 DEF Reordered, Live
      <4> QED
        BY <4>1, <4>2 DEF Live
    <3>5. ASSUME NEW j \in Live'
          PROVE  \E p \in 1 .. Len(order) : order[p] = table'[j].key
      <4>1. PICK i \in 0 .. cap - 1 : table[i] = table'[j]
        BY <3>3 DEF Reordered, Live
      <4>2. i \in Live
        BY <4>1 DEF Live
      <4> QED
        BY <4>1, <4>2 DEF Listed
    <3> QED
      BY <2>1, <3>4, <3>5 DEF Listed
  <2> QED
    BY <2>2, <2>3
<1>4. CASE SetFinds
  <2>1. UNCHANGED <<cap, len, order>>
    BY <1>4 DEF SetFinds
  <2>2. \A i \in 0 .. cap - 1 : table'[i].used = table[i].used /\ table'[i].key = table[i].key
    <3>1. set.idx \in 0 .. cap - 1 /\ table \in [0 .. cap - 1 -> Slots]
      BY <1>1, <1>4, SetState DEF SetFinds, Tabled, IsTable
    <3>2. table[set.idx].used = 1 /\ table[set.idx] = Full(table[set.idx].key, table[set.idx].val)
      BY <1>4, <3>1, SlotKinds DEF SetFinds, IsEntry
    <3>3. [table[set.idx] EXCEPT !.val = set.val] = Full(table[set.idx].key, set.val)
      BY <3>2 DEF Full
    <3>4. table' = [table EXCEPT ![set.idx] = Full(table[set.idx].key, set.val)]
      BY <1>4, <3>3 DEF SetFinds
    <3>5. Full(table[set.idx].key, set.val).used = 1
          /\ Full(table[set.idx].key, set.val).key = table[set.idx].key
      BY DEF Full
    <3> QED
      BY <3>1, <3>2, <3>4, <3>5
  <2>3. Live' = Live /\ \A i \in Live : table'[i].key = table[i].key
    BY <2>1, <2>2 DEF Live
  <2> QED
    BY <2>1, <2>3 DEF Listed
<1>5. CASE SetProbes
  BY <1>2, <1>5 DEF SetProbes
<1>6. CASE SetInserts
  <2>1. /\ cap' = cap /\ len' = len + 1 /\ order' = Append(order, set.key)
        /\ table' = [table EXCEPT ![Target] = Full(set.key, set.val)]
    BY <1>6 DEF SetInserts
  <2>2. /\ Target \in 0 .. cap - 1 /\ table[Target].used # 1
        /\ \A i \in 0 .. cap - 1 : ~IsEntry(table[i], set.key)
        /\ set.key \in Keys /\ set.val \in Values
    BY <1>6, TargetPlaced, SetState DEF SetInserts
  <2>3. /\ table'[Target].used = 1 /\ table'[Target].key = set.key
        /\ \A i \in 0 .. cap - 1 : i # Target => table'[i] = table[i]
    BY <1>1, <2>1, <2>2, SlotKinds DEF Tabled, IsTable
  <2>4. \A p \in 1 .. Len(order) : order[p] # set.key
    BY <2>2 DEF Listed, Live, IsEntry
  <2>5. /\ Len(order) \in Nat /\ Len(order') = Len(order) + 1
        /\ \A p \in 1 .. Len(order) : order'[p] = order[p]
        /\ order'[Len(order) + 1] = set.key
    BY <1>1, <2>1, <2>2, AppendProperties, LenProperties
  <2>6. \A p, q \in 1 .. Len(order') : order'[p] = order'[q] => p = q
    BY <2>4, <2>5 DEF Listed
  <2>7. Live' = Live \cup {Target}
    BY <2>1, <2>2, <2>3 DEF Live
  <2>8. ASSUME NEW p \in 1 .. Len(order')
        PROVE  \E i \in Live' : table'[i].key = order'[p]
    <3>1. CASE p = Len(order) + 1
      BY <2>3, <2>5, <2>7, <3>1
    <3>2. CASE p # Len(order) + 1
      <4>1. p \in 1 .. Len(order)
        BY <2>5, <3>2
      <4>2. PICK i \in Live : table[i].key = order[p]
        BY <4>1 DEF Listed
      <4>3. i # Target /\ i \in 0 .. cap - 1
        BY <2>2 DEF Live
      <4> QED
        BY <2>3, <2>5, <2>7, <4>1, <4>2, <4>3
    <3> QED
      BY <3>1, <3>2
  <2>9. ASSUME NEW i \in Live'
        PROVE  \E p \in 1 .. Len(order') : order'[p] = table'[i].key
    <3>1. CASE i = Target
      BY <2>3, <2>5, <3>1
    <3>2. CASE i # Target
      <4>1. i \in Live /\ table'[i] = table[i]
        BY <2>3, <2>7, <3>2 DEF Live
      <4>2. PICK p \in 1 .. Len(order) : order[p] = table[i].key
        BY <4>1 DEF Listed
      <4> QED
        BY <2>5, <4>1, <4>2
    <3> QED
      BY <3>1, <3>2
  <2> QED
    BY <2>1, <2>5, <2>6, <2>8, <2>9 DEF Listed
<1>7. ASSUME NEW k \in Keys, RemoveKey(k)
      PROVE  Listed'
  <2>1. CASE cap = 0 \/ len = 0 \/ ~Found(k)
    BY <1>2, <1>7, <2>1 DEF RemoveKey
  <2>2. CASE ~(cap = 0 \/ len = 0 \/ ~Found(k))
    <3>1. cap \in Nat \ {0} /\ Found(k)
      BY <1>1, <2>2
    <3> DEFINE x == SlotOf(k)
    <3>2. x \in Live /\ table[x].key = k
      BY <3>1, HitIsEntry
    <3>3. \E p \in DOMAIN order : order[p] = k
      BY <1>1, <3>2 DEF Listed
    <3>4. /\ cap' = cap /\ len' = len - 1 /\ order' = RemoveFirst(order, k)
          /\ table' = [table EXCEPT ![x] = Tomb]
      BY <1>7, <2>2, <3>3 DEF RemoveKey
    <3>5. PICK p \in 1 .. Len(order) : order[p] = k /\ order' = RemoveAt(order, p)
      BY <1>1, <3>3, <3>4, WithoutKey
    <3>6. /\ Len(order) \in Nat /\ Len(order') = Len(order) - 1
          /\ \A q \in 1 .. Len(order) - 1 : order'[q] = IF q < p THEN order[q] ELSE order[q + 1]
      BY <1>1, <3>5, WithoutPlace, LenProperties
    <3> HIDE DEF x
    <3>7. Live' = Live \ {x} /\ \A i \in Live' : table'[i] = table[i]
      BY <1>1, <3>2, <3>4, SlotKinds DEF Live, Tabled, IsTable
    <3>8. \A q, r \in 1 .. Len(order') : order'[q] = order'[r] => q = r
      <4> TAKE q, r \in 1 .. Len(order')
      <4> HAVE order'[q] = order'[r]
      <4> DEFINE Old(n) == IF n < p THEN n ELSE n + 1
      <4>1. Old(q) \in 1 .. Len(order) /\ Old(r) \in 1 .. Len(order)
        BY <3>6
      <4>2. order'[q] = order[Old(q)] /\ order'[r] = order[Old(r)]
        BY <3>6
      <4>3. Old(q) = Old(r)
        BY <4>1, <4>2 DEF Listed
      <4> QED
        BY <4>3
    <3>9. ASSUME NEW q \in 1 .. Len(order')
          PROVE  \E i \in Live' : table'[i].key = order'[q]
      <4> DEFINE o == IF q < p THEN q ELSE q + 1
      <4>1. o \in 1 .. Len(order) /\ o # p /\ order'[q] = order[o]
        BY <3>6
      <4> HIDE DEF o
      <4>2. PICK i \in Live : table[i].key = order[o]
        BY <4>1 DEF Listed
      <4>3. order[o] # k
        BY <3>5, <4>1 DEF Listed
      <4> QED
        BY <3>2, <3>7, <4>1, <4>2, <4>3
    <3>10. ASSUME NEW i \in Live'
           PROVE  \E q \in 1 .. Len(order') : order'[q] = table'[i].key
      <4>1. i \in Live /\ i # x /\ table'[i] = table[i]
        BY <3>7
      <4>2. PICK o \in 1 .. Len(order) : order[o] = table[i].key
        BY <4>1 DEF Listed
      <4>3. table[i].key # k
        BY <1>1, <3>2, <4>1 DEF Tabled, Distinct, Live
      <4>4. o # p
        BY <3>5, <4>2, <4>3
      <4> DEFINE q == IF o < p THEN o ELSE o - 1
      <4>5. q \in 1 .. Len(order') /\ (IF q < p THEN q ELSE q + 1) = o
        BY <3>6, <4>4
      <4> HIDE DEF q
      <4>6. order'[q] = order[o]
        BY <3>6, <4>5
      <4> QED
        BY <4>1, <4>2, <4>5, <4>6
    <3> QED
      BY <3>4, <3>6, <3>8, <3>9, <3>10 DEF Listed
  <2> QED
    BY <2>1, <2>2
<1>8. ASSUME NEW k \in Keys, HasKey(k) \/ Get(k)
      PROVE  Listed'
  BY <1>2, <1>8 DEF HasKey, Get
<1>9. CASE IterBegin \/ IterNext \/ IterEnd \/ UNCHANGED vars
  BY <1>2, <1>9 DEF IterBegin, IterNext, IterEnd, vars
<1>10. ASSUME NEW k \in Keys PROVE ~NoTable(k) /\ ~NoOrder
  BY DEF NoTable, NoOrder
<1>11. ~NoOrder
  BY DEF NoOrder
<1> QED
  BY <1>3, <1>4, <1>5, <1>6, <1>7, <1>8, <1>9, <1>10, <1>11 DEF Next

-----------------------------------------------------------------------------
(* The ordered map. *)

\* The value of the entry of a key.
ValAt(t, c, k) == CHOOSE v : \E i \in 0 .. c - 1 : t[i] = Full(k, v)

\* It is that of the one slot with the key.
LEMMA ValueAt ==
  ASSUME NEW c \in Nat, NEW t, Distinct(t, c),
         NEW i \in 0 .. c - 1, NEW k, NEW v, t[i] = Full(k, v)
  PROVE  ValAt(t, c, k) = v
<1> DEFINE IsValue(w) == \E j \in 0 .. c - 1 : t[j] = Full(k, w)
<1>1. ASSUME NEW w, IsValue(w) PROVE w = v
  <2>1. PICK j \in 0 .. c - 1 : t[j] = Full(k, w)
    BY <1>1
  <2>2. t[j].used = 1 /\ t[j].key = k /\ t[j].val = w
    BY <2>1 DEF Full
  <2>3. t[i].used = 1 /\ t[i].key = k /\ t[i].val = v
    BY DEF Full
  <2>4. i = j
    BY <2>2, <2>3 DEF Distinct
  <2> QED
    BY <2>2, <2>3, <2>4
<1>2. IsValue(v)
  OBVIOUS
<1>3. ValAt(t, c, k) = CHOOSE w : IsValue(w)
  BY DEF ValAt
<1> HIDE DEF IsValue
<1>4. IsValue(CHOOSE w : IsValue(w))
  BY <1>2
<1> QED
  BY <1>1, <1>3, <1>4

\* The entries as the mapping has them: the keys in order, each with its value.
Mapped ==
  /\ Entries \in Seq(Keys \X Values) /\ Len(Entries) = Len(order)
  /\ \A p \in 1 .. Len(order) :
       /\ Entries[p] = <<order[p], ValAt(table, cap, order[p])>>
       /\ order[p] \in Keys /\ ValAt(table, cap, order[p]) \in Values
       /\ \E i \in Live : table[i] = Full(order[p], ValAt(table, cap, order[p]))
                          /\ SlotOf(order[p]) = i

\* So are they in every state the invariants allow.
LEMMA EntriesMapped == IInv /\ Listed => Mapped
<1> SUFFICES ASSUME IInv, Listed PROVE Mapped
  OBVIOUS
<1>1. cap \in Nat /\ order \in Seq(Keys) /\ Len(order) \in Nat /\ DOMAIN order = 1 .. Len(order)
  BY LenProperties DEF IInv, Counted
<1>2. Distinct(table, cap) /\ IsTable(table, cap) /\ EntriesAreFound
  BY FoundInvariant DEF IInv, Tabled
<1>3. ASSUME NEW p \in 1 .. Len(order)
      PROVE  /\ <<order[p], table[SlotOf(order[p])].val>> = <<order[p], ValAt(table, cap, order[p])>>
             /\ order[p] \in Keys /\ ValAt(table, cap, order[p]) \in Values
             /\ \E i \in Live : table[i] = Full(order[p], ValAt(table, cap, order[p]))
                                /\ SlotOf(order[p]) = i
  <2>1. order[p] \in Keys
    BY <1>1
  <2>2. PICK i \in Live : table[i].key = order[p]
    BY DEF Listed
  <2>3. i \in 0 .. cap - 1 /\ table[i] \in Slots /\ table[i].used = 1
    BY <1>2 DEF Live, IsTable
  <2>4. table[i].val \in Values /\ table[i] = Full(order[p], table[i].val)
    BY <2>2, <2>3, SlotKinds
  <2>5. ValAt(table, cap, order[p]) = table[i].val
    BY <1>1, <1>2, <2>3, <2>4, ValueAt
  <2>6. SlotOf(order[p]) = i
    BY <1>2, <2>2 DEF EntriesAreFound
  <2> QED
    BY <2>1, <2>4, <2>5, <2>6
<1>4. Entries = [p \in 1 .. Len(order) |-> <<order[p], ValAt(table, cap, order[p])>>]
  BY <1>1, <1>3 DEF Entries
<1>5. Entries \in [1 .. Len(order) -> Keys \X Values]
  BY <1>3, <1>4
<1>6. Entries \in Seq(Keys \X Values) /\ Len(Entries) = Len(order)
  BY <1>1, <1>5
<1> QED
  BY <1>3, <1>4, <1>6 DEF Mapped

\* Where the ordered map has a key.
LEMMA PlaceOfKey ==
  ASSUME IInv, Listed, NEW k \in Keys
  PROVE  /\ Ordered!Present(k) <=> \E p \in 1 .. Len(order) : order[p] = k
         /\ Ordered!Present(k) <=> cap # 0 /\ Found(k)
         /\ \A p \in 1 .. Len(order) : order[p] = k => Ordered!Place(k) = p
<1>1. Mapped /\ Len(order) \in Nat /\ cap \in Nat
  BY EntriesMapped, LenProperties DEF IInv, Counted
<1>2. DOMAIN Entries = 1 .. Len(order) /\ \A p \in 1 .. Len(order) : Entries[p][1] = order[p]
  BY <1>1 DEF Mapped
<1>3. Ordered!Present(k) <=> \E p \in 1 .. Len(order) : order[p] = k
  BY <1>2 DEF Ordered!Present
<1>4. ASSUME NEW p \in 1 .. Len(order), order[p] = k PROVE Ordered!Place(k) = p
  <2>1. \A q \in DOMAIN Entries : Entries[q][1] = k => q = p
    BY <1>2, <1>4 DEF Listed
  <2>2. p \in DOMAIN Entries /\ Entries[p][1] = k
    BY <1>2, <1>4
  <2> QED
    BY <2>1, <2>2 DEF Ordered!Place
<1>5. ASSUME cap # 0, Found(k) PROVE \E p \in 1 .. Len(order) : order[p] = k
  <2>1. SlotOf(k) \in Live /\ table[SlotOf(k)].key = k
    BY <1>1, <1>5, HitIsEntry
  <2> QED
    BY <2>1 DEF Listed
<1>6. ASSUME NEW p \in 1 .. Len(order), order[p] = k PROVE cap # 0 /\ Found(k)
  <2>1. PICK i \in Live : table[i].key = k
    BY <1>6 DEF Listed
  <2>2. Found(k)
    BY <2>1, FoundInvariant DEF EntriesAreFound
  <2> QED
    BY <1>1, <2>1, <2>2 DEF Live
<1> QED
  BY <1>3, <1>4, <1>5, <1>6

\* An operation that leaves every key its value leaves the entries as they are.
LEMMA SameEntries ==
  ASSUME Mapped, Mapped', order' = order,
         \A p \in 1 .. Len(order) :
           ValAt(table', cap', order[p]) = ValAt(table, cap, order[p])
  PROVE  Entries' = Entries
<1>1. /\ Entries \in Seq(Keys \X Values) /\ Entries' \in Seq(Keys \X Values)
      /\ Len(Entries) = Len(order) /\ Len(Entries') = Len(order)
  BY DEF Mapped
<1>2. \A p \in 1 .. Len(order) : Entries'[p] = Entries[p]
  BY DEF Mapped
<1> QED
  BY <1>1, <1>2, SeqEqual

\* The value a key has after a step.
LEMMA ValueNext ==
  ASSUME cap' \in Nat, Tabled', NEW k, NEW v,
         NEW i \in 0 .. cap' - 1, table'[i] = Full(k, v)
  PROVE  ValAt(table', cap', k) = v
<1>1. Distinct(table', cap')
  BY DEF Tabled
<1>2. \A t, c : c \in Nat /\ Distinct(t, c) =>
        \A j \in 0 .. c - 1 : t[j] = Full(k, v) => ValAt(t, c, k) = v
  BY ValueAt
<1> QED
  BY <1>1, <1>2

\* Every step of the map is a step of the ordered map or changes nothing it
\* shows.
LEMMA NextOrdered ==
  ASSUME ~OutOfMemory, IInv, Listed, IInv', Listed', Mapped', [Next]_vars
  PROVE  [Ordered!Next]_(Ordered!vars)
<1>1. /\ cap \in Nat /\ cap' \in Nat /\ order \in Seq(Keys) /\ Len(order) \in Nat
      /\ Mapped /\ Tabled /\ Tabled'
  BY EntriesMapped, LenProperties DEF IInv, Counted
<1>2. ASSUME UNCHANGED <<table, cap, order>> PROVE Entries' = Entries
  BY <1>1, <1>2, SameEntries
<1>3. ASSUME UNCHANGED <<table, cap, order, res>> PROVE UNCHANGED Ordered!vars
  BY <1>2, <1>3 DEF Ordered!vars
<1>4. ASSUME NEW k \in Keys, NEW v \in Values, BeginSet(k, v)
      PROVE  UNCHANGED Ordered!vars
  <2>1. UNCHANGED <<len, order, res>>
    BY <1>4 DEF BeginSet
  <2>2. CASE ~Needs(cap, len + 1)
    BY <1>3, <1>4, <2>1, <2>2 DEF BeginSet
  <2>3. CASE Needs(cap, len + 1)
    <3>1. set = Idle /\ cap' = NewCap(len + 1) /\ table' = Rehashed(cap')
      BY <1>4, <2>3 DEF BeginSet
    <3>2. cap < cap'
      BY <2>3, <3>1, RoomForOne DEF IInv
    <3>3. Reordered(table', cap', cap)
      BY <1>1, <3>1, <3>2, RehashKeeps DEF Tabled
    <3>4. ASSUME NEW p \in 1 .. Len(order)
          PROVE  ValAt(table', cap', order[p]) = ValAt(table, cap, order[p])
      <4>1. PICK i \in Live : table[i] = Full(order[p], ValAt(table, cap, order[p]))
        BY <1>1 DEF Mapped
      <4>2. PICK j \in 0 .. cap' - 1 : table'[j] = table[i]
        BY <3>3, <4>1 DEF Reordered, Live
      <4>3. table'[j] = Full(order[p], ValAt(table, cap, order[p]))
        BY <4>1, <4>2
      <4> QED
        BY <1>1, <4>3, ValueNext
    <3>5. Entries' = Entries
      BY <1>1, <2>1, <3>4, SameEntries
    <3> QED
      BY <2>1, <3>5 DEF Ordered!vars
  <2> QED
    BY <2>2, <2>3
<1>5. CASE SetFinds
  <2> DEFINE k == set.key
             v == set.val
             x == set.idx
  <2>1. /\ k \in Keys /\ v \in Values /\ x \in 0 .. cap - 1 /\ IsEntry(table[x], k)
        /\ UNCHANGED <<cap, order>> /\ res' = Answer!Stored(k, v)
        /\ table' = [table EXCEPT ![x].val = v]
    BY <1>5, SetState DEF SetFinds
  <2>2. x \in Live /\ table[x].key = k /\ table[x] \in Slots /\ table \in [0 .. cap - 1 -> Slots]
    BY <1>1, <2>1 DEF Live, IsEntry, Tabled, IsTable
  <2>3. PICK p \in 1 .. Len(order) : order[p] = k
    BY <2>2 DEF Listed
  <2>4. table'[x] = Full(k, v) /\ \A i \in 0 .. cap - 1 : i # x => table'[i] = table[i]
    <3>1. table[x] = Full(k, table[x].val)
      BY <2>2, SlotKinds DEF Live
    <3>2. [table[x] EXCEPT !.val = v] = Full(k, v)
      BY <3>1 DEF Full
    <3> QED
      BY <2>1, <2>2, <3>2
  <2> HIDE DEF k, v, x
  <2>5. ValAt(table', cap', k) = v
    BY <1>1, <2>1, <2>4, ValueNext
  <2>6. ASSUME NEW q \in 1 .. Len(order), q # p
        PROVE  ValAt(table', cap', order[q]) = ValAt(table, cap, order[q])
    <3>1. PICK i \in Live : table[i] = Full(order[q], ValAt(table, cap, order[q]))
      BY <1>1 DEF Mapped
    <3>2. i # x
      <4>1. order[q] # k
        BY <2>3, <2>6 DEF Listed
      <4>2. table[i].key = order[q]
        BY <3>1 DEF Full
      <4> QED
        BY <2>2, <4>1, <4>2
    <3>3. i \in 0 .. cap' - 1 /\ table'[i] = Full(order[q], ValAt(table, cap, order[q]))
      BY <2>1, <2>4, <3>1, <3>2 DEF Live
    <3> QED
      BY <1>1, <3>3, ValueNext
  <2>7. Ordered!Present(k) /\ Ordered!Place(k) = p
    BY <2>1, <2>3, PlaceOfKey
  <2>8. Entries' = [Entries EXCEPT ![p] = <<k, v>>]
    <3>1. /\ Entries \in Seq(Keys \X Values) /\ Entries' \in Seq(Keys \X Values)
          /\ Len(Entries) = Len(order) /\ Len(Entries') = Len(order)
      BY <1>1, <2>1 DEF Mapped
    <3> DEFINE E == [Entries EXCEPT ![p] = <<k, v>>]
    <3>2. /\ E \in Seq(Keys \X Values) /\ Len(E) = Len(order)
          /\ \A q \in 1 .. Len(order) : E[q] = IF q = p THEN <<k, v>> ELSE Entries[q]
      BY <2>1, <3>1, ExceptSeq
    <3>3. \A q \in 1 .. Len(order) : Entries'[q] = <<order[q], ValAt(table', cap', order[q])>>
      BY <1>1, <2>1 DEF Mapped
    <3>4. \A q \in 1 .. Len(order) : Entries[q] = <<order[q], ValAt(table, cap, order[q])>>
      BY <1>1 DEF Mapped
    <3>5. \A q \in 1 .. Len(order) : Entries'[q] = E[q]
      BY <2>3, <2>5, <2>6, <3>2, <3>3, <3>4
    <3> HIDE DEF E
    <3>6. Entries' = E
      BY <3>1, <3>2, <3>5, SeqEqual
    <3> QED
      BY <3>6 DEF E
  <2>9. Ordered!Put(k, v)
    BY <2>1, <2>7, <2>8 DEF Ordered!Put, Answer!Stored, Ordered!Stored
  <2> QED
    BY <2>1, <2>9 DEF Ordered!Next
<1>6. CASE SetProbes
  BY <1>3, <1>6 DEF SetProbes
<1>7. CASE SetInserts
  <2> DEFINE k == set.key
             v == set.val
  <2>1. /\ k \in Keys /\ v \in Values
        /\ cap' = cap /\ order' = Append(order, k) /\ res' = Answer!Stored(k, v)
        /\ table' = [table EXCEPT ![Target] = Full(k, v)]
    BY <1>7, SetState DEF SetInserts
  <2>2. /\ Target \in 0 .. cap - 1 /\ table[Target].used # 1
        /\ \A i \in 0 .. cap - 1 : ~IsEntry(table[i], k)
    BY <1>7, TargetPlaced DEF SetInserts
  <2> HIDE DEF k, v
  <2>3. table'[Target] = Full(k, v) /\ \A i \in 0 .. cap - 1 : i # Target => table'[i] = table[i]
    BY <1>1, <2>1, <2>2 DEF Tabled, IsTable
  <2>4. \A p \in 1 .. Len(order) : order[p] # k
    BY <2>2 DEF Listed, Live, IsEntry
  <2>5. ~Ordered!Present(k)
    BY <2>1, <2>4, PlaceOfKey
  <2>6. /\ Len(order') = Len(order) + 1 /\ order'[Len(order) + 1] = k
        /\ \A p \in 1 .. Len(order) : order'[p] = order[p]
    BY <1>1, <2>1, AppendProperties
  <2>7. ValAt(table', cap', k) = v
    <3>1. Target \in 0 .. cap' - 1
      BY <2>1, <2>2
    <3> QED
      BY <1>1, <2>3, <3>1, ValueNext
  <2>8. ASSUME NEW q \in 1 .. Len(order)
        PROVE  ValAt(table', cap', order[q]) = ValAt(table, cap, order[q])
    <3>1. PICK i \in Live : table[i] = Full(order[q], ValAt(table, cap, order[q]))
      BY <1>1 DEF Mapped
    <3>2. i \in 0 .. cap - 1 /\ i \in 0 .. cap' - 1 /\ i # Target
      BY <2>1, <2>2 DEF Live
    <3>3. table'[i] = Full(order[q], ValAt(table, cap, order[q]))
      BY <2>3, <3>1, <3>2
    <3> QED
      BY <1>1, <3>2, <3>3, ValueNext
  <2>9. Entries' = Append(Entries, <<k, v>>)
    <3>1. /\ Entries \in Seq(Keys \X Values) /\ Entries' \in Seq(Keys \X Values)
          /\ Len(Entries) = Len(order) /\ Len(Entries') = Len(order) + 1
      BY <1>1, <2>6 DEF Mapped
    <3> DEFINE E == Append(Entries, <<k, v>>)
    <3>2. /\ E \in Seq(Keys \X Values) /\ Len(E) = Len(order) + 1
          /\ \A q \in 1 .. Len(order) : E[q] = Entries[q]
          /\ E[Len(order) + 1] = <<k, v>>
      BY <2>1, <3>1, AppendProperties
    <3>3. \A q \in 1 .. Len(order) + 1 : Entries'[q] = <<order'[q], ValAt(table', cap', order'[q])>>
      BY <2>6 DEF Mapped
    <3>4. \A q \in 1 .. Len(order) : Entries[q] = <<order[q], ValAt(table, cap, order[q])>>
      BY <1>1 DEF Mapped
    <3> HIDE DEF E
    <3>5. ASSUME NEW q \in 1 .. Len(order) + 1 PROVE Entries'[q] = E[q]
      <4>1. CASE q = Len(order) + 1
        BY <2>6, <2>7, <3>2, <3>3, <4>1
      <4>2. CASE q # Len(order) + 1
        <5>1. q \in 1 .. Len(order)
          BY <1>1, <4>2
        <5> QED
          BY <2>6, <2>8, <3>2, <3>3, <3>4, <5>1
      <4> QED
        BY <4>1, <4>2
    <3>6. Entries' = E
      BY <3>1, <3>2, <3>5, SeqEqual
    <3> QED
      BY <3>6 DEF E
  <2>10. Ordered!Put(k, v)
    BY <2>1, <2>5, <2>9 DEF Ordered!Put, Answer!Stored, Ordered!Stored
  <2> QED
    BY <2>1, <2>10 DEF Ordered!Next
<1>8. ASSUME NEW k \in Keys, RemoveKey(k)
      PROVE  Ordered!Next
  <2>1. CASE cap = 0 \/ len = 0 \/ ~Found(k)
    <3>1. UNCHANGED <<table, cap, order>> /\ res' = Answer!Deleted(k, FALSE)
      BY <1>8, <2>1 DEF RemoveKey
    <3>2. ~Ordered!Present(k)
      BY <1>1, <2>1, PlaceOfKey DEF Listed
    <3>3. Ordered!Present(k) = FALSE
      BY <3>2 DEF Ordered!Present
    <3>4. res' = Ordered!Deleted(k, Ordered!Present(k))
      BY <3>1, <3>3 DEF Answer!Deleted, Ordered!Deleted
    <3>5. Entries' = Entries
      BY <1>2, <3>1
    <3>6. Ordered!Delete(k)
      BY <3>2, <3>4, <3>5 DEF Ordered!Delete
    <3> QED
      BY <3>6 DEF Ordered!Next
  <2>2. CASE ~(cap = 0 \/ len = 0 \/ ~Found(k))
    <3>1. cap \in Nat \ {0} /\ Found(k)
      BY <1>1, <2>2
    <3> DEFINE x == SlotOf(k)
    <3>2. x \in Live /\ table[x].key = k
      BY <3>1, HitIsEntry
    <3>3. \E p \in DOMAIN order : order[p] = k
      BY <1>1, <3>2 DEF Listed
    <3>4. /\ cap' = cap /\ order' = RemoveFirst(order, k)
          /\ table' = [table EXCEPT ![x] = Tomb] /\ res' = Answer!Deleted(k, TRUE)
      BY <1>8, <2>2, <3>3 DEF RemoveKey
    <3>5. PICK p \in 1 .. Len(order) : order[p] = k /\ order' = RemoveAt(order, p)
      BY <1>1, <3>3, <3>4, WithoutKey
    <3>6. /\ Len(order') = Len(order) - 1
          /\ \A q \in 1 .. Len(order) - 1 : order'[q] = IF q < p THEN order[q] ELSE order[q + 1]
      BY <1>1, <3>5, WithoutPlace
    <3> HIDE DEF x
    <3>7. \A i \in 0 .. cap - 1 : i # x => table'[i] = table[i]
      BY <1>1, <3>2, <3>4 DEF Live, Tabled, IsTable
    <3>8. Ordered!Present(k) /\ Ordered!Place(k) = p
      BY <3>5, PlaceOfKey
    <3>9. ASSUME NEW q \in 1 .. Len(order), q # p
          PROVE  ValAt(table', cap', order[q]) = ValAt(table, cap, order[q])
      <4>1. PICK i \in Live : table[i] = Full(order[q], ValAt(table, cap, order[q]))
        BY <1>1 DEF Mapped
      <4>2. i # x
        <5>1. order[q] # k
          BY <3>5, <3>9 DEF Listed
        <5>2. table[i].key = order[q]
          BY <4>1 DEF Full
        <5> QED
          BY <3>2, <5>1, <5>2
      <4>3. i \in 0 .. cap' - 1 /\ table'[i] = Full(order[q], ValAt(table, cap, order[q]))
        BY <3>4, <3>7, <4>1, <4>2 DEF Live
      <4> QED
        BY <1>1, <4>3, ValueNext
    <3>10. Entries' = RemoveAt(Entries, p)
      <4>1. /\ Entries \in Seq(Keys \X Values) /\ Entries' \in Seq(Keys \X Values)
            /\ Len(Entries) = Len(order) /\ Len(Entries') = Len(order) - 1
        BY <1>1, <3>6 DEF Mapped
      <4> DEFINE E == RemoveAt(Entries, p)
      <4>2. /\ E \in Seq(Keys \X Values) /\ Len(E) = Len(order) - 1
            /\ \A q \in 1 .. Len(order) - 1 : E[q] = IF q < p THEN Entries[q] ELSE Entries[q + 1]
        <5>1. p \in 1 .. Len(Entries)
          BY <4>1
        <5> QED
          BY <4>1, <5>1, WithoutPlace
      <4>3. \A q \in 1 .. Len(order) - 1 : Entries'[q] = <<order'[q], ValAt(table', cap', order'[q])>>
        BY <3>6 DEF Mapped
      <4>4. \A q \in 1 .. Len(order) : Entries[q] = <<order[q], ValAt(table, cap, order[q])>>
        BY <1>1 DEF Mapped
      <4> HIDE DEF E
      <4>5. ASSUME NEW q \in 1 .. Len(order) - 1 PROVE Entries'[q] = E[q]
        <5> DEFINE o == IF q < p THEN q ELSE q + 1
        <5>1. o \in 1 .. Len(order) /\ o # p /\ order'[q] = order[o] /\ E[q] = Entries[o]
          BY <1>1, <3>6, <4>2
        <5> HIDE DEF o
        <5> QED
          BY <3>9, <4>3, <4>4, <5>1
      <4>6. Entries' = E
        BY <4>1, <4>2, <4>5, SeqEqual
      <4> QED
        BY <4>6 DEF E
    <3>11. Ordered!Present(k) = TRUE
      BY <3>8 DEF Ordered!Present
    <3>12. res' = Ordered!Deleted(k, Ordered!Present(k))
      BY <3>4, <3>11 DEF Answer!Deleted, Ordered!Deleted
    <3>13. RemoveAt(Entries, p) = Ordered!RemoveAt(Entries, p)
      BY DEF RemoveAt, Ordered!RemoveAt
    <3>14. Ordered!Delete(k)
      BY <3>8, <3>10, <3>12, <3>13 DEF Ordered!Delete
    <3> QED
      BY <3>14 DEF Ordered!Next
  <2> QED
    BY <2>1, <2>2
<1>9. ASSUME NEW k \in Keys, HasKey(k)
      PROVE  Ordered!Next
  <2>1. UNCHANGED <<table, cap, order>> /\ res' = Answer!Contained(k, cap # 0 /\ Found(k))
    BY <1>9 DEF HasKey
  <2>2. Ordered!Present(k) = (cap # 0 /\ Found(k))
    BY PlaceOfKey DEF Ordered!Present
  <2>3. Ordered!Has(k)
    BY <1>2, <2>1, <2>2 DEF Ordered!Has, Answer!Contained, Ordered!Contained
  <2> QED
    BY <2>3 DEF Ordered!Next
<1>10. ASSUME NEW k \in Keys, Get(k)
       PROVE  Ordered!Next
  <2>1. UNCHANGED <<table, cap, order>>
        /\ res' = IF cap # 0 /\ Found(k) THEN Answer!Value(k, table[SlotOf(k)].val) ELSE Answer!Missing(k)
    BY <1>10 DEF Get
  <2>2. CASE Ordered!Present(k)
    <3>1. cap # 0 /\ Found(k) /\ \E p \in 1 .. Len(order) : order[p] = k
      BY <2>2, PlaceOfKey
    <3>2. PICK p \in 1 .. Len(order) : order[p] = k
      BY <3>1
    <3>3. Ordered!Place(k) = p
      BY <3>2, PlaceOfKey
    <3>4. table[SlotOf(k)].val = ValAt(table, cap, k)
      <4>1. PICK i \in Live : table[i] = Full(k, ValAt(table, cap, k)) /\ SlotOf(k) = i
        BY <1>1, <3>2 DEF Mapped
      <4>2. \A v : Full(k, v).val = v
        BY DEF Full
      <4> QED
        BY <4>1, <4>2
    <3>5. Entries[p][2] = ValAt(table, cap, k)
      BY <1>1, <3>2 DEF Mapped
    <3>6. Ordered!Lookup(k)
      BY <1>2, <2>1, <2>2, <3>1, <3>3, <3>4, <3>5 DEF Ordered!Lookup, Answer!Value, Ordered!Value
    <3> QED
      BY <3>6 DEF Ordered!Next
  <2>3. CASE ~Ordered!Present(k)
    <3>1. ~(cap # 0 /\ Found(k))
      BY <2>3, PlaceOfKey
    <3>2. Ordered!Lookup(k)
      BY <1>2, <2>1, <2>3, <3>1 DEF Ordered!Lookup, Answer!Missing, Ordered!Missing
    <3> QED
      BY <3>2 DEF Ordered!Next
  <2> QED
    BY <2>2, <2>3
<1>11. CASE IterBegin \/ IterEnd \/ UNCHANGED vars
  BY <1>3, <1>11 DEF IterBegin, IterEnd, vars
<1>12. CASE IterNext
  <2>1. iter.index < Len(order)
    BY <1>12 DEF IterNext, IInv, Counted, Iters
  <2> QED
    BY <1>3, <1>12, <2>1 DEF IterNext
<1>13. ~NoOrder /\ \A k \in Keys : ~NoTable(k)
  BY DEF NoTable, NoOrder
<1> QED
  BY <1>4, <1>5, <1>6, <1>7, <1>8, <1>9, <1>10, <1>11, <1>12, <1>13 DEF Next

-----------------------------------------------------------------------------
(* The theorems. *)

\* The invariant of the table, whatever allocation fails.
THEOREM MapInvariant == Spec => []IInv
<1>1. IInv /\ [Next]_vars => IInv'
  BY NextIInv
<1> QED
  BY <1>1, InitIInv, PTL DEF Spec

\* Whatever keys collide, whatever is removed and whenever the table is made
\* anew or cannot be: a search finds every entry.
THEOREM EntriesFound == Spec => []EntriesAreFound
BY MapInvariant, FoundInvariant, PTL

\* While memory lasts, the order has the key of every entry once.
THEOREM MapListed == ASSUME ~OutOfMemory PROVE Spec => []Listed
<1>1. IInv /\ Listed /\ [Next]_vars => Listed'
  BY NextListed
<1> QED
  BY <1>1, InitListed, MapInvariant, PTL DEF Spec

\* While memory lasts, counter, order and table hold the same entries between
\* operations: what ps_map_len counts, what a loop yields and what a search
\* finds agree.  (An order that cannot grow leaves an entry uncounted: NoOrder.)
THEOREM OrderMatches == ASSUME ~OutOfMemory PROVE Spec => []OrderMatchesTable
<1>1. IInv /\ Listed => OrderMatchesTable
  <2> SUFFICES ASSUME IInv, Listed PROVE OrderMatchesTable
    OBVIOUS
  <2>1. DOMAIN order = 1 .. Len(order)
    BY DEF IInv, Counted
  <2>2. {order[i] : i \in DOMAIN order} = {table[i].key : i \in Live}
    BY <2>1 DEF Listed
  <2> QED
    BY <2>1, <2>2 DEF OrderMatchesTable, Listed
<1> QED
  BY <1>1, MapInvariant, MapListed, PTL

\* While memory lasts, the map implements the ordered map: collisions, reused
\* tombstones and new tables never show in an answer or in the order of the keys.
THEOREM MapRefinesOrderedMap == ASSUME ~OutOfMemory PROVE Spec => ImplementsOrderedMap
<1>1. Init => Ordered!Init
  BY DEF Init, Ordered!Init, Entries, Answer!None, Ordered!None
<1>2. IInv /\ Listed /\ IInv' /\ Listed' /\ Mapped' /\ [Next]_vars => [Ordered!Next]_(Ordered!vars)
  BY NextOrdered
<1> QED
  BY <1>1, <1>2, EntriesMapped, MapInvariant, MapListed, PTL DEF Spec, ImplementsOrderedMap, Ordered!Spec

-----------------------------------------------------------------------------
(* Types. *)

\* What the invariant of the table does not say of the types.
Typed == ocap \in Nat /\ Len(order) <= ocap /\ res \in Answers

\* Every step keeps the room of the order and answers what an operation answers.
LEMMA NextTyped ==
  ASSUME IInv, Typed, [Next]_vars
  PROVE  Typed'
<1>1. cap \in Nat /\ order \in Seq(Keys) /\ Len(order) \in Nat /\ Tabled
  BY LenProperties DEF IInv, Counted
<1>2. ASSUME UNCHANGED <<order, ocap>>, res' \in Answers PROVE Typed'
  BY <1>2 DEF Typed
<1>3. /\ Oom \in Answers
      /\ \A k \in Keys, v \in Values : Answer!Stored(k, v) \in Answers
      /\ \A k \in Keys, b \in BOOLEAN :
           Answer!Contained(k, b) \in Answers /\ Answer!Deleted(k, b) \in Answers
  BY DEF Answers, Answer!Answers, Answer!Stored, Answer!Contained, Answer!Deleted
<1>4. ASSUME NEW k \in Keys, NEW v \in Values, BeginSet(k, v) PROVE Typed'
  BY <1>2, <1>4 DEF BeginSet, Typed
<1>5. ASSUME NEW k \in Keys, NoTable(k) PROVE Typed'
  BY <1>2, <1>3, <1>5 DEF NoTable
<1>6. CASE SetFinds
  BY <1>2, <1>3, <1>6, SetState DEF SetFinds
<1>7. CASE SetProbes \/ IterBegin \/ IterEnd \/ UNCHANGED vars
  BY <1>2, <1>7 DEF SetProbes, IterBegin, IterEnd, vars, Typed
<1>8. CASE SetInserts
  <2>1. set.key \in Keys /\ set.val \in Values
    BY <1>8, SetState DEF SetInserts
  <2>2. Len(order') = Len(order) + 1
    BY <1>1, <1>8, <2>1, AppendProperties DEF SetInserts
  <2>3. ocap' \in Nat /\ Len(order) + 1 <= ocap'
    BY <1>1, <1>8, CapAssumption DEF SetInserts, OrderCap, Typed
  <2>4. res' \in Answers
    BY <1>3, <1>8, <2>1 DEF SetInserts
  <2> QED
    BY <2>2, <2>3, <2>4 DEF Typed
<1>9. CASE NoOrder
  BY <1>2, <1>3, <1>9 DEF NoOrder
<1>10. ASSUME NEW k \in Keys, RemoveKey(k) PROVE Typed'
  <2>1. ocap' = ocap /\ (res' = Answer!Deleted(k, TRUE) \/ res' = Answer!Deleted(k, FALSE))
    BY <1>10 DEF RemoveKey
  <2>3. Answer!Deleted(k, TRUE) \in Answers /\ Answer!Deleted(k, FALSE) \in Answers
    BY <1>3
  <2>2. order' = order \/ Len(order') = Len(order) - 1
    BY <1>1, <1>10, WithoutKey DEF RemoveKey
  <2>4. res' \in Answers
    BY <2>1, <2>3
  <2>5. Len(order') <= Len(order) /\ Len(order') \in Int
    BY <1>1, <2>2
  <2> QED
    BY <1>1, <2>1, <2>4, <2>5 DEF Typed
<1>11. ASSUME NEW k \in Keys, HasKey(k) PROVE Typed'
  <2> DEFINE b == cap # 0 /\ Found(k)
  <2>1. b \in BOOLEAN /\ res' = Answer!Contained(k, b) /\ UNCHANGED <<order, ocap>>
    BY <1>11 DEF HasKey
  <2> HIDE DEF b
  <2> QED
    BY <1>2, <1>3, <2>1
<1>12. ASSUME NEW k \in Keys, Get(k) PROVE Typed'
  <2>1. ASSUME cap # 0, Found(k) PROVE table[SlotOf(k)].val \in Values
    <3>1. SlotOf(k) \in Live
      BY <1>1, <2>1, HitIsEntry
    <3> QED
      BY <1>1, <3>1, SlotKinds DEF Live, Tabled, IsTable
  <2>2. Answer!Missing(k) \in Answers
        /\ (cap # 0 /\ Found(k) => Answer!Value(k, table[SlotOf(k)].val) \in Answers)
    BY <2>1 DEF Answers, Answer!Answers, Answer!Value, Answer!Missing
  <2>3. res' \in Answers
    BY <1>12, <2>2 DEF Get
  <2> QED
    BY <1>2, <1>12, <2>3 DEF Get
<1>13. CASE IterNext
  <2>1. Raised \in Answers
    BY DEF Answers
  <2> QED
    BY <1>2, <1>13, <2>1 DEF IterNext, Typed
<1> QED
  BY <1>4, <1>5, <1>6, <1>7, <1>8, <1>9, <1>10, <1>11, <1>12, <1>13 DEF Next

\* Slots, counters, order, the search and the answers of the map are what the
\* code declares them to be, in every reachable state.
THEOREM TypeCorrect == Spec => []TypeOK
<1>1. Init => Typed
  BY DEF Init, Typed, Answers, Answer!Answers, Answer!None
<1>2. IInv /\ Typed /\ [Next]_vars => Typed'
  BY NextTyped
<1>3. IInv /\ Typed => TypeOK
  <2> SUFFICES ASSUME IInv, Typed PROVE TypeOK
    OBVIOUS
  <2>1. set # Idle => set.idx < cap /\ set.tomb < cap
    BY SetState
  <2> QED
    BY <2>1 DEF IInv, Counted, Tabled, IsTable, Typed, TypeOK
<1> QED
  BY <1>1, <1>2, <1>3, MapInvariant, PTL DEF Spec
=============================================================================

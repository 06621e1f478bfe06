-------------------------- MODULE EventStoreProofs --------------------------
(***************************************************************************)
(* Proofs about EventStore for every MaxSize, MaxAdds and set of records.  *)
(***************************************************************************)
EXTENDS EventStore, FiniteSetTheorems, SequenceTheorems, WellFoundedInduction, TLAPS

(* The inductive invariant: the ids tell all there is to know of the       *)
(* buffer, so IdsAreAWindow needs no strengthening but the types.          *)
IInv == TypeOK /\ IdsAreAWindow

(* How many entries an append to a buffer of n entries drops. *)
Dropped(n) == IF n < MaxSize THEN 0 ELSE 1

(* Appending to a bounded buffer keeps its entries but the oldest, which   *)
(* goes when the buffer is full (deque.append with a maxlen).              *)
LEMMA BoundedAppend ==
  ASSUME NEW S, NEW s \in Seq(S), NEW e \in S, Len(s) <= MaxSize
  PROVE  LET b == Bounded(Append(s, e))
             d == Dropped(Len(s))
         IN /\ b \in Seq(S)
            /\ Len(b) = Len(s) + 1 - d
            /\ \A i \in 1..Len(b) : b[i] = IF i + d = Len(s) + 1 THEN e ELSE s[i + d]
<1> DEFINE a == Append(s, e)
           b == Bounded(a)
           d == Dropped(Len(s))
<1>1. MaxSize \in Nat
  BY StoreAssumption DEF StoreAssumption
<1>2. /\ a \in Seq(S) /\ Len(a) = Len(s) + 1
      /\ \A i \in 1..Len(s) : a[i] = s[i]
      /\ a[Len(s) + 1] = e
  BY AppendProperties
<1>3. CASE Len(s) < MaxSize
  <2>1. b = a /\ d = 0
    BY <1>1, <1>2, <1>3 DEF Bounded, Dropped
  <2> HIDE DEF a, b, d
  <2>2. b \in Seq(S) /\ Len(b) = Len(s) + 1 - d
    BY <1>2, <2>1
  <2>3. \A i \in 1..Len(b) : b[i] = IF i + d = Len(s) + 1 THEN e ELSE s[i + d]
    BY <1>2, <2>1
  <2> QED
    BY <2>2, <2>3 DEF a, b, d
<1>4. CASE Len(s) = MaxSize
  <2>1. b = Tail(a) /\ d = 1
    BY <1>1, <1>2, <1>4 DEF Bounded, Dropped
  <2>2. a # <<>>
    BY <1>2
  <2>3. /\ Tail(a) \in Seq(S) /\ Len(Tail(a)) = Len(a) - 1
        /\ \A i \in 1..Len(Tail(a)) : Tail(a)[i] = a[i + 1]
    BY <1>2, <2>2, HeadTailProperties
  <2> HIDE DEF a, b, d
  <2>4. b \in Seq(S) /\ Len(b) = Len(s) + 1 - d
    BY <1>2, <2>1, <2>3
  <2>5. \A i \in 1..Len(b) : b[i] = IF i + d = Len(s) + 1 THEN e ELSE s[i + d]
    BY <1>2, <2>1, <2>3, <2>4
  <2> QED
    BY <2>4, <2>5 DEF a, b, d
<1> QED
  BY <1>1, <1>3, <1>4, LenProperties

LEMMA InitInv == Init => IInv
  BY StoreAssumption DEF StoreAssumption, Init, IInv, TypeOK, IdsAreAWindow

(* One Add keeps the ids a gap-free window, whether or not it drops one.   *)
LEMMA AddInv ==
  ASSUME IInv, NEW r \in Records, idCounter < MaxAdds, Add(r)
  PROVE  IInv'
<1> DEFINE e == [id |-> idCounter + 1, rec |-> r]
           d == Dropped(Len(events))
<1>1. /\ events \in Seq(Entry) /\ Len(events) \in Nat /\ Len(events) <= MaxSize
      /\ idCounter \in Nat /\ MaxSize \in Nat /\ MaxAdds \in Nat
  BY StoreAssumption DEF StoreAssumption, IInv, TypeOK
<1>2. e \in Entry
  BY <1>1 DEF Entry
<1>3. /\ events' \in Seq(Entry)
      /\ Len(events') = Len(events) + 1 - d
      /\ \A i \in 1..Len(events') :
           events'[i] = IF i + d = Len(events) + 1 THEN e ELSE events[i + d]
  <2> HIDE DEF e
  <2>1. events' = Bounded(Append(events, e))
    BY DEF Add, e
  <2> QED
    BY <1>1, <1>2, <2>1, BoundedAppend
<1>4. idCounter' = idCounter + 1 /\ idCounter' \in 0..MaxAdds
  BY <1>1 DEF Add
<1>5. d \in {0, 1} /\ (d = 0 <=> Len(events) < MaxSize)
  BY DEF Dropped
<1>6. Len(events) = IF idCounter < MaxSize THEN idCounter ELSE MaxSize
  BY DEF IInv, IdsAreAWindow
<1>7. \A i \in 1..Len(events) : events[i].id = idCounter - Len(events) + i
  <2>1. DOMAIN events = 1..Len(events)
    BY <1>1
  <2>2. \A i \in DOMAIN events : events[i].id = idCounter - Len(events) + i
    BY DEF IInv, IdsAreAWindow
  <2> QED
    BY <2>1, <2>2
<1> HIDE DEF d
<1>8. Len(events') <= MaxSize
  BY <1>1, <1>3, <1>5
<1>9. Len(events') = IF idCounter' < MaxSize THEN idCounter' ELSE MaxSize
  BY <1>1, <1>3, <1>4, <1>5, <1>6
<1>10. ASSUME NEW i \in 1..Len(events')
       PROVE  events'[i].id = idCounter' - Len(events') + i
  <2>1. CASE i + d = Len(events) + 1
    BY <1>1, <1>3, <1>4, <1>5, <2>1
  <2>2. CASE i + d # Len(events) + 1
    <3>1. i + d \in 1..Len(events) /\ events'[i] = events[i + d]
      BY <1>1, <1>3, <1>5, <2>2
    <3>2. events[i + d].id = idCounter - Len(events) + (i + d)
      BY <1>7, <3>1
    <3> QED
      BY <1>1, <1>3, <1>4, <1>5, <3>1, <3>2
  <2> QED
    BY <2>1, <2>2
<1>11. DOMAIN events' = 1..Len(events')
  BY <1>3
<1> QED
  BY <1>3, <1>4, <1>8, <1>9, <1>10, <1>11 DEF IInv, TypeOK, IdsAreAWindow

LEMMA NextInv == IInv /\ [Next]_vars => IInv'
<1> SUFFICES ASSUME IInv, [Next]_vars PROVE IInv'
  OBVIOUS
<1>1. CASE Clear
  BY <1>1, StoreAssumption
  DEF StoreAssumption, Clear, IInv, TypeOK, IdsAreAWindow
<1>2. ASSUME idCounter < MaxAdds, NEW r \in Records, Add(r) PROVE IInv'
  BY <1>2, AddInv
<1>3. CASE UNCHANGED vars
  BY <1>3 DEF vars, IInv, TypeOK, IdsAreAWindow
<1> QED
  BY <1>1, <1>2, <1>3 DEF Next

(* The store never outgrows EVENT_STORE_SIZE, whatever is added and        *)
(* cleared (core/__init__.py:21-32, 114-120).                              *)
THEOREM TypeCorrect == Spec => []TypeOK
<1>1. IInv => TypeOK
  BY DEF IInv
<1> QED
  BY <1>1, InitInv, NextInv, PTL DEF Spec

(* The store always holds exactly the newest records, numbered without gap *)
(* or repeat (core/__init__.py:26-32).                                     *)
THEOREM WindowOfIds == Spec => []IdsAreAWindow
<1>1. IInv => IdsAreAWindow
  BY DEF IInv
<1> QED
  BY <1>1, InitInv, NextInv, PTL DEF Spec

(* The slice of the newest entries, turned round, is the ids counted down  *)
(* (core/__init__.py:34-44).                                               *)
LEMMA NewestCountDown == IInv => RecentIsNewest
<1> SUFFICES ASSUME IInv, NEW n \in 1..(MaxSize + 1)
             PROVE  LET r == GetRecent(n) IN
                      /\ Len(r) = IF n < Len(events) THEN n ELSE Len(events)
                      /\ \A i \in DOMAIN r : r[i].id = idCounter - i + 1
  BY DEF RecentIsNewest
<1> DEFINE size == Len(events)
           first == IF n > size THEN 1 ELSE size - n + 1
           s == SubSeq(events, first, size)
           k == IF n < size THEN n ELSE size
           r == GetRecent(n)
<1>1. /\ events \in Seq(Entry) /\ size \in Nat /\ idCounter \in Nat /\ n \in Nat /\ n > 0
      /\ \A i \in 1..size : events[i].id = idCounter - size + i
  <2>1. /\ events \in Seq(Entry) /\ idCounter \in Nat /\ n \in Nat /\ n > 0
    BY StoreAssumption DEF StoreAssumption, IInv, TypeOK
  <2>2. size \in Nat /\ DOMAIN events = 1..size
    BY <2>1, LenProperties
  <2> QED
    BY <2>1, <2>2 DEF IInv, IdsAreAWindow
<1>2. r = [i \in 1..Len(s) |-> s[(Len(s) - i) + 1]]
  <2>1. n > 0 /\ n # 0
    BY <1>1
  <2>2. SliceFromEnd(events, n) = s
    BY <2>1 DEF SliceFromEnd
  <2> QED
    BY <2>2, Zenon DEF GetRecent, Reverse
<1>3. first \in 1..(size + 1) /\ first \in Int /\ size \in Int /\ first = size - k + 1
  <2>1. size \in Nat /\ n \in Nat /\ n > 0
    BY <1>1
  <2> HIDE DEF size
  <2>2. CASE n > size
    BY <2>1, <2>2
  <2>3. CASE ~(n > size)
    BY <2>1, <2>3
  <2> QED
    BY <2>2, <2>3
<1>4. /\ Len(s) = k
      /\ \A i \in 1..k : s[i] = events[size - k + i]
  <2>1. /\ Len(s) = IF first <= size THEN size - first + 1 ELSE 0
        /\ \A i \in 1..(size - first + 1) : s[i] = events[first + i - 1]
    <3>1. \A i \in first..size : events[i] \in Entry
      BY <1>1, <1>3
    <3> HIDE DEF first, size
    <3> QED
      BY <1>3, <3>1, SubSeqProperties
  <2>2. size \in Nat /\ k \in Nat /\ k <= size
    <3>1. size \in Nat /\ n \in Nat
      BY <1>1
    <3> HIDE DEF size
    <3> QED
      BY <3>1
  <2> HIDE DEF s, first, size, k
  <2> QED
    BY <1>3, <2>1, <2>2
<1> HIDE DEF s, first, r
<1>5. k \in Nat /\ k <= size
  BY <1>1
<1> HIDE DEF k
<1>6. Len(r) = k /\ DOMAIN r = 1..k
  BY <1>2, <1>4, <1>5
<1>7. ASSUME NEW i \in 1..k  PROVE r[i].id = idCounter - i + 1
  <2>1. r[i] = s[(k - i) + 1] /\ (k - i) + 1 \in 1..k
    BY <1>2, <1>4, <1>5
  <2>2. s[(k - i) + 1] = events[size - i + 1] /\ size - i + 1 \in 1..size
    BY <1>1, <1>4, <1>5, <2>1
  <2> QED
    BY <1>1, <2>1, <2>2
<1> QED
  BY <1>6, <1>7 DEF r, k

(* Whatever was added and cleared, the newest n records are read back      *)
(* newest first, for every size of the store and every n (get_recent).     *)
THEOREM RecentAreNewest == Spec => []RecentIsNewest
BY InitInv, NextInv, NewestCountDown, PTL DEF Spec

-----------------------------------------------------------------------------
(* The lists and the summary.                                              *)

(* Induction over the naturals, of a set instead of a predicate.           *)
LEMMA InductiveSet ==
  ASSUME NEW T, T \subseteq Nat, 0 \in T, \A n \in T : n + 1 \in T
  PROVE  T = Nat
<1> SUFFICES ASSUME Nat \ T # {} PROVE FALSE
  OBVIOUS
<1>1. \E i \in Nat \ T : \A j \in Nat \ T : ~(<<j, i>> \in OpToRel(<, Nat))
  <2>1. (Nat \ T) \subseteq Nat
    OBVIOUS
  <2> QED
    BY <2>1, NatLessThanWellFounded, WFMin
<1>2. \A i, j \in Nat : i < j => <<i, j>> \in OpToRel(<, Nat)
  BY Zenon DEF OpToRel
<1>3. PICK i \in Nat \ T : \A j \in Nat \ T : ~(j < i)
  BY <1>1, <1>2
<1>4. i - 1 \in Nat /\ i - 1 < i
  BY <1>3
<1> QED
  BY <1>3, <1>4

(* A step for each of the first n numbers defines a function.              *)
LEMMA RecursionIsDefined ==
  ASSUME NEW T, NEW base \in T, NEW size \in Nat, NEW step \in [1..size -> [T -> T]]
  PROVE  \E f \in [0..size -> T] :
             /\ f[0] = base
             /\ \A i \in 1..size : f[i] = step[i][f[i - 1]]
<1> DEFINE Upto(n) == \E f \in [0..n -> T] : f[0] = base /\ \A i \in 1..n : f[i] = step[i][f[i - 1]]
           G == {n \in Nat : n <= size => Upto(n)}
<1>1. 0 \in G
  <2> DEFINE f == [i \in 0..0 |-> base]
  <2>1. f \in [0..0 -> T] /\ f[0] = base /\ \A i \in 1..0 : f[i] = step[i][f[i - 1]]
    OBVIOUS
  <2> QED
    BY <2>1
<1>2. ASSUME NEW n \in G PROVE n + 1 \in G
  <2>1. SUFFICES ASSUME n + 1 <= size PROVE Upto(n + 1)
    BY <1>2
  <2>2. PICK f \in [0..n -> T] : f[0] = base /\ \A i \in 1..n : f[i] = step[i][f[i - 1]]
    BY <1>2, <2>1
  <2> DEFINE g == [i \in 0..(n + 1) |-> IF i = n + 1 THEN step[n + 1][f[n]] ELSE f[i]]
  <2>3. n \in Nat /\ n + 1 \in 1..size /\ n \in 0..n
    BY <1>2, <2>1
  <2>4. step[n + 1][f[n]] \in T
    BY <2>2, <2>3
  <2>5. \A i \in 0..(n + 1) : i # n + 1 => i \in 0..n
    BY <2>3
  <2>6. g \in [0..(n + 1) -> T]
    BY <2>2, <2>4, <2>5
  <2>7. g[0] = base
    BY <2>2, <2>3
  <2>8. ASSUME NEW i \in 1..(n + 1) PROVE g[i] = step[i][g[i - 1]]
    <3>1. i - 1 \in 0..n /\ i - 1 \in 0..(n + 1) /\ i - 1 # n + 1 /\ i \in 0..(n + 1)
      BY <2>3
    <3>2. g[i - 1] = f[i - 1]
      BY <3>1
    <3>3. CASE i = n + 1
      BY <2>3, <3>1, <3>2, <3>3
    <3>4. CASE i # n + 1
      <4>1. i \in 1..n
        BY <2>3, <3>4
      <4> QED
        BY <2>2, <3>1, <3>2, <3>4, <4>1
    <3> QED
      BY <3>3, <3>4
  <2> QED
    BY <2>6, <2>7, <2>8
<1> HIDE DEF Upto
<1>3. G = Nat
  BY <1>1, <1>2, InductiveSet
<1>4. Upto(size)
  BY <1>3
<1> QED
  BY <1>4 DEF Upto

(* A loop that keeps some entries adds at most one at a time.              *)
LEMMA PickedGrows ==
  ASSUME NEW S, NEW s \in Seq(S), NEW Kept
  PROVE  \E f \in [0..Len(s) -> Seq(S)] :
             /\ Picked(s, Kept) = f[Len(s)]
             /\ f[0] = <<>>
             /\ \A i \in 1..Len(s) :
                    f[i] = IF s[i] \in Kept THEN Append(f[i - 1], s[i]) ELSE f[i - 1]
<1> DEFINE n == Len(s)
           Loop(f) == [i \in 0..n |->
                         IF i = 0 THEN <<>>
                         ELSE IF s[i] \in Kept THEN Append(f[i - 1], s[i]) ELSE f[i - 1]]
           step == [i \in 1..n |-> [t \in Seq(S) |-> IF s[i] \in Kept THEN Append(t, s[i]) ELSE t]]
           the == CHOOSE f : f = Loop(f)
<1>1. n \in Nat /\ \A i \in 1..n : s[i] \in S
  OBVIOUS
<1> HIDE DEF n
<1>2. step \in [1..n -> [Seq(S) -> Seq(S)]]
  <2>1. \A i \in 1..n, t \in Seq(S) : Append(t, s[i]) \in Seq(S)
    BY <1>1, AppendProperties
  <2> QED
    BY <2>1
<1>3. <<>> \in Seq(S)
  OBVIOUS
<1>4. \A i \in 1..n, t \in Seq(S) : step[i][t] = IF s[i] \in Kept THEN Append(t, s[i]) ELSE t
  OBVIOUS
<1> HIDE DEF step
<1>5. PICK f \in [0..n -> Seq(S)] : f[0] = <<>> /\ \A i \in 1..n : f[i] = step[i][f[i - 1]]
  <2> DEFINE T == Seq(S)
             empty == <<>>
  <2>1. empty \in T /\ step \in [1..n -> [T -> T]] /\ n \in Nat
    BY <1>1, <1>2, <1>3
  <2> HIDE DEF T, empty
  <2>2. \E f \in [0..n -> T] : f[0] = empty /\ \A i \in 1..n : f[i] = step[i][f[i - 1]]
    BY <2>1, RecursionIsDefined
  <2> QED
    BY <2>2 DEF T, empty
<1>6. \A i \in 0..n : i # 0 => i \in 1..n /\ i - 1 \in 0..n
  BY <1>1
<1>7. f = Loop(f)
  <2>1. f = [i \in 0..n |-> f[i]]
    BY <1>5
  <2>2. ASSUME NEW i \in 0..n
        PROVE  f[i] = IF i = 0 THEN <<>>
                      ELSE IF s[i] \in Kept THEN Append(f[i - 1], s[i]) ELSE f[i - 1]
    <3>1. CASE i = 0
      BY <1>5, <3>1
    <3>2. CASE i # 0
      <4>1. i \in 1..n /\ f[i - 1] \in Seq(S)
        BY <1>5, <1>6, <3>2
      <4>2. f[i] = step[i][f[i - 1]]
        BY <1>5, <4>1
      <4> QED
        BY <1>4, <3>2, <4>1, <4>2
    <3> QED
      BY <3>1, <3>2
  <2> QED
    BY <2>1, <2>2
<1>8. the = Loop(the)
  BY <1>7, Zenon
<1>9. Picked(s, Kept) = the[n]
  BY Zenon DEF Picked, n
<1> HIDE DEF the
<1>10. \A i \in 0..n : the[i] = IF i = 0 THEN <<>>
                       ELSE IF s[i] \in Kept THEN Append(the[i - 1], s[i]) ELSE the[i - 1]
  BY <1>8
<1>11. DOMAIN the = 0..n /\ the = [i \in 0..n |-> the[i]]
  BY <1>8
<1> HIDE DEF Loop
<1>12. 0 \in 0..n /\ \A i \in 1..n : i \in 0..n /\ i # 0 /\ i - 1 \in 0..n
  BY <1>1
<1> DEFINE G == {i \in Nat : i <= n => the[i] \in Seq(S)}
<1>13. 0 \in G
  BY <1>3, <1>10, <1>12
<1>14. ASSUME NEW i \in G PROVE i + 1 \in G
  <2>1. SUFFICES ASSUME i + 1 <= n PROVE the[i + 1] \in Seq(S)
    BY <1>14
  <2>2. i + 1 \in 1..n /\ (i + 1) - 1 = i /\ i \in 0..n /\ the[i] \in Seq(S)
    BY <1>1, <1>14, <2>1
  <2>3. Append(the[i], s[i + 1]) \in Seq(S)
    BY <1>1, <2>2, AppendProperties
  <2> QED
    BY <1>10, <1>12, <2>2, <2>3
<1>15. G = Nat
  BY <1>13, <1>14, InductiveSet
<1>16. the \in [0..n -> Seq(S)]
  <2>1. \A i \in 0..n : i \in Nat /\ i <= n
    BY <1>1
  <2>2. \A i \in 0..n : the[i] \in Seq(S)
    BY <1>15, <2>1
  <2> QED
    BY <1>11, <2>2
<1> QED
  BY <1>9, <1>10, <1>12, <1>16 DEF n

(* The places of a sequence where an entry is kept, up to the n-th.        *)
Places(s, Kept, n) == {i \in 1..n : s[i] \in Kept}

LEMMA PlacesCount ==
  ASSUME NEW s, NEW Kept, NEW n \in Nat
  PROVE  /\ IsFiniteSet(Places(s, Kept, n))
         /\ Cardinality(Places(s, Kept, 0)) = 0
         /\ Cardinality(Places(s, Kept, n + 1)) =
                IF s[n + 1] \in Kept THEN Cardinality(Places(s, Kept, n)) + 1
                                     ELSE Cardinality(Places(s, Kept, n))
<1>1. IsFiniteSet(1..n) /\ Places(s, Kept, n) \in SUBSET (1..n)
  BY FS_Interval DEF Places
<1>2. IsFiniteSet(Places(s, Kept, n))
  BY <1>1, FS_Subset
<1>3. Cardinality(Places(s, Kept, 0)) = 0
  <2>1. Places(s, Kept, 0) = {}
    BY DEF Places
  <2> QED
    BY <2>1, FS_EmptySet
<1>4. CASE s[n + 1] \in Kept
  <2>1. Places(s, Kept, n + 1) = Places(s, Kept, n) \cup {n + 1}
    BY <1>4 DEF Places
  <2>2. n + 1 \notin Places(s, Kept, n)
    BY DEF Places
  <2> QED
    BY <1>2, <1>3, <1>4, <2>1, <2>2, FS_AddElement
<1>5. CASE s[n + 1] \notin Kept
  <2>1. Places(s, Kept, n + 1) = Places(s, Kept, n)
    BY <1>5 DEF Places
  <2> QED
    BY <1>2, <1>3, <1>5, <2>1
<1> QED
  BY <1>4, <1>5

(* A counting loop counts the places of what it counts.                    *)
LEMMA TallyCounts ==
  ASSUME NEW S, NEW s \in Seq(S), NEW Kept
  PROVE  Tally(s, Kept) = Cardinality(Places(s, Kept, Len(s)))
<1> DEFINE n == Len(s)
           Loop(f) == [i \in 0..n |->
                         IF i = 0 THEN 0
                         ELSE IF s[i] \in Kept THEN f[i - 1] + 1 ELSE f[i - 1]]
           count == [i \in 0..n |-> Cardinality(Places(s, Kept, i))]
           the == CHOOSE f : f = Loop(f)
<1>1. n \in Nat
  OBVIOUS
<1> HIDE DEF n
<1>2. ASSUME NEW i \in 0..n, i # 0
      PROVE  count[i] = IF s[i] \in Kept THEN count[i - 1] + 1 ELSE count[i - 1]
  <2>1. i - 1 \in Nat /\ i - 1 \in 0..n /\ (i - 1) + 1 = i
    BY <1>1, <1>2
  <2>2. /\ count[i] = Cardinality(Places(s, Kept, i))
        /\ count[i - 1] = Cardinality(Places(s, Kept, i - 1))
    BY <2>1
  <2> HIDE DEF count
  <2> QED
    BY <2>1, <2>2, PlacesCount
<1>3. count[0] = 0
  <2>1. 0 \in 0..n
    BY <1>1
  <2> QED
    BY <2>1, PlacesCount
<1>4. count = Loop(count)
  <2> DEFINE c == count
  <2>1. DOMAIN c = 0..n /\ c = [i \in 0..n |-> c[i]]
    OBVIOUS
  <2> HIDE DEF c
  <2>2. \A i \in 0..n : c[i] = IF i = 0 THEN 0
                           ELSE IF s[i] \in Kept THEN c[i - 1] + 1 ELSE c[i - 1]
    BY <1>2, <1>3 DEF c
  <2>3. c = Loop(c)
    BY <2>1, <2>2
  <2> QED
    BY <2>3 DEF c
<1>5. the = Loop(the)
  BY <1>4, Zenon
<1>6. Tally(s, Kept) = the[n]
  BY Zenon DEF Tally, n
<1> HIDE DEF the
<1>7. \A i \in 0..n : the[i] = IF i = 0 THEN 0
                      ELSE IF s[i] \in Kept THEN the[i - 1] + 1 ELSE the[i - 1]
  BY <1>5
<1> HIDE DEF Loop, count
<1> DEFINE G == {i \in Nat : i <= n => the[i] = count[i]}
<1>8. 0 \in G
  <2>1. 0 \in 0..n
    BY <1>1
  <2> QED
    BY <1>3, <1>7, <2>1
<1>9. ASSUME NEW i \in G PROVE i + 1 \in G
  <2>1. SUFFICES ASSUME i + 1 <= n PROVE the[i + 1] = count[i + 1]
    BY <1>9
  <2>2. i + 1 \in 0..n /\ i + 1 # 0 /\ (i + 1) - 1 = i /\ the[i] = count[i]
    BY <1>1, <1>9, <2>1
  <2> QED
    BY <1>2, <1>7, <2>2
<1>10. G = Nat
  BY <1>8, <1>9, InductiveSet
<1>11. the[n] = count[n]
  BY <1>1, <1>10
<1>12. n \in 0..n
  BY <1>1
<1> QED
  BY <1>6, <1>11, <1>12 DEF count, n

(* A filtering loop keeps what it should, as often as it stands there and  *)
(* in the order it stands there.                                           *)
LEMMA PickedKeeps ==
  ASSUME NEW S, NEW s \in Seq(S), NEW Kept
  PROVE  LET p == Picked(s, Kept) IN
           /\ p \in Seq(S)
           /\ Len(p) = Cardinality(Places(s, Kept, Len(s)))
           /\ Range(p) = Range(s) \cap Kept
           /\ NewestFirst(s) => NewestFirst(p)
<1> DEFINE n == Len(s)
<1>1. n \in Nat /\ (\A i \in 1..n : s[i] \in S) /\ DOMAIN s = 1..n
  OBVIOUS
<1>2. PICK f \in [0..n -> Seq(S)] :
        /\ Picked(s, Kept) = f[n]
        /\ f[0] = <<>>
        /\ \A i \in 1..n : f[i] = IF s[i] \in Kept THEN Append(f[i - 1], s[i]) ELSE f[i - 1]
  BY PickedGrows
<1> HIDE DEF n
<1> DEFINE Good(i) ==
             /\ Len(f[i]) = Cardinality(Places(s, Kept, i))
             /\ \A k \in 1..Len(f[i]) : \E j \in 1..i : s[j] \in Kept /\ f[i][k] = s[j]
             /\ \A j \in 1..i : s[j] \in Kept => \E k \in 1..Len(f[i]) : f[i][k] = s[j]
             /\ NewestFirst(s) => NewestFirst(f[i])
           G == {i \in Nat : i <= n => Good(i)}
<1>3. 0 \in G
  <2>1. Len(f[0]) = 0 /\ DOMAIN f[0] = {}
    BY <1>2
  <2>2. Cardinality(Places(s, Kept, 0)) = 0
    BY PlacesCount
  <2>3. NewestFirst(f[0])
    BY <2>1 DEF NewestFirst
  <2> QED
    BY <2>1, <2>2, <2>3
<1>4. ASSUME NEW i \in G PROVE i + 1 \in G
  <2>1. SUFFICES ASSUME i + 1 <= n PROVE Good(i + 1)
    BY <1>4
  <2>2. i \in Nat /\ i + 1 \in 1..n /\ (i + 1) - 1 = i /\ i \in 0..n /\ Good(i)
    BY <1>1, <1>4, <2>1
  <2> DEFINE old == f[i]
             new == f[i + 1]
  <2>3. old \in Seq(S) /\ s[i + 1] \in S /\ Len(old) \in Nat /\ DOMAIN old = 1..Len(old)
    BY <1>1, <1>2, <2>2
  <2>4. new = IF s[i + 1] \in Kept THEN Append(old, s[i + 1]) ELSE old
    BY <1>2, <2>2
  <2>5. Cardinality(Places(s, Kept, i + 1)) =
           IF s[i + 1] \in Kept THEN Len(old) + 1 ELSE Len(old)
    BY <2>2, PlacesCount
  <2>6. /\ \A k \in 1..Len(old) : \E j \in 1..i : s[j] \in Kept /\ old[k] = s[j]
        /\ \A j \in 1..i : s[j] \in Kept => \E k \in 1..Len(old) : old[k] = s[j]
        /\ NewestFirst(s) => NewestFirst(old)
    BY <2>2
  <2> HIDE DEF Good, old
  <2>7. CASE s[i + 1] \in Kept
    <3>1. /\ new \in Seq(S) /\ Len(new) = Len(old) + 1
          /\ \A k \in 1..Len(old) : new[k] = old[k]
          /\ new[Len(old) + 1] = s[i + 1]
      BY <2>3, <2>4, <2>7, AppendProperties
    <3>2. DOMAIN new = 1..(Len(old) + 1)
      BY <2>3, <3>1
    <3> HIDE DEF new
    <3>3. \A k \in 1..Len(new) : \E j \in 1..(i + 1) : s[j] \in Kept /\ new[k] = s[j]
      <4> SUFFICES ASSUME NEW k \in 1..Len(new)
                   PROVE  \E j \in 1..(i + 1) : s[j] \in Kept /\ new[k] = s[j]
        OBVIOUS
      <4>1. CASE k = Len(old) + 1
        BY <2>2, <2>7, <3>1, <4>1
      <4>2. CASE k # Len(old) + 1
        <5>1. k \in 1..Len(old)
          BY <2>3, <3>1, <4>2
        <5>2. PICK j \in 1..i : s[j] \in Kept /\ old[k] = s[j]
          BY <2>6, <5>1
        <5>3. j \in 1..(i + 1) /\ new[k] = s[j]
          BY <2>2, <3>1, <5>1, <5>2
        <5> QED
          BY <5>2, <5>3
      <4> QED
        BY <4>1, <4>2
    <3>4. \A j \in 1..(i + 1) : s[j] \in Kept => \E k \in 1..Len(new) : new[k] = s[j]
      <4> SUFFICES ASSUME NEW j \in 1..(i + 1), s[j] \in Kept
                   PROVE  \E k \in 1..Len(new) : new[k] = s[j]
        OBVIOUS
      <4>1. CASE j = i + 1
        BY <2>3, <3>1, <4>1
      <4>2. CASE j # i + 1
        <5>1. j \in 1..i
          BY <2>2, <4>2
        <5>2. PICK k \in 1..Len(old) : old[k] = s[j]
          BY <2>6, <5>1
        <5>3. k \in 1..Len(new) /\ new[k] = s[j]
          BY <2>3, <3>1, <5>2
        <5> QED
          BY <5>3
      <4> QED
        BY <4>1, <4>2
    <3>5. ASSUME NewestFirst(s) PROVE NewestFirst(new)
      <4> SUFFICES ASSUME NEW a \in 1..(Len(old) + 1), NEW b \in 1..(Len(old) + 1), a < b
                   PROVE  new[a].id > new[b].id
        BY <3>2 DEF NewestFirst
      <4>1. a \in 1..Len(old) /\ new[a] = old[a]
        BY <2>3, <3>1
      <4>2. CASE b = Len(old) + 1
        <5>1. PICK j \in 1..i : old[a] = s[j]
          BY <2>6, <4>1
        <5>2. j \in DOMAIN s /\ i + 1 \in DOMAIN s /\ j < i + 1
          BY <1>1, <2>2
        <5>3. s[j].id > s[i + 1].id
          BY <3>5, <5>2 DEF NewestFirst
        <5> QED
          BY <3>1, <4>1, <4>2, <5>1, <5>3
      <4>3. CASE b # Len(old) + 1
        <5>1. b \in 1..Len(old)
          BY <2>3, <4>3
        <5>2. new[b] = old[b]
          BY <3>1, <5>1
        <5>3. old[a].id > old[b].id
          BY <2>3, <2>6, <3>5, <4>1, <5>1 DEF NewestFirst
        <5> QED
          BY <4>1, <5>2, <5>3
      <4> QED
        BY <4>2, <4>3
    <3> QED
      BY <2>5, <2>7, <3>1, <3>3, <3>4, <3>5 DEF Good, new
  <2>8. CASE s[i + 1] \notin Kept
    <3>1. new = old
      BY <2>4, <2>8
    <3>2. \A k \in 1..Len(old) : \E j \in 1..(i + 1) : s[j] \in Kept /\ old[k] = s[j]
      <4>1. \A j \in 1..i : j \in 1..(i + 1)
        BY <2>2
      <4> QED
        BY <2>6, <4>1
    <3>3. \A j \in 1..(i + 1) : s[j] \in Kept => \E k \in 1..Len(old) : old[k] = s[j]
      <4>1. \A j \in 1..(i + 1) : j # i + 1 => j \in 1..i
        BY <2>2
      <4> QED
        BY <2>6, <2>8, <4>1
    <3> QED
      BY <2>5, <2>6, <2>8, <3>1, <3>2, <3>3 DEF Good, new
  <2> QED
    BY <2>7, <2>8
<1> HIDE DEF Good
<1>5. G = Nat
  BY <1>3, <1>4, InductiveSet
<1>6. Good(n)
  <2>1. n \in G
    BY <1>1, <1>5
  <2> QED
    BY <1>1, <2>1
<1> DEFINE p == f[n]
<1>7. p \in Seq(S)
  BY <1>1, <1>2
<1>8. DOMAIN p = 1..Len(p)
  BY <1>7
<1>9. Range(p) = Range(s) \cap Kept
  <2>1. ASSUME NEW e \in Range(p) PROVE e \in Range(s) \cap Kept
    BY <1>1, <1>6, <1>8 DEF Good, Range
  <2>2. ASSUME NEW e \in Range(s), e \in Kept PROVE e \in Range(p)
    <3>1. PICK j \in 1..n : e = s[j]
      BY <1>1, <2>2 DEF Range
    <3>2. PICK k \in 1..Len(p) : p[k] = s[j]
      BY <1>6, <2>2, <3>1 DEF Good
    <3> QED
      BY <1>8, <3>1, <3>2 DEF Range
  <2> QED
    BY <2>1, <2>2
<1> QED
  BY <1>2, <1>6, <1>7, <1>9 DEF Good, n

(* Turned round, a sequence has as many places of each kind.               *)
LEMMA ReverseKeepsPlaces ==
  ASSUME NEW S, NEW s \in Seq(S), NEW Kept
  PROVE  LET r == Reverse(s) IN
           /\ r \in Seq(S) /\ Len(r) = Len(s) /\ Range(r) = Range(s)
           /\ Cardinality(Places(r, Kept, Len(r))) = Cardinality(Places(s, Kept, Len(s)))
<1> DEFINE n == Len(s)
           r == Reverse(s)
           A == Places(s, Kept, n)
           B == Places(r, Kept, n)
<1>1. n \in Nat /\ DOMAIN s = 1..n /\ \A i \in 1..n : s[i] \in S
  OBVIOUS
<1>2. r = [i \in 1..n |-> s[(n - i) + 1]]
  BY DEF Reverse
<1> HIDE DEF n
<1>3. \A i \in 1..n : (n - i) + 1 \in 1..n /\ (n - ((n - i) + 1)) + 1 = i
  BY <1>1
<1>4. r \in Seq(S) /\ Len(r) = n /\ DOMAIN r = 1..n
  BY <1>1, <1>2, <1>3
<1>5. \A i \in 1..n : r[i] = s[(n - i) + 1]
  BY <1>2
<1> HIDE DEF r
<1>6. Range(r) = Range(s)
  <2>1. ASSUME NEW e \in Range(r) PROVE e \in Range(s)
    <3>1. PICK i \in 1..n : e = r[i]
      BY <1>4 DEF Range
    <3> QED
      BY <1>1, <1>3, <1>5, <3>1 DEF Range
  <2>2. ASSUME NEW e \in Range(s) PROVE e \in Range(r)
    <3>1. PICK i \in 1..n : e = s[i]
      BY <1>1 DEF Range
    <3>2. (n - i) + 1 \in 1..n /\ r[(n - i) + 1] = s[i]
      BY <1>3, <1>5
    <3> QED
      BY <1>4, <3>1, <3>2 DEF Range
  <2> QED
    BY <2>1, <2>2
<1>7. Cardinality(B) = Cardinality(A)
  <2> DEFINE turn == [i \in A |-> (n - i) + 1]
  <2>1. IsFiniteSet(A)
    BY <1>1, PlacesCount
  <2>2. \A i \in A : i \in 1..n /\ s[i] \in Kept
    BY DEF Places
  <2>3. \A i \in B : i \in 1..n /\ r[i] \in Kept
    BY DEF Places
  <2>4. \A i \in A : (n - i) + 1 \in B
    <3>1. \A i \in 1..n : r[(n - i) + 1] = s[i]
      BY <1>3, <1>5
    <3> QED
      BY <1>3, <2>2, <3>1 DEF Places
  <2>5. \A i \in B : (n - i) + 1 \in A
    BY <1>3, <1>5, <2>3 DEF Places
  <2> HIDE DEF A, B
  <2>6. turn \in [A -> B]
    BY <2>4
  <2>7. \A i, j \in A : turn[i] = turn[j] => i = j
    BY <1>1, <2>2
  <2>8. \A j \in B : \E i \in A : turn[i] = j
    <3> SUFFICES ASSUME NEW j \in B PROVE \E i \in A : turn[i] = j
      OBVIOUS
    <3>1. (n - j) + 1 \in A /\ turn[(n - j) + 1] = (n - ((n - j) + 1)) + 1
      BY <2>5
    <3>2. turn[(n - j) + 1] = j
      BY <1>3, <2>3, <3>1
    <3> QED
      BY <3>1, <3>2
  <2> HIDE DEF turn
  <2>9. turn \in Bijection(A, B)
    <3>1. turn \in Injection(A, B)
      BY <2>6, <2>7 DEF Injection, IsInjective
    <3>2. turn \in Surjection(A, B)
      BY <2>6, <2>8 DEF Surjection
    <3> QED
      BY <3>1, <3>2 DEF Bijection
  <2>10. ExistsBijection(A, B)
    BY <2>9 DEF ExistsBijection
  <2> QED
    BY <2>1, <2>10, FS_Bijection
<1> QED
  BY <1>4, <1>6, <1>7 DEF r, n

(* What get_by_severity and get_by_namespace return.                       *)
LEMMA ListOf ==
  ASSUME events \in Seq(Entry), IdsAreAWindow, idCounter \in Nat, NEW Kept, Kept \subseteq Range(events)
  PROVE  LET list == Picked(GetAll, Kept) IN
           /\ Len(list) = Tally(events, Kept)
           /\ NewestFirst(list) /\ Range(list) = Kept
<1> DEFINE r == Reverse(events)
<1>1. /\ r \in Seq(Entry) /\ Len(r) = Len(events) /\ Range(r) = Range(events)
      /\ Cardinality(Places(r, Kept, Len(r))) = Cardinality(Places(events, Kept, Len(events)))
  BY ReverseKeepsPlaces
<1>2. NewestFirst(r)
  <2>1. r = [i \in 1..Len(events) |-> events[(Len(events) - i) + 1]]
    BY DEF Reverse
  <2>2. Len(events) \in Nat /\ DOMAIN events = 1..Len(events)
    OBVIOUS
  <2>3. \A i \in 1..Len(events) : r[i].id = idCounter - i + 1
    BY <2>1, <2>2 DEF IdsAreAWindow
  <2>4. DOMAIN r = 1..Len(events)
    BY <2>1
  <2> HIDE DEF r
  <2> QED
    BY <2>2, <2>3, <2>4 DEF NewestFirst
<1>3. GetAll = r
  BY DEF GetAll
<1> HIDE DEF r
<1>4. /\ Len(Picked(r, Kept)) = Cardinality(Places(r, Kept, Len(r)))
      /\ Range(Picked(r, Kept)) = Range(r) \cap Kept
      /\ NewestFirst(r) => NewestFirst(Picked(r, Kept))
  BY <1>1, PickedKeeps
<1>5. Tally(events, Kept) = Cardinality(Places(events, Kept, Len(events)))
  BY TallyCounts
<1> QED
  BY <1>1, <1>2, <1>3, <1>4, <1>5

(* An id is held by at most one entry, so the first with it is the one.    *)
LEMMA FoundById == IInv => IdsAreFound
<1> SUFFICES ASSUME IInv, NEW id \in 1..MaxAdds
             PROVE  GetById(id) = IF id \in (idCounter - Len(events) + 1)..idCounter
                                  THEN <<events[id - (idCounter - Len(events))]>> ELSE <<>>
  BY DEF IdsAreFound
<1> DEFINE size == Len(events)
           at == id - (idCounter - size)
           found == {i \in 1..size : events[i].id = id}
           i == SelectInSeq(events, LAMBDA e : e.id = id)
<1>1. size \in Nat /\ idCounter \in Nat /\ id \in Nat
  BY StoreAssumption DEF StoreAssumption, IInv, TypeOK
<1>2. \A j \in 1..size : events[j].id = idCounter - size + j
  <2>1. DOMAIN events = 1..size
    BY DEF IInv, TypeOK
  <2> QED
    BY <2>1 DEF IInv, IdsAreAWindow
<1>3. i = IF found # {} THEN Min(found) ELSE 0
  BY Zenon DEF SelectInSeq
<1>4. GetById(id) = IF i = 0 THEN <<>> ELSE <<events[i]>>
  BY Zenon DEF GetById
<1> HIDE DEF i, size
<1>5. CASE id \in (idCounter - size + 1)..idCounter
  <2>1. at \in 1..size /\ found = {at}
    BY <1>1, <1>2, <1>5
  <2>2. at \in Nat /\ at # 0 /\ found # {}
    BY <1>1, <2>1
  <2> HIDE DEF found, at
  <2>3. Min(found) = at
    BY <2>1, <2>2 DEF Min
  <2>4. i = at
    BY <1>3, <2>2, <2>3
  <2>5. GetById(id) = <<events[at]>>
    BY <1>4, <2>2, <2>4
  <2> QED
    BY <1>5, <2>5 DEF size, at
<1>6. CASE id \notin (idCounter - size + 1)..idCounter
  <2>1. found = {}
    BY <1>1, <1>2, <1>6
  <2> QED
    BY <1>3, <1>4, <1>6, <2>1 DEF size
<1> QED
  BY <1>5, <1>6

(* Severities part the records, so their counts add up to all of them.     *)
LEMMA SeveritiesAddUp ==
  ASSUME TypeOK
  PROVE  Len(events) = Tally(events, OfSeverity("low")) + Tally(events, OfSeverity("medium"))
                         + Tally(events, OfSeverity("high"))
<1> DEFINE n == Len(events)
           L == Places(events, OfSeverity("low"), n)
           M == Places(events, OfSeverity("medium"), n)
           H == Places(events, OfSeverity("high"), n)
<1>1. events \in Seq(Entry) /\ n \in Nat /\ DOMAIN events = 1..n
  BY DEF TypeOK
<1>2. /\ Tally(events, OfSeverity("low")) = Cardinality(L)
      /\ Tally(events, OfSeverity("medium")) = Cardinality(M)
      /\ Tally(events, OfSeverity("high")) = Cardinality(H)
  BY <1>1, TallyCounts
<1>3. ASSUME NEW sev
      PROVE  /\ Places(events, OfSeverity(sev), n) = {i \in 1..n : events[i].rec.severity = sev}
             /\ IsFiniteSet(Places(events, OfSeverity(sev), n))
             /\ Cardinality(Places(events, OfSeverity(sev), n)) \in Nat
  <2>1. \A i \in 1..n : events[i] \in Range(events)
    BY <1>1 DEF Range
  <2>2. IsFiniteSet(Places(events, OfSeverity(sev), n))
    BY <1>1, PlacesCount
  <2> QED
    BY <2>1, <2>2, FS_CardinalityType DEF Places, OfSeverity
<1>4. \A i \in 1..n : events[i].rec.severity \in Severities
  <2>1. \A i \in 1..n : events[i] \in Entry
    BY <1>1
  <2> HIDE DEF n
  <2> QED
    BY <2>1, StoreAssumption DEF StoreAssumption, Entry
<1>5. L \cup M \cup H = 1..n /\ L \cap M = {} /\ (L \cup M) \cap H = {}
  <2>1. /\ L = {i \in 1..n : events[i].rec.severity = "low"}
        /\ M = {i \in 1..n : events[i].rec.severity = "medium"}
        /\ H = {i \in 1..n : events[i].rec.severity = "high"}
    BY <1>3
  <2> HIDE DEF L, M, H, n
  <2> QED
    BY <1>4, <2>1 DEF Severities
<1>6. /\ IsFiniteSet(L) /\ IsFiniteSet(M) /\ IsFiniteSet(H)
      /\ Cardinality(L) \in Nat /\ Cardinality(M) \in Nat /\ Cardinality(H) \in Nat
  BY <1>3
<1> HIDE DEF L, M, H, n
<1>7. ASSUME NEW A, NEW B, IsFiniteSet(A), IsFiniteSet(B), A \cap B = {}
      PROVE  /\ IsFiniteSet(A \cup B)
             /\ Cardinality(A \cup B) = Cardinality(A) + Cardinality(B)
  <2>1. Cardinality(A \cap B) = 0
    BY <1>7, FS_EmptySet
  <2>2. /\ IsFiniteSet(A \cup B)
        /\ Cardinality(A \cup B) = Cardinality(A) + Cardinality(B) - Cardinality(A \cap B)
    BY <1>7, FS_Union
  <2>3. Cardinality(A) \in Nat /\ Cardinality(B) \in Nat
    BY <1>7, FS_CardinalityType
  <2> QED
    BY <2>1, <2>2, <2>3
<1>8. Cardinality(L \cup M \cup H) = Cardinality(L) + Cardinality(M) + Cardinality(H)
  <2>1. IsFiniteSet(L \cup M) /\ Cardinality(L \cup M) = Cardinality(L) + Cardinality(M)
    BY <1>5, <1>6, <1>7
  <2>2. Cardinality((L \cup M) \cup H) = Cardinality(L \cup M) + Cardinality(H)
    BY <1>5, <1>6, <1>7, <2>1
  <2> QED
    BY <2>1, <2>2
<1>9. Cardinality(1..n) = n
  BY <1>1, FS_Interval
<1> QED
  BY <1>2, <1>5, <1>8, <1>9 DEF n

LEMMA NothingOfTheUnseen ==
  ASSUME TypeOK, NEW sev, sev \notin {e.rec.severity : e \in Range(events)}
  PROVE  Tally(events, OfSeverity(sev)) = 0
<1>1. OfSeverity(sev) = {}
  BY DEF OfSeverity
<1>2. Places(events, OfSeverity(sev), Len(events)) = {}
  BY <1>1 DEF Places
<1>3. Tally(events, OfSeverity(sev)) = Cardinality(Places(events, OfSeverity(sev), Len(events)))
  BY TallyCounts DEF TypeOK
<1> QED
  BY <1>2, <1>3, FS_EmptySet

LEMMA SummaryIsTrue == IInv => ListsMatchSummary
<1> SUFFICES ASSUME IInv PROVE ListsMatchSummary
  OBVIOUS
<1> DEFINE seen == {e.rec.severity : e \in Range(events)}
           named == {e.rec.namespace : e \in Range(events)} \ {""}
<1>1. /\ Summary.total_events = Len(events)
      /\ Summary.by_severity = [s \in seen |-> Tally(events, OfSeverity(s))]
      /\ Summary.by_namespace = [n \in named |-> Tally(events, OfNamespace(n))]
  BY Zenon DEF Summary
<1>2. events \in Seq(Entry) /\ IdsAreAWindow /\ idCounter \in Nat
  BY StoreAssumption DEF StoreAssumption, IInv, TypeOK
<1>3. ASSUME NEW Kept, Kept \subseteq Range(events)
      PROVE  LET list == Picked(GetAll, Kept) IN
               /\ Len(list) = Tally(events, Kept)
               /\ NewestFirst(list) /\ Range(list) = Kept
  BY <1>2, <1>3, ListOf
<1>4. ASSUME NEW s \in DOMAIN Summary.by_severity
      PROVE  LET list == GetBySeverity(s) IN
               /\ Len(list) = Summary.by_severity[s]
               /\ NewestFirst(list) /\ Range(list) = OfSeverity(s)
  <2>1. OfSeverity(s) \subseteq Range(events)
    BY DEF OfSeverity
  <2>2. Summary.by_severity[s] = Tally(events, OfSeverity(s))
    BY <1>1
  <2> QED
    BY <1>3, <2>1, <2>2 DEF GetBySeverity
<1>5. ASSUME NEW n \in DOMAIN Summary.by_namespace
      PROVE  LET list == GetByNamespace(n) IN
               /\ Len(list) = Summary.by_namespace[n]
               /\ NewestFirst(list) /\ Range(list) = OfNamespace(n)
  <2>1. OfNamespace(n) \subseteq Range(events)
    BY DEF OfNamespace
  <2>2. Summary.by_namespace[n] = Tally(events, OfNamespace(n))
    BY <1>1
  <2> QED
    BY <1>3, <2>1, <2>2 DEF GetByNamespace
<1> DEFINE Counted(sev) == IF sev \in DOMAIN Summary.by_severity THEN Summary.by_severity[sev] ELSE 0
<1>6. \A sev : Counted(sev) = Tally(events, OfSeverity(sev))
  <2> TAKE sev
  <2>1. CASE sev \in seen
    BY <1>1, <2>1
  <2>2. CASE sev \notin seen
    BY <1>1, <2>2, NothingOfTheUnseen DEF IInv
  <2> QED
    BY <2>1, <2>2
<1> HIDE DEF Counted
<1>7. Summary.total_events = Counted("low") + Counted("medium") + Counted("high")
  BY <1>1, <1>6, SeveritiesAddUp DEF IInv
<1> QED
  BY <1>4, <1>5, <1>7, Zenon DEF ListsMatchSummary, Counted

(* The newest records, the record of an id, the lists of a severity or a   *)
(* namespace and the summary agree with the store and with each other, for *)
(* every size of it and after any calls (core/__init__.py:34-108).         *)
THEOREM ReadersTellOneStory == Spec => []ReadersAgree
<1>1. IInv => ReadersAgree
  BY NewestCountDown, FoundById, SummaryIsTrue DEF ReadersAgree
<1> QED
  BY <1>1, InitInv, NextInv, PTL DEF Spec

-----------------------------------------------------------------------------
(* Refinement of AuditWindow.                                              *)

(* The window of the abstract trail, as the instance in EventStore reads   *)
(* it off the buffer.                                                      *)
Window == [i \in {k \in 1..idCounter : k > idCounter - MaxSize} |->
             events[Len(events) - (idCounter - i)].rec]

LEMMA ClearIsReset ==
  ASSUME idCounter = 0
  PROVE  Window = [i \in Trail!Kept(0) |-> 0]
BY StoreAssumption DEF StoreAssumption, Window, Trail!Kept

(* An Add appends the record to the window and lets the number fall out    *)
(* that is no longer kept.                                                 *)
LEMMA AddIsRecord ==
  ASSUME IInv, NEW r \in Records, Add(r)
  PROVE  Trail!Record(r)
<1> DEFINE e == [id |-> idCounter + 1, rec |-> r]
           d == Dropped(Len(events))
           n == idCounter
<1>1. /\ events \in Seq(Entry) /\ Len(events) \in Nat /\ Len(events) <= MaxSize
      /\ n \in Nat /\ MaxSize \in Nat
  BY StoreAssumption DEF StoreAssumption, IInv, TypeOK
<1>2. e \in Entry
  BY <1>1 DEF Entry
<1>3. /\ Len(events') = Len(events) + 1 - d
      /\ \A i \in 1..Len(events') :
           events'[i] = IF i + d = Len(events) + 1 THEN e ELSE events[i + d]
  <2> HIDE DEF e
  <2>1. events' = Bounded(Append(events, e))
    BY DEF Add, e
  <2> QED
    BY <1>1, <1>2, <2>1, BoundedAppend
<1>4. n' = n + 1
  BY DEF Add
<1>5. d \in {0, 1} /\ (d = 0 <=> Len(events) < MaxSize)
  BY DEF Dropped
<1>6. Len(events) = IF n < MaxSize THEN n ELSE MaxSize
  BY DEF IInv, IdsAreAWindow
<1>7. Trail!Kept(n + 1) = {k \in 1..n' : k > n' - MaxSize}
  BY <1>1, <1>4 DEF Trail!Kept
<1> HIDE DEF e, d
<1>8. ASSUME NEW i \in Trail!Kept(n + 1)
      PROVE  events'[Len(events') - (n' - i)].rec = IF i = n + 1 THEN r ELSE Window[i]
  <2>1. i \in 1..(n + 1) /\ i > n + 1 - MaxSize
    BY <1>1, <1>4, <1>7
  <2>2. Len(events') - (n' - i) \in 1..Len(events')
    BY <1>1, <1>3, <1>4, <1>5, <1>6, <2>1
  <2>3. CASE i = n + 1
    <3>1. Len(events') - (n' - i) + d = Len(events) + 1
      BY <1>1, <1>3, <1>4, <1>5, <2>3
    <3>2. events'[Len(events') - (n' - i)] = e
      BY <1>3, <2>2, <3>1
    <3> QED
      BY <2>3, <3>2 DEF e
  <2>4. CASE i # n + 1
    <3>1. /\ Len(events') - (n' - i) + d = Len(events) - (n - i)
          /\ Len(events) - (n - i) # Len(events) + 1
      BY <1>1, <1>3, <1>4, <1>5, <2>1, <2>4
    <3>2. events'[Len(events') - (n' - i)] = events[Len(events) - (n - i)]
      BY <1>3, <2>2, <3>1
    <3>3. i \in {k \in 1..n : k > n - MaxSize}
      BY <1>1, <2>1, <2>4
    <3> QED
      BY <2>4, <3>2, <3>3 DEF Window
  <2> QED
    BY <2>3, <2>4
<1>9. Window' = [i \in Trail!Kept(n + 1) |-> IF i = n + 1 THEN r ELSE Window[i]]
  BY <1>7, <1>8 DEF Window
<1> QED
  BY <1>4, <1>9 DEF Trail!Record, Window

(* Every step of the store is a step of the audit trail.                   *)
LEMMA StepRefines == IInv /\ [Next]_vars => [Trail!Next]_(Trail!vars)
<1> SUFFICES ASSUME IInv, [Next]_vars PROVE [Trail!Next]_(Trail!vars)
  OBVIOUS
<1>1. CASE Clear
  <2>1. idCounter' = 0
    BY <1>1 DEF Clear
  <2>2. Window' = [i \in Trail!Kept(0) |-> 0]
    BY <2>1, StoreAssumption DEF StoreAssumption, Window, Trail!Kept
  <2> QED
    BY <2>1, <2>2 DEF Trail!Next, Trail!Reset, Window
<1>2. ASSUME NEW r \in Records, Add(r) PROVE Trail!Next
  BY <1>2, AddIsRecord DEF Trail!Next
<1>3. CASE UNCHANGED vars
  BY <1>3 DEF vars, Trail!vars
<1> QED
  BY <1>1, <1>2, <1>3 DEF Next

(* The ring buffer implements the audit trail: number n names the same     *)
(* record until MaxSize newer ones have come, then none                    *)
(* (core/__init__.py:21-32, 114-120).                                      *)
THEOREM StoreImplementsTrail == Spec => ImplementsAuditWindow
<1>1. Init => Trail!Init
  BY ClearIsReset DEF Init, Trail!Init, Window
<1> QED
  BY <1>1, InitInv, NextInv, StepRefines, PTL DEF Spec, ImplementsAuditWindow, Trail!Spec
=============================================================================

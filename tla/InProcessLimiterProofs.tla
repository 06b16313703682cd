------------------------ MODULE InProcessLimiterProofs ------------------------
(***************************************************************************)
(* Proofs about InProcessLimiter, for any number of threads, keys, calls   *)
(* and moments, any limit, window and cap: what the sliding window         *)
(* promises while calls do not overlap, and what is left of it when the    *)
(* threads of a process run through each other.                            *)
(***************************************************************************)
EXTENDS InProcessLimiter, FiniteSetTheorems, SequenceTheorems, WellFoundedInduction, TLAPS
-----------------------------------------------------------------------------
(* Two facts about finite sets, and three about orders of keys.            *)

(* One element more is at most one more.                                   *)
LEMMA OneMore ==
    ASSUME NEW S, IsFiniteSet(S), NEW x
    PROVE  /\ IsFiniteSet(S \cup {x})
           /\ x \notin S => Cardinality(S \cup {x}) = Cardinality(S) + 1
BY FS_AddElement

(* The image of a finite set is no larger.                                 *)
LEMMA ImageIsSmall ==
    ASSUME NEW S, IsFiniteSet(S), NEW R, NEW f \in [S -> R]
    PROVE  /\ IsFiniteSet({f[x] : x \in S})
           /\ Cardinality({f[x] : x \in S}) <= Cardinality(S)
<1> DEFINE T == {f[x] : x \in S}
<1>1. f \in Surjection(S, T)
    BY DEF Surjection
<1> QED BY <1>1, FS_Surjection

(* A set of naturals that is not empty has a least element.                *)
LEMMA LeastNatural ==
    ASSUME NEW T, T \subseteq Nat, T # {}
    PROVE  \E x \in T : \A y \in T : x <= y
<1>1. \E x \in T : \A y \in T : ~(<<y, x>> \in OpToRel(<, Nat))
    BY WFMin, NatLessThanWellFounded
<1>2. \A x, y \in Nat : y < x => <<y, x>> \in OpToRel(<, Nat)
    BY Zenon DEF OpToRel
<1>3. \E x \in T : \A y \in T : ~(y < x)
    BY <1>1, <1>2, Zenon
<1> QED BY <1>3

(* The first timestamp of a list is the one with the least number.         *)
LEMMA FirstIsFirst ==
    ASSUME TypeOK, NEW l \in Lists, heap[l] # {}
    PROVE  First(l) \in heap[l] /\ \A g \in heap[l] : First(l).n <= g.n
<1> DEFINE T == {h.n : h \in heap[l]}
<1>1. heap[l] \subseteq Hit
    BY DEF TypeOK
<1>2. T \subseteq Nat /\ T # {}
    BY <1>1 DEF Hit
<1>3. PICK x \in T : \A y \in T : x <= y
    <2> HIDE DEF T
    <2> QED BY <1>2, LeastNatural
<1>4. PICK h \in heap[l] : x = h.n
    BY <1>3
<1>5. \A g \in heap[l] : h.n <= g.n
    BY <1>3, <1>4
<1> QED BY <1>5 DEF First

(* A full list is not empty.                                               *)
LEMMA FullIsNotEmpty == \A l : IsFull(l) => heap[l] # {}
<1>1. Cardinality({}) = 0 /\ ~(0 >= Limit)
    BY FS_EmptySet, LimiterAssumption
<1> QED BY <1>1 DEF IsFull

(* Retry-After is whole and at least one.                                  *)
LEMMA RetryIs ==
    ASSUME TypeOK, NEW l \in Lists, heap[l] # {}, NEW at \in Time
    PROVE  /\ First(l).at \in Time
           /\ RetryAfter(l, at) = IF First(l).at + Window - at >= 1
                                  THEN First(l).at + Window - at ELSE 1
<1>1. First(l) \in Hit
    BY FirstIsFirst DEF TypeOK
<1>2. First(l).at \in Time
    BY <1>1 DEF Hit
<1> DEFINE x == First(l).at + Window - at
<1>3. x \in Int
    BY <1>2, LimiterAssumption DEF Time
<1> HIDE DEF x
<1>4. Max({1, x}) \in {1, x} /\ \A y \in {1, x} : Max({1, x}) >= y
    BY <1>3 DEF Max
<1> QED BY <1>2, <1>3, <1>4 DEF RetryAfter, x

(* There is always a list that nothing refers to.                          *)
LEMMA NewListIsNew ==
    ASSUME TypeOK PROVE NewList \in Lists \ InUse /\ NewList # NoList
<1> DEFINE A == {hits[k] : k \in Keys}
           B == {mine[t] : t \in Threads}
           n == Cardinality(Keys)
           m == Cardinality(Threads)
<1>1. n \in Nat /\ m \in Nat
    BY FinitelyMany, FS_CardinalityType
<1>2. /\ IsFiniteSet(A) /\ Cardinality(A) <= n
      /\ IsFiniteSet(B) /\ Cardinality(B) <= m
    <2>1. hits \in [Keys -> Lists \cup {NoList}] /\ mine \in [Threads -> Lists \cup {NoList}]
        BY DEF TypeOK
    <2>2. IsFiniteSet(A) /\ Cardinality(A) <= n
        BY <2>1, FinitelyMany, ImageIsSmall
    <2>3. IsFiniteSet(B) /\ Cardinality(B) <= m
        BY <2>1, FinitelyMany, ImageIsSmall
    <2> QED BY <2>2, <2>3
<1>3. IsFiniteSet(A \cup B) /\ Cardinality(A \cup B) <= n + m
    <2> HIDE DEF A, B, n, m
    <2>1. /\ IsFiniteSet(A \cup B) /\ IsFiniteSet(A \cap B)
          /\ Cardinality(A \cup B) = Cardinality(A) + Cardinality(B) - Cardinality(A \cap B)
        BY <1>2, FS_Union, FS_Intersection
    <2>2. Cardinality(A) \in Nat /\ Cardinality(B) \in Nat /\ Cardinality(A \cap B) \in Nat
        BY <1>2, <2>1, FS_CardinalityType
    <2> QED BY <1>1, <1>2, <2>1, <2>2
<1>4. IsFiniteSet(Lists) /\ Cardinality(Lists) = n + m + 1
    <2> HIDE DEF n, m
    <2>1. Lists = 1 .. n + m + 1
        BY DEF Lists, n, m
    <2> QED BY <1>1, <2>1, FS_Interval
<1>5. ~(Lists \subseteq A \cup B)
    <2> SUFFICES ASSUME Lists \subseteq A \cup B PROVE FALSE
        OBVIOUS
    <2> HIDE DEF A, B, n, m
    <2>1. Cardinality(Lists) <= Cardinality(A \cup B)
        BY <1>3, FS_Subset
    <2>2. Cardinality(A \cup B) \in Nat
        BY <1>3, FS_CardinalityType
    <2> QED BY <1>1, <1>3, <1>4, <2>1, <2>2
<1>6. InUse = A \cup B
    BY DEF InUse
<1>7. \E l \in Lists : l \notin InUse
    BY <1>5, <1>6
<1>8. NewList \in Lists \ InUse
    BY <1>7 DEF NewList
<1>9. Lists \subseteq Nat
    BY <1>1 DEF Lists
<1> QED BY <1>8, <1>9, NoListAssumption

(* A key that is in no order goes to the end.                              *)
LEMMA OrderAppended ==
    ASSUME NEW S, NEW s \in Seq(S), NEW k \in S, IsInjective(s), k \notin ToSet(s)
    PROVE  /\ Append(s, k) \in Seq(S) /\ IsInjective(Append(s, k))
           /\ ToSet(Append(s, k)) = ToSet(s) \cup {k}
<1>1. /\ Append(s, k) \in Seq(S) /\ Len(Append(s, k)) = Len(s) + 1 /\ Len(s) \in Nat
      /\ \A i \in 1 .. Len(s) : Append(s, k)[i] = s[i]
      /\ Append(s, k)[Len(s) + 1] = k
    OBVIOUS
<1>2. DOMAIN s = 1 .. Len(s) /\ DOMAIN Append(s, k) = 1 .. Len(s) + 1
    BY <1>1, LenProperties
<1>3. \A i \in 1 .. Len(s) : s[i] # k
    BY <1>2 DEF ToSet
<1>4. ToSet(Append(s, k)) = ToSet(s) \cup {k}
    BY <1>1, <1>2 DEF ToSet
<1>5. IsInjective(Append(s, k))
    BY <1>1, <1>2, <1>3 DEF IsInjective
<1> QED BY <1>1, <1>4, <1>5

(* The first of an order, and the rest.                                    *)
LEMMA OrderPopped ==
    ASSUME NEW S, NEW s \in Seq(S), s # <<>>
    PROVE  /\ Head(s) \in S /\ Tail(s) \in Seq(S)
           /\ ToSet(s) = ToSet(Tail(s)) \cup {Head(s)}
           /\ IsInjective(s) => /\ IsInjective(Tail(s))
                                /\ Head(s) \notin ToSet(Tail(s))
<1>1. /\ Head(s) \in S /\ Tail(s) \in Seq(S) /\ Len(Tail(s)) = Len(s) - 1
      /\ \A i \in 1 .. Len(Tail(s)) : Tail(s)[i] = s[i + 1]
    BY HeadTailProperties
<1>2. /\ DOMAIN s = 1 .. Len(s) /\ DOMAIN Tail(s) = 1 .. Len(s) - 1 /\ Len(s) \in Nat \ {0}
      /\ Head(s) = s[1]
    BY <1>1, LenProperties, EmptySeq
<1>3. ToSet(Tail(s)) = {s[i] : i \in 2 .. Len(s)}
    <2>1. \A i \in 1 .. Len(s) - 1 : i + 1 \in 2 .. Len(s) /\ Tail(s)[i] = s[i + 1]
        BY <1>1, <1>2
    <2>2. \A j \in 2 .. Len(s) : j - 1 \in 1 .. Len(s) - 1 /\ s[j] = Tail(s)[j - 1]
        BY <1>1, <1>2
    <2> QED BY <1>2, <2>1, <2>2 DEF ToSet
<1>4. ToSet(s) = ToSet(Tail(s)) \cup {Head(s)}
    <2>1. \A i \in 1 .. Len(s) : i = 1 \/ i \in 2 .. Len(s)
        BY <1>2
    <2>2. \A i \in 2 .. Len(s) : i \in 1 .. Len(s)
        BY <1>2
    <2>3. 1 \in 1 .. Len(s)
        BY <1>2
    <2> QED BY <1>2, <1>3, <2>1, <2>2, <2>3 DEF ToSet
<1>5. ASSUME IsInjective(s)
      PROVE  IsInjective(Tail(s)) /\ Head(s) \notin ToSet(Tail(s))
    <2>1. IsInjective(Tail(s))
        BY <1>1, <1>2, <1>5 DEF IsInjective
    <2>2. \A i \in 2 .. Len(s) : s[i] # s[1]
        BY <1>2, <1>5 DEF IsInjective
    <2> QED BY <1>2, <1>3, <2>1, <2>2
<1> QED BY <1>1, <1>4, <1>5

(* An order without one of its keys is one of the others.                  *)
LEMMA OrderWithout ==
    ASSUME NEW S, NEW s \in Seq(S), NEW p \in DOMAIN s, IsInjective(s)
    PROVE  /\ RemoveAt(s, p) \in Seq(S) /\ IsInjective(RemoveAt(s, p))
           /\ ToSet(RemoveAt(s, p)) = ToSet(s) \ {s[p]}
<1> DEFINE a == SubSeq(s, 1, p - 1)
           b == SubSeq(s, p + 1, Len(s))
           r == RemoveAt(s, p)
           n == Len(s)
<1>1. n \in Nat /\ DOMAIN s = 1 .. n /\ p \in 1 .. n /\ \A i \in 1 .. n : s[i] \in S
    BY LenProperties, ElementOfSeq
<1>2. a \in Seq(S) /\ Len(a) = p - 1 /\ \A i \in 1 .. p - 1 : a[i] = s[i]
    BY <1>1, SubSeqProperties
<1>3. b \in Seq(S) /\ Len(b) = n - p /\ \A i \in 1 .. n - p : b[i] = s[p + i]
    BY <1>1, SubSeqProperties
<1>4. r = a \o b
    BY DEF RemoveAt
<1>5. /\ r \in Seq(S) /\ Len(r) = n - 1
      /\ \A i \in 1 .. n - 1 : r[i] = IF i <= p - 1 THEN a[i] ELSE b[i - (p - 1)]
    <2> HIDE DEF a, b, r, n
    <2>1. Len(a) + Len(b) = n - 1
        BY <1>1, <1>2, <1>3
    <2>2. /\ r \in Seq(S) /\ Len(r) = Len(a) + Len(b)
          /\ \A i \in 1 .. Len(a) + Len(b) :
                r[i] = IF i <= Len(a) THEN a[i] ELSE b[i - Len(a)]
        BY <1>2, <1>3, <1>4, ConcatProperties
    <2> QED BY <1>2, <2>1, <2>2
<1>6. \A i \in 1 .. n - 1 : r[i] = IF i < p THEN s[i] ELSE s[i + 1]
    <2> HIDE DEF a, b, r, n
    <2> SUFFICES ASSUME NEW i \in 1 .. n - 1 PROVE r[i] = IF i < p THEN s[i] ELSE s[i + 1]
        OBVIOUS
    <2>1. CASE i < p
        BY <1>1, <1>2, <1>5, <2>1
    <2>2. CASE ~(i < p)
        <3>1. i - (p - 1) \in 1 .. n - p /\ p + (i - (p - 1)) = i + 1 /\ ~(i <= p - 1)
            BY <1>1, <2>2
        <3>2. b[i - (p - 1)] = s[i + 1]
            BY <1>3, <3>1
        <3>3. r[i] = b[i - (p - 1)]
            BY <1>5, <3>1
        <3> QED BY <2>2, <3>2, <3>3
    <2> QED BY <2>1, <2>2
<1>7. DOMAIN r = 1 .. n - 1
    BY <1>5, LenProperties
<1> HIDE DEF a, b, r, n
<1>8. \A i, j \in 1 .. n : s[i] = s[j] => i = j
    BY <1>1 DEF IsInjective
<1>9. IsInjective(r)
    <2> SUFFICES ASSUME NEW i \in 1 .. n - 1, NEW j \in 1 .. n - 1, r[i] = r[j]
                 PROVE  i = j
        BY <1>7 DEF IsInjective
    <2>1. /\ i \in 1 .. n /\ j \in 1 .. n /\ i + 1 \in 1 .. n /\ j + 1 \in 1 .. n
          /\ i \in Int /\ j \in Int /\ p \in Int
        BY <1>1
    <2> QED BY <1>6, <1>8, <2>1
<1>10. ASSUME NEW x PROVE x \in ToSet(r) <=> x \in ToSet(s) /\ x # s[p]
    <2>1. ASSUME NEW i \in 1 .. n - 1 PROVE r[i] \in ToSet(s) /\ r[i] # s[p]
        <3>1. i \in 1 .. n /\ i + 1 \in 1 .. n /\ i \in Int /\ p \in Int
            BY <1>1
        <3> QED BY <1>1, <1>6, <1>8, <3>1 DEF ToSet
    <2>2. ASSUME NEW i \in 1 .. n, s[i] # s[p] PROVE s[i] \in ToSet(r)
        <3>1. CASE i < p
            <4>1. i \in 1 .. n - 1
                BY <1>1, <3>1
            <4> QED BY <1>6, <1>7, <3>1, <4>1 DEF ToSet
        <3>2. CASE i > p
            <4>1. i - 1 \in 1 .. n - 1 /\ ~(i - 1 < p) /\ (i - 1) + 1 = i
                BY <1>1, <3>2
            <4>2. r[i - 1] = s[i]
                BY <1>6, <4>1
            <4> QED BY <1>7, <4>1, <4>2 DEF ToSet
        <3>3. i # p
            BY <2>2
        <3> QED BY <1>1, <3>1, <3>2, <3>3
    <2> QED BY <1>1, <1>7, <2>1, <2>2 DEF ToSet
<1> QED BY <1>5, <1>9, <1>10 DEF r

(* An order is as long as it has keys.                                     *)
LEMMA OrderCounts ==
    ASSUME NEW S, NEW s \in Seq(S), IsInjective(s)
    PROVE  IsFiniteSet(ToSet(s)) /\ Cardinality(ToSet(s)) = Len(s)
<1>1. Len(s) \in Nat /\ DOMAIN s = 1 .. Len(s) /\ s \in [1 .. Len(s) -> S]
    BY LenProperties
<1>2. s \in [1 .. Len(s) -> ToSet(s)]
    BY <1>1 DEF ToSet
<1>3. s \in Bijection(1 .. Len(s), ToSet(s))
    BY <1>1, <1>2 DEF Bijection, Injection, Surjection, IsInjective, ToSet
<1>4. IsFiniteSet(1 .. Len(s)) /\ Cardinality(1 .. Len(s)) = Len(s)
    BY <1>1, FS_Interval
<1>5. /\ IsFiniteSet(ToSet(s))
      /\ Cardinality(ToSet(s)) = Cardinality(1 .. Len(s))
    <2>1. ExistsBijection(1 .. Len(s), ToSet(s))
        BY <1>3 DEF ExistsBijection
    <2> QED BY <2>1, <1>4, FS_Bijection
<1> QED BY <1>4, <1>5
-----------------------------------------------------------------------------
(* The dictionary as an ordered set of keys.                               *)

(* The part of TypeOK that relates the order to the table.                 *)
OrderOK ==
    /\ hits \in [Keys -> Lists \cup {NoList}]
    /\ order \in Seq(Keys) /\ ToSet(order) = Tracked /\ IsInjective(order)

(* A new list at a key keeps an order of the keys tracked.                 *)
LEMMA StoreKeepsOrder ==
    ASSUME TypeOK, NEW k \in Keys, NEW s \in SUBSET Hit, Store(k, s)
    PROVE  /\ OrderOK' /\ heap' \in [Lists -> SUBSET Hit]
           /\ Tracked' = Tracked \cup {k}
<1>1. NewList \in Lists \ InUse /\ NewList # NoList
    BY NewListIsNew
<1>2. /\ hits' = [hits EXCEPT ![k] = NewList] /\ heap' = [heap EXCEPT ![NewList] = s]
      /\ order' = IF hits[k] = NoList THEN Append(order, k) ELSE order
    BY DEF Store
<1> USE DEF TypeOK
<1>3. Tracked' = Tracked \cup {k}
    BY <1>1, <1>2 DEF Tracked
<1>4. ToSet(order) = Tracked
    BY DEF Tracked
<1>5. order' \in Seq(Keys) /\ ToSet(order') = Tracked' /\ IsInjective(order')
    <2>1. CASE hits[k] = NoList
        <3>1. k \notin ToSet(order)
            BY <1>4, <2>1 DEF Tracked
        <3> QED BY <1>2, <1>3, <1>4, <2>1, <3>1, OrderAppended
    <2>2. CASE hits[k] # NoList
        <3>1. k \in Tracked
            BY <2>2 DEF Tracked
        <3> QED BY <1>2, <1>3, <1>4, <2>2, <3>1
    <2> QED BY <2>1, <2>2
<1> QED BY <1>1, <1>2, <1>3, <1>5 DEF OrderOK

(* The order without a tracked key is one of the others.                   *)
LEMMA WithoutIsOrder ==
    ASSUME TypeOK, NEW k \in Keys, hits[k] # NoList
    PROVE  /\ Without(k) \in Seq(Keys) /\ IsInjective(Without(k))
           /\ ToSet(Without(k)) = Tracked \ {k}
<1> DEFINE p == CHOOSE i \in DOMAIN order : order[i] = k
<1>1. k \in ToSet(order) /\ ToSet(order) = Tracked /\ order \in Seq(Keys) /\ IsInjective(order)
    BY DEF TypeOK, Tracked
<1>2. p \in DOMAIN order /\ order[p] = k
    BY <1>1 DEF ToSet
<1>3. Without(k) = RemoveAt(order, p)
    BY DEF Without
<1> HIDE DEF p
<1> QED BY <1>1, <1>2, <1>3, OrderWithout

(* The limiter starts with an empty dictionary.                            *)
LEMMA TypeInit == Init => TypeOK
<1> SUFFICES ASSUME Init PROVE TypeOK
    OBVIOUS
<1>1. order = <<>> /\ ToSet(<<>>) = {} /\ IsInjective(<<>>)
    BY DEF Init, ToSet, IsInjective
<1>2. \A k \in Keys : hits[k] = NoList
    BY DEF Init
<1>3. (CHOOSE k \in Keys : TRUE) \in Keys
    BY FinitelyMany
<1>4. /\ order \in Seq(Keys) /\ IsInjective(order)
      /\ ToSet(order) = {k \in Keys : hits[k] # NoList}
    BY <1>1, <1>2
<1>5. 0 \in Time /\ 0 \in 0 .. Window + MaxTime /\ <<>> \in Seq(Keys)
    BY LimiterAssumption DEF Time
<1> QED BY <1>3, <1>4, <1>5 DEF Init, TypeOK, Place

(* Every step keeps the types, and the dictionary and its order together.  *)
LEMMA TypeStep == ASSUME TypeOK, Frames, Numbered, [Next]_vars PROVE TypeOK'
<1> USE DEF TypeOK, table, frame, history
<1>t. ASSUME NEW t \in Threads, NEW here \in Place, NEW there \in Place, At(t, here, there)
      PROVE  pc' \in [Threads -> Place]
    BY <1>t DEF At
<1>o. ASSUME OrderOK' PROVE /\ hits' \in [Keys -> Lists \cup {NoList}]
                            /\ order' \in Seq(Keys) /\ IsInjective(order')
                            /\ ToSet(order') = {k \in Keys : hits'[k] # NoList}
    BY <1>o DEF OrderOK, Tracked
<1>0. CASE UNCHANGED vars
    BY <1>0 DEF vars
<1>1. CASE Tick
    BY <1>1, LimiterAssumption DEF Tick, Time
<1>2. ASSUME NEW t \in Threads, Acquire(t) PROVE TypeOK'
    BY <1>2, LimiterAssumption DEF Acquire, Place
<1>3. ASSUME NEW t \in Threads, ListKeys(t) PROVE TypeOK'
    BY <1>3 DEF ListKeys, At, Place
<1>4. ASSUME NEW t \in Threads, ReadTimestamps(t) PROVE TypeOK'
    <2>1. pc' \in [Threads -> Place]
        BY <1>4 DEF ReadTimestamps, At, Place
    <2>2. fresh' \in [Threads -> SUBSET Hit]
        <3>1. Head(todo[t]) \in Keys
            BY <1>4, OrderPopped DEF ReadTimestamps
        <3>2. hits[Head(todo[t])] # NoList => heap[hits[Head(todo[t])]] \subseteq Hit
            BY <3>1
        <3> QED BY <1>4, <3>2 DEF ReadTimestamps
    <2> QED BY <1>4, <2>1, <2>2 DEF ReadTimestamps
<1>6. ASSUME NEW t \in Threads, GetTimestamps(t) PROVE TypeOK'
    BY <1>6 DEF GetTimestamps, Place
<1>7. ASSUME NEW t \in Threads, InsertKey(t) PROVE TypeOK'
    <2>1. OrderOK' /\ heap' \in [Lists -> SUBSET Hit]
        BY <1>7, StoreKeepsOrder DEF InsertKey
    <2>2. mine' \in [Threads -> Lists \cup {NoList}]
        BY <1>7, NewListIsNew DEF InsertKey
    <2> QED BY <1>7, <1>o, <2>1, <2>2 DEF InsertKey, At, Place
<1>8. ASSUME NEW t \in Threads, MoveToEnd(t) PROVE TypeOK'
    <2>1. order' \in Seq(Keys) /\ ToSet(order') = Tracked /\ IsInjective(order')
        <3>1. CASE hits[key[t]] # NoList
            <4>1. /\ Without(key[t]) \in Seq(Keys) /\ IsInjective(Without(key[t]))
                  /\ ToSet(Without(key[t])) = Tracked \ {key[t]} /\ key[t] \in Tracked
                BY <3>1, WithoutIsOrder DEF Tracked
            <4> DEFINE w == Without(key[t])
            <4>0. key[t] \in Keys /\ key[t] \notin ToSet(w)
                BY <4>1
            <4> HIDE DEF w
            <4>2. /\ Append(w, key[t]) \in Seq(Keys) /\ IsInjective(Append(w, key[t]))
                  /\ ToSet(Append(w, key[t])) = ToSet(w) \cup {key[t]}
                BY <4>0, <4>1, OrderAppended DEF w
            <4>3. ToSet(w) \cup {key[t]} = Tracked
                BY <4>1 DEF w
            <4> QED BY <1>8, <3>1, <4>2, <4>3 DEF MoveToEnd, w
        <3>2. CASE hits[key[t]] = NoList
            BY <1>8, <3>2 DEF MoveToEnd, Tracked
        <3> QED BY <3>1, <3>2
    <2>2. mine' \in [Threads -> Lists \cup {NoList}] /\ pc' \in [Threads -> Place]
        BY <1>8 DEF MoveToEnd, At, Place
    <2>3. UNCHANGED <<clock, hits, heap, key, now, todo, fresh, retry, calls, history>>
        BY <1>8 DEF MoveToEnd
    <2>4. ToSet(order') = {k \in Keys : hits'[k] # NoList}
        BY <2>1, <2>3 DEF Tracked
    <2> QED BY <2>1, <2>2, <2>3, <2>4
<1>5. ASSUME NEW t \in Threads, StoreFresh(t) PROVE TypeOK'
    <2> DEFINE k == Head(todo[t])
    <2>0. todo[t] # <<>>
        BY <1>5 DEF StoreFresh, Frames, InFrame
    <2>1. k \in Keys /\ Tail(todo[t]) \in Seq(Keys)
        BY <2>0, OrderPopped
    <2>2. OrderOK' /\ heap' \in [Lists -> SUBSET Hit] /\ restored' \in BOOLEAN
        <3> HIDE DEF k
        <3>1. CASE fresh[t] # {}
            BY <1>5, <2>1, <3>1, StoreKeepsOrder DEF StoreFresh, k
        <3>2. CASE fresh[t] = {} /\ hits[k] # NoList
            <4>1. /\ hits' = [hits EXCEPT ![k] = NoList] /\ order' = Without(k)
                  /\ UNCHANGED <<heap, restored>>
                BY <1>5, <3>2 DEF StoreFresh, k
            <4>2. Tracked' = Tracked \ {k}
                BY <2>1, <4>1 DEF Tracked
            <4>3. /\ Without(k) \in Seq(Keys) /\ IsInjective(Without(k))
                  /\ ToSet(Without(k)) = Tracked \ {k}
                BY <2>1, <3>2, WithoutIsOrder
            <4> QED BY <2>1, <4>1, <4>2, <4>3 DEF OrderOK
        <3>3. CASE fresh[t] = {} /\ hits[k] = NoList
            BY <1>5, <3>3 DEF StoreFresh, k, OrderOK, Tracked
        <3> QED BY <3>1, <3>2, <3>3
    <2>3. pc' \in [Threads -> Place]
        BY <1>5 DEF StoreFresh, At, Place
    <2> QED BY <1>5, <1>o, <2>1, <2>2, <2>3 DEF StoreFresh
<1>9. ASSUME NEW t \in Threads, CheckLimit(t) PROVE TypeOK'
    <2>1. pc' \in [Threads -> Place]
        BY <1>9 DEF CheckLimit, At, Place
    <2>2. mine[t] \in Lists
        BY <1>9 DEF CheckLimit, At, Frames, InFrame
    <2>3. IsFull(mine[t]) => RetryAfter(mine[t], now[t]) \in 0 .. Window + MaxTime
        <3> SUFFICES ASSUME IsFull(mine[t]) PROVE RetryAfter(mine[t], now[t]) \in 0 .. Window + MaxTime
            OBVIOUS
        <3>1. heap[mine[t]] # {}
            BY FullIsNotEmpty
        <3>2. /\ First(mine[t]).at \in Time /\ now[t] \in Time
              /\ RetryAfter(mine[t], now[t]) = IF First(mine[t]).at + Window - now[t] >= 1
                                               THEN First(mine[t]).at + Window - now[t] ELSE 1
            BY <2>2, <3>1, RetryIs
        <3> QED BY <3>2, LimiterAssumption DEF Time
    <2> QED BY <1>9, <2>1, <2>3 DEF CheckLimit
<1>10. ASSUME NEW t \in Threads, AppendHit(t) PROVE TypeOK'
    <2>1. Cardinality(admitted[key[t]]) + 1 \in Nat
        BY FS_CardinalityType DEF Numbered
    <2>2. NewHit(t) \in Hit
        BY <2>1 DEF NewHit, Hit
    <2> QED BY <1>10, <2>1, <2>2 DEF AppendHit, At, Place
<1>11. ASSUME NEW t \in Threads, TestCap(t) PROVE TypeOK'
    BY <1>11 DEF TestCap, Place
<1>12. ASSUME NEW t \in Threads, PopOldest(t) PROVE TypeOK'
    <2>1. CASE order # <<>>
        <3>1. /\ Head(order) \in Keys /\ Tail(order) \in Seq(Keys) /\ IsInjective(Tail(order))
              /\ ToSet(Tail(order)) = Tracked \ {Head(order)}
            BY <2>1, OrderPopped DEF Tracked
        <3>2. /\ hits' = [hits EXCEPT ![Head(order)] = NoList] /\ order' = Tail(order)
              /\ evicted' = evicted \cup {Head(order)}
            BY <1>12, <2>1 DEF PopOldest
        <3>3. ToSet(order') = {k \in Keys : hits'[k] # NoList}
            BY <3>1, <3>2 DEF Tracked
        <3>4. hits' \in [Keys -> Lists \cup {NoList}] /\ evicted' \subseteq Keys
            BY <3>1, <3>2
        <3>5. pc' \in [Threads -> Place]
            BY <1>12 DEF PopOldest, At, Place
        <3> QED BY <1>12, <3>1, <3>2, <3>3, <3>4, <3>5 DEF PopOldest
    <2>2. CASE order = <<>>
        BY <1>12, <2>2 DEF PopOldest, At, Place
    <2> QED BY <2>1, <2>2
<1> QED
    BY <1>0, <1>1, <1>2, <1>3, <1>4, <1>5, <1>6, <1>7, <1>8, <1>9, <1>10, <1>11, <1>12
    DEF Next, Step
-----------------------------------------------------------------------------
(* The lists of the keys and of the threads.                               *)

(* Admissions are never forgotten by the history, and have their numbers.  *)
LEMMA NumberedStep ==
    ASSUME TypeOK, Numbered, [Next]_vars
    PROVE  Numbered' /\ \A k \in Keys : admitted[k] \subseteq admitted'[k]
<1> USE DEF TypeOK
<1>1. ASSUME admitted' = admitted PROVE Numbered' /\ \A k \in Keys : admitted[k] \subseteq admitted'[k]
    BY <1>1 DEF Numbered
<1>2. ASSUME NEW t \in Threads, AppendHit(t)
      PROVE  Numbered' /\ \A k \in Keys : admitted[k] \subseteq admitted'[k]
    <2> DEFINE j == key[t]
               A == admitted[j]
               n == Cardinality(A)
               x == NewHit(t)
    <2>1. IsFiniteSet(A) /\ n \in Nat /\ (\A h \in A : h.n \in 1 .. n) /\ x.n = n + 1
        BY FS_CardinalityType DEF Numbered, NewHit
    <2>2. x \notin A
        BY <2>1
    <2>3. IsFiniteSet(A \cup {x}) /\ Cardinality(A \cup {x}) = n + 1
        <3> HIDE DEF A, n, x
        <3> QED BY <2>1, <2>2, OneMore DEF n
    <2>4. /\ admitted'[j] = A \cup {x}
          /\ \A k \in Keys \ {j} : admitted'[k] = admitted[k]
        BY <1>2 DEF AppendHit
    <2> HIDE DEF A, n, x
    <2>5. \A h \in A \cup {x} : h.n \in 1 .. Cardinality(A \cup {x})
        BY <2>1, <2>3
    <2>6. \A g, h \in A \cup {x} : g.n = h.n => g = h
        BY <2>1 DEF Numbered, A
    <2>7. Numbered'
        BY <2>3, <2>4, <2>5, <2>6 DEF Numbered
    <2> QED BY <2>4, <2>7 DEF A
<1> QED
    BY <1>1, <1>2
    DEF Next, Step, vars, table, frame, history, Tick, Acquire, ListKeys, ReadTimestamps,
        StoreFresh, GetTimestamps, InsertKey, MoveToEnd, CheckLimit, TestCap, PopOldest

(* What a thread is about to store is real: it was in the list it read.    *)
LEMMA HeadIsKey ==
    ASSUME TypeOK, NEW t \in Threads, todo[t] # <<>>
    PROVE  Head(todo[t]) \in Keys /\ Tail(todo[t]) \in Seq(Keys)
BY OrderPopped DEF TypeOK

(* Every step keeps apart the lists of different keys.                     *)
LEMMA ListsApartStep ==
    ASSUME TypeOK, ListsApart, Frames, [Next]_vars
    PROVE  ListsApart'
<1>t. /\ hits \in [Keys -> Lists \cup {NoList}] /\ mine \in [Threads -> Lists \cup {NoList}]
      /\ key \in [Threads -> Keys]
    BY DEF TypeOK
<1> USE <1>t DEF ListsApart, Tracked
<1>n. /\ NewList \in Lists /\ NewList # NoList
      /\ (\A k \in Keys : hits[k] # NewList) /\ (\A t \in Threads : mine[t] # NewList)
    BY NewListIsNew DEF InUse
<1>1. ASSUME UNCHANGED <<hits, mine, key>> PROVE ListsApart'
    BY <1>1
<1>2. ASSUME NEW t \in Threads, Acquire(t) PROVE ListsApart'
    <2>0. pc[t] \in Between /\ mine' = mine /\ hits' = hits
        BY <1>2 DEF Acquire, table
    <2>1. mine[t] = NoList /\ mine' = mine /\ hits' = hits
        BY <2>0 DEF Between, Frames, InFrame
    <2>2. \A u \in Threads \ {t} : key'[u] = key[u]
        BY <1>2 DEF Acquire
    <2>3. ASSUME NEW v \in Threads, mine'[v] # NoList
          PROVE  /\ \A k \in Keys : hits'[k] = mine'[v] => k = key'[v]
                 /\ \A u \in Threads : mine'[u] = mine'[v] => key'[u] = key'[v]
        <3>1. v \in Threads \ {t} /\ mine[v] # NoList
            BY <2>1, <2>3
        <3>2. \A u \in Threads : mine[u] = mine[v] => u \in Threads \ {t}
            BY <2>1, <3>1
        <3> QED BY <2>1, <2>2, <3>1, <3>2
    <2> QED BY <2>1, <2>3
<1>3. ASSUME NEW t \in Threads, StoreFresh(t) PROVE ListsApart'
    <2> DEFINE k == Head(todo[t])
    <2>1. k \in Keys
        BY <1>3, HeadIsKey DEF StoreFresh, Frames, InFrame
    <2>2. UNCHANGED <<mine, key>>
        BY <1>3 DEF StoreFresh
    <2>3. hits' \in {hits, [hits EXCEPT ![k] = NoList], [hits EXCEPT ![k] = NewList]}
        BY <1>3 DEF StoreFresh, Store, table
    <2> HIDE DEF k
    <2>4. CASE hits' = [hits EXCEPT ![k] = NoList]
        BY <2>1, <2>2, <2>4
    <2>5. CASE hits' = [hits EXCEPT ![k] = NewList]
        BY <1>n, <2>1, <2>2, <2>5
    <2> QED BY <1>1, <2>2, <2>3, <2>4, <2>5
<1>4. ASSUME NEW t \in Threads, GetTimestamps(t) PROVE ListsApart'
    BY <1>4 DEF GetTimestamps, table
<1>5. ASSUME NEW t \in Threads, InsertKey(t) PROVE ListsApart'
    <2>1. /\ hits' = [hits EXCEPT ![key[t]] = NewList] /\ mine' = [mine EXCEPT ![t] = NewList]
          /\ key' = key
        BY <1>5 DEF InsertKey, Store
    <2> QED BY <1>n, <2>1
<1>6. ASSUME NEW t \in Threads, MoveToEnd(t) \/ CheckLimit(t) \/ AppendHit(t) PROVE ListsApart'
    <2>1. hits' = hits /\ key' = key /\ mine' \in {mine, [mine EXCEPT ![t] = NoList]}
        BY <1>6 DEF MoveToEnd, CheckLimit, AppendHit, table
    <2> QED BY <2>1
<1>7. ASSUME NEW t \in Threads, PopOldest(t) PROVE ListsApart'
    <2>1. /\ UNCHANGED <<mine, key>>
          /\ hits' \in {hits, [hits EXCEPT ![Head(order)] = NoList]}
        BY <1>7 DEF PopOldest, frame
    <2> QED BY <2>1
<1> QED
    BY <1>1, <1>2, <1>3, <1>4, <1>5, <1>6, <1>7
    DEF Next, Step, vars, table, frame, history, Tick, ListKeys, ReadTimestamps, TestCap

(* Every step keeps what the threads remember.                             *)
LEMMA FramesStep ==
    ASSUME TypeOK, Numbered, Frames, HitsAreReal, [Next]_vars
    PROVE  Frames'
<1> USE DEF TypeOK
<1> SUFFICES ASSUME NEW u \in Threads PROVE InFrame(u)'
    BY DEF Frames
<1>a. InFrame(u) /\ \A k \in Keys : admitted[k] \subseteq admitted'[k]
    BY NumberedStep DEF Frames
<1>h. pc[u] = "store" => Head(todo[u]) \in Keys
    BY <1>a, HeadIsKey DEF InFrame
<1>n. NewList # NoList
    BY NewListIsNew
<1>1. ASSUME pc'[u] = pc[u], todo'[u] = todo[u], fresh'[u] = fresh[u], mine'[u] = mine[u]
      PROVE  InFrame(u)'
    BY <1>1, <1>a, <1>h DEF InFrame
<1>2. ASSUME NEW t \in Threads, t # u, Acquire(t) \/ Step(t) PROVE InFrame(u)'
    BY <1>1, <1>2
    DEF Acquire, Step, At, table, frame, ListKeys, ReadTimestamps, StoreFresh, GetTimestamps,
        InsertKey, MoveToEnd, CheckLimit, AppendHit, TestCap, PopOldest
<1>3. ASSUME Acquire(u) \/ ListKeys(u) \/ TestCap(u) \/ PopOldest(u) PROVE InFrame(u)'
    BY <1>3, <1>a DEF InFrame, Acquire, ListKeys, TestCap, PopOldest, At, Between, frame
<1>4. ASSUME ReadTimestamps(u) PROVE InFrame(u)'
    <2>1. Head(todo[u]) \in Keys
        BY <1>4, HeadIsKey DEF ReadTimestamps
    <2>2. pc'[u] = "store" => fresh'[u] \subseteq heap[hits[Head(todo[u])]]
                               /\ hits[Head(todo[u])] # NoList
        BY <1>4 DEF ReadTimestamps, At
    <2>3. pc'[u] \in {"store", "error"} /\ todo'[u] = todo[u] /\ todo[u] # <<>>
            /\ mine'[u] = mine[u] /\ pc[u] = "prune"
        BY <1>4 DEF ReadTimestamps, At
    <2> QED BY <1>a, <2>1, <2>2, <2>3 DEF InFrame, HitsAreReal
<1>5. ASSUME StoreFresh(u) PROVE InFrame(u)'
    <2>1. pc'[u] \in {"prune", "error"} /\ pc[u] = "store" /\ mine'[u] = mine[u]
        BY <1>5 DEF StoreFresh, At
    <2> QED BY <1>a, <2>1 DEF InFrame
<1>6. ASSUME GetTimestamps(u) \/ InsertKey(u) \/ MoveToEnd(u) \/ CheckLimit(u) \/ AppendHit(u)
      PROVE  InFrame(u)'
    BY <1>6, <1>a, <1>n
    DEF InFrame, GetTimestamps, InsertKey, MoveToEnd, CheckLimit, AppendHit, At
<1> QED
    BY <1>1, <1>2, <1>3, <1>4, <1>5, <1>6
    DEF Next, Step, Tick, vars, table, frame, history

(* Every step keeps the lists of the keys real.                            *)
LEMMA HitsAreRealStep ==
    ASSUME TypeOK, Numbered, ListsApart, Frames, HitsAreReal, [Next]_vars
    PROVE  HitsAreReal'
<1> USE DEF TypeOK
<1>a. \A k \in Keys : admitted[k] \subseteq admitted'[k]
    BY NumberedStep
<1>n. NewList \in Lists /\ NewList # NoList /\ \A k \in Keys : hits[k] # NewList
    BY NewListIsNew DEF InUse
<1>1. ASSUME UNCHANGED <<hits, heap>> PROVE HitsAreReal'
    BY <1>1, <1>a DEF HitsAreReal
<1>2. ASSUME NEW k \in Keys, heap' = heap, hits' = [hits EXCEPT ![k] = NoList] PROVE HitsAreReal'
    BY <1>2, <1>a DEF HitsAreReal
<1>3. ASSUME NEW k \in Keys, NEW s \in SUBSET admitted[k], Store(k, s) PROVE HitsAreReal'
    <2>1. hits' = [hits EXCEPT ![k] = NewList] /\ heap' = [heap EXCEPT ![NewList] = s]
        BY <1>3 DEF Store
    <2> QED BY <1>a, <1>n, <2>1 DEF HitsAreReal
<1>4. ASSUME NEW t \in Threads, StoreFresh(t) PROVE HitsAreReal'
    <2>1. Head(todo[t]) \in Keys /\ fresh[t] \in SUBSET admitted[Head(todo[t])]
        BY <1>4, HeadIsKey DEF StoreFresh, Frames, InFrame
    <2> QED BY <1>1, <1>2, <1>3, <1>4, <2>1 DEF StoreFresh, table
<1>5. ASSUME NEW t \in Threads, InsertKey(t) PROVE HitsAreReal'
    BY <1>3, <1>5 DEF InsertKey
<1>6. ASSUME NEW t \in Threads, AppendHit(t) PROVE HitsAreReal'
    <2>1. mine[t] \in Lists /\ mine[t] # NoList
        BY <1>6 DEF AppendHit, At, Frames, InFrame
    <2>2. /\ hits' = hits /\ heap' = [heap EXCEPT ![mine[t]] = @ \cup {NewHit(t)}]
          /\ admitted' = [admitted EXCEPT ![key[t]] = @ \cup {NewHit(t)}]
        BY <1>6 DEF AppendHit
    <2>3. \A k \in Keys : hits[k] = mine[t] => k = key[t]
        BY <2>1 DEF ListsApart
    <2> QED BY <1>a, <2>1, <2>2, <2>3 DEF HitsAreReal
<1>7. ASSUME NEW t \in Threads, PopOldest(t) PROVE HitsAreReal'
    <2>1. order # <<>> => Head(order) \in Keys
        BY OrderPopped
    <2> QED BY <1>1, <1>2, <1>7, <2>1 DEF PopOldest
<1> QED
    BY <1>1, <1>4, <1>5, <1>6, <1>7
    DEF Next, Step, vars, table, frame, history, Tick, Acquire, ListKeys, ReadTimestamps,
        GetTimestamps, MoveToEnd, CheckLimit, TestCap
-----------------------------------------------------------------------------
(* The cap on the keys.                                                    *)

(* With no more keys tracked that nobody owes, the cap stays as it was.    *)
LEMMA CapStays ==
    ASSUME CapOwed, restored => restored',
           ~restored' => Tracked' \ Owed' \subseteq Tracked \ Owed
    PROVE  CapOwed'
<1> SUFFICES ASSUME ~restored' PROVE Cardinality((Tracked \ Owed)') <= MaxKeys
    BY DEF CapOwed
<1> DEFINE A == (Tracked \ Owed)'
           B == Tracked \ Owed
<1>1. Cardinality(B) <= MaxKeys
    BY DEF CapOwed
<1>2. IsFiniteSet(B) /\ A \in SUBSET B
    BY FinitelyMany, FS_Subset DEF Tracked
<1> HIDE DEF A, B
<1>3. Cardinality(A) <= Cardinality(B) /\ Cardinality(A) \in Nat /\ Cardinality(B) \in Nat
    BY <1>2, FS_Subset, FS_CardinalityType
<1> QED BY <1>1, <1>3, LimiterAssumption DEF A

(* A step of one thread that does not append leaves the others as they     *)
(* are, and what they owe.                                                 *)
LEMMA OthersOwe ==
    ASSUME TypeOK, Frames, NEW t \in Threads, Acquire(t) \/ Step(t), ~AppendHit(t),
           NEW u \in Threads, u # t
    PROVE  key'[u] = key[u] /\ (Owes(u) => Owes(u)')
<1>1. key'[u] = key[u] /\ pc'[u] = pc[u] /\ mine'[u] = mine[u]
    BY DEF TypeOK, Acquire, Step, At, table, frame, ListKeys, ReadTimestamps, StoreFresh,
           GetTimestamps, InsertKey, MoveToEnd, CheckLimit, TestCap, PopOldest
<1>2. heap' = heap \/ \E s \in {fresh[t], {}} : heap' = [heap EXCEPT ![NewList] = s]
    BY DEF Acquire, Step, table, ListKeys, ReadTimestamps, StoreFresh, Store,
           GetTimestamps, InsertKey, MoveToEnd, CheckLimit, TestCap, PopOldest
<1>3. mine[u] # NewList
    BY NewListIsNew DEF InUse
<1>4. pc[u] \in {"move", "check"} => heap'[mine[u]] = heap[mine[u]]
    BY <1>2, <1>3 DEF TypeOK, Frames, InFrame
<1> QED BY <1>1, <1>4 DEF Owes, IsFull

(* A thread steps: the keys that nobody owes are as before when it leaves  *)
(* no tracked key unowed and tracks no key it does not owe.                *)
LEMMA OwedKept ==
    ASSUME TypeOK, CapOwed, NEW t \in Threads,
           \A u \in Threads \ {t} : Owes(u) => key[u] \in Owed',
           Owes(t) => key[t] \in Owed' \/ key[t] \notin Tracked',
           restored => restored',
           ~restored' => Tracked' \subseteq Tracked \cup Owed'
    PROVE  CapOwed'
<1>1. \A k \in Owed : k \in Owed' \/ k \notin Tracked'
    BY DEF Owed
<1> QED BY <1>1, CapStays

(* Every step keeps the cap, but for what pruning puts back.               *)
LEMMA CapOwedStep ==
    ASSUME TypeOK, ListsApart, Frames, CapOwed, [Next]_vars
    PROVE  CapOwed'
<1>1. ASSUME UNCHANGED <<hits, heap, pc, key, mine, restored>> PROVE CapOwed'
    BY <1>1 DEF CapOwed, Tracked, Owed, Owes, IsFull
<1>o. ASSUME NEW t \in Threads, Acquire(t) \/ Step(t), ~AppendHit(t)
      PROVE  \A u \in Threads \ {t} : Owes(u) => key[u] \in Owed'
    <2> SUFFICES ASSUME NEW u \in Threads \ {t}, Owes(u) PROVE key[u] \in Owed'
        OBVIOUS
    <2>1. key'[u] = key[u] /\ Owes(u)'
        BY <1>o, OthersOwe
    <2> QED BY <2>1 DEF Owed
<1>2. ASSUME NEW t \in Threads, Acquire(t) \/ ListKeys(t) \/ ReadTimestamps(t) \/ GetTimestamps(t)
      PROVE  CapOwed'
    <2>1. ~Owes(t) /\ ~AppendHit(t)
        BY <1>2 DEF Owes, Acquire, Between, ListKeys, ReadTimestamps, GetTimestamps, AppendHit, At
    <2>2. UNCHANGED <<hits, restored>>
        BY <1>2 DEF Acquire, ListKeys, ReadTimestamps, GetTimestamps, table, history
    <2> QED BY <1>2, <1>o, <2>1, <2>2, OwedKept DEF Step, Tracked
<1>3. ASSUME NEW t \in Threads, StoreFresh(t) PROVE CapOwed'
    <2>1. ~Owes(t) /\ ~AppendHit(t)
        BY <1>3 DEF Owes, StoreFresh, AppendHit, At
    <2>2. Head(todo[t]) \in Keys
        BY <1>3, HeadIsKey DEF StoreFresh, Frames, InFrame
    <2>3. (restored => restored') /\ (~restored' => Tracked' \subseteq Tracked)
        BY <1>3, <2>2 DEF StoreFresh, Store, Tracked, table, TypeOK
    <2> QED BY <1>3, <1>o, <2>1, <2>3, OwedKept DEF Step
<1>4. ASSUME NEW t \in Threads, InsertKey(t) PROVE CapOwed'
    <2>1. ~Owes(t) /\ ~AppendHit(t)
        BY <1>4 DEF Owes, InsertKey, AppendHit, At
    <2>2. Store(key[t], {}) /\ key[t] \in Keys /\ restored' = restored
        BY <1>4 DEF InsertKey, TypeOK, history
    <2>3. Tracked' = Tracked \cup {key[t]}
        BY <2>2, StoreKeepsOrder
    <2>4. heap'[mine'[t]] = {}
        BY <1>4, <2>2, NewListIsNew DEF InsertKey, Store, TypeOK
    <2>5. pc'[t] = "move" /\ key'[t] = key[t]
        BY <1>4 DEF InsertKey, At, TypeOK
    <2>6. ~IsFull(mine[t])'
        BY <2>4, FS_EmptySet, LimiterAssumption DEF IsFull
    <2>7. key[t] \in Owed'
        BY <2>5, <2>6 DEF Owed, Owes
    <2> QED BY <1>4, <1>o, <2>1, <2>2, <2>3, <2>7, OwedKept DEF Step
<1>5. ASSUME NEW t \in Threads, MoveToEnd(t) \/ CheckLimit(t) PROVE CapOwed'
    <2>1. ~AppendHit(t) /\ UNCHANGED <<hits, heap, key, restored>>
        BY <1>5 DEF MoveToEnd, CheckLimit, AppendHit, At, table, history
    <2>2. Owes(t) => Owes(t)' \/ hits[key[t]] = NoList
        BY <1>5, <2>1 DEF MoveToEnd, CheckLimit, Owes, At, IsFull, TypeOK
    <2>3. Tracked' = Tracked /\ (Owes(t) => key[t] \in Owed' \/ key[t] \notin Tracked')
        BY <2>1, <2>2 DEF Tracked, Owed
    <2> QED BY <1>5, <1>o, <2>1, <2>3, OwedKept DEF Step
<1>6. ASSUME NEW t \in Threads, AppendHit(t) PROVE CapOwed'
    <2>1. /\ pc[t] = "append" /\ pc' = [pc EXCEPT ![t] = "evict"]
          /\ UNCHANGED <<hits, key, restored>>
          /\ heap' = [heap EXCEPT ![mine[t]] = @ \cup {NewHit(t)}]
          /\ mine' = [mine EXCEPT ![t] = NoList]
        BY <1>6 DEF AppendHit, At
    <2>2. mine[t] # NoList
        BY <2>1 DEF Frames, InFrame
    <2>3. key[t] \in Owed'
        BY <2>1 DEF Owed, Owes, TypeOK
    <2>4. ASSUME NEW u \in Threads \ {t}, Owes(u) PROVE key[u] \in Owed'
        <3>1. CASE mine[u] = mine[t]
            BY <2>2, <2>3, <3>1 DEF ListsApart
        <3>2. CASE mine[u] # mine[t]
            <4>1. Owes(u)' /\ key'[u] = key[u]
                BY <2>1, <2>4, <3>2 DEF Owes, IsFull, TypeOK
            <4> QED BY <4>1 DEF Owed
        <3> QED BY <3>1, <3>2
    <2> QED BY <2>1, <2>3, <2>4, OwedKept DEF Tracked
<1>7. ASSUME NEW t \in Threads, TestCap(t) PROVE CapOwed'
    <2>1. /\ ~AppendHit(t) /\ UNCHANGED <<hits, order, restored, key>>
          /\ pc' = [pc EXCEPT ![t] = IF OverCap THEN "pop" ELSE "idle"]
        BY <1>7 DEF TestCap, AppendHit, At, table, history, frame
    <2>2. CASE OverCap
        <3>1. key[t] \in Owed'
            BY <2>1, <2>2 DEF Owed, Owes, TypeOK
        <3> QED BY <1>7, <1>o, <2>1, <3>1, OwedKept DEF Step, Tracked
    <2>3. CASE ~OverCap
        <3>1. ToSet(order) = Tracked /\ IsFiniteSet(Tracked) /\ Cardinality(Tracked) = Len(order)
            BY OrderCounts DEF TypeOK, Tracked
        <3>2. Len(order) \in Nat /\ Len(order) <= MaxKeys
            BY <2>3, LimiterAssumption DEF OverCap, TypeOK
        <3> DEFINE A == (Tracked \ Owed)'
        <3>3. A \in SUBSET Tracked
            BY <2>1 DEF Tracked
        <3> HIDE DEF A
        <3>4. Cardinality(A) <= Cardinality(Tracked) /\ Cardinality(A) \in Nat
            BY <3>1, <3>3, FS_Subset, FS_CardinalityType
        <3>5. Cardinality(A) <= MaxKeys
            BY <3>1, <3>2, <3>4, LimiterAssumption
        <3> QED BY <3>5 DEF CapOwed, A
    <2> QED BY <2>2, <2>3
<1>8. ASSUME NEW t \in Threads, PopOldest(t) PROVE CapOwed'
    <2>1. ~AppendHit(t) /\ UNCHANGED <<restored, key>>
        BY <1>8 DEF PopOldest, AppendHit, At, frame
    <2>2. CASE order # <<>>
        <3>1. pc'[t] = "evict" /\ hits' = [hits EXCEPT ![Head(order)] = NoList]
            BY <1>8, <2>2 DEF PopOldest, At, TypeOK
        <3>2. Tracked' \subseteq Tracked
            BY <3>1 DEF Tracked, TypeOK
        <3>3. key[t] \in Owed'
            BY <2>1, <3>1 DEF Owed, Owes
        <3> QED BY <1>8, <1>o, <2>1, <3>2, <3>3, OwedKept DEF Step
    <2>3. CASE order = <<>>
        <3>1. Tracked' = {}
            <4>1. ToSet(order) = {} /\ hits' = hits
                BY <1>8, <2>3 DEF PopOldest, ToSet
            <4> QED BY <4>1 DEF Tracked, TypeOK
        <3> QED BY <1>8, <1>o, <2>1, <3>1, OwedKept DEF Step
    <2> QED BY <2>2, <2>3
<1> QED
    BY <1>1, <1>2, <1>3, <1>4, <1>5, <1>6, <1>7, <1>8
    DEF Next, Step, Tick, vars, table, frame, history

(* No thread has begun.                                                    *)
LEMMA StartIsSound == Init => LimiterInv
<1> SUFFICES ASSUME Init PROVE LimiterInv
    OBVIOUS
<1>1. TypeOK
    BY TypeInit
<1>2. Tracked = {} /\ (\A t \in Threads : pc[t] = "idle" /\ mine[t] = NoList)
      /\ (\A k \in Keys : hits[k] = NoList /\ admitted[k] = {})
    BY DEF Init, Tracked
<1>3. Numbered
    BY <1>2, FS_EmptySet DEF Numbered
<1>4. Cardinality(Tracked \ Owed) = 0
    BY <1>2, FS_EmptySet
<1> QED BY <1>1, <1>2, <1>3, <1>4, LimiterAssumption
        DEF LimiterInv, ListsApart, Frames, InFrame, HitsAreReal, CapOwed

(* Every step of every thread keeps the lists apart, real and owed for.    *)
LEMMA LimiterInvStep == ASSUME LimiterInv, [Next]_vars PROVE LimiterInv'
BY TypeStep, NumberedStep, ListsApartStep, FramesStep, HitsAreRealStep, CapOwedStep
DEF LimiterInv

(* What the threads can do to each other, whatever their number, the keys  *)
(* and the bounds: the lists stay apart and real, and the dictionary is    *)
(* over its cap by the keys of threads that will evict.                    *)
THEOREM LimiterInvariant == Spec => []LimiterInv
BY StartIsSound, LimiterInvStep, PTL DEF Spec

(* Whatever the threads do to each other's lists, a list never counts      *)
(* against its key what was not admitted for it.                           *)
THEOREM ListsAreReal == Spec => []HitsAreReal
<1>1. LimiterInv => HitsAreReal
    BY DEF LimiterInv
<1> QED BY <1>1, LimiterInvariant, PTL

(* Between calls no more than max_keys keys are tracked, each once and in  *)
(* order, unless pruning put back a key that another thread had taken out. *)
THEOREM DictionaryIsBounded == Spec => []KeysBounded
<1>1. LimiterInv => KeysBounded
    <2> SUFFICES ASSUME LimiterInv, \A t \in Threads : pc[t] \in Between, ~restored
                 PROVE  Len(order) <= MaxKeys
        BY DEF KeysBounded, LimiterInv
    <2>1. Owed = {}
        BY DEF Owed, Owes, Between
    <2>2. Cardinality(Tracked) = Len(order)
        BY OrderCounts DEF LimiterInv, TypeOK, Tracked
    <2>3. Tracked \ Owed = Tracked
        BY <2>1
    <2> QED BY <2>2, <2>3 DEF LimiterInv, CapOwed
<1> QED BY <1>1, LimiterInvariant, PTL
-----------------------------------------------------------------------------
(* One call at a time: the window is exact.                                *)

(* Every moment is a number.                                               *)
LEMMA MomentsAreNumbers ==
    ASSUME TypeOK
    PROVE  /\ clock \in Nat /\ Window \in Nat \ {0} /\ Time \subseteq Nat
           /\ \A t \in Threads : now[t] \in Nat /\ now[t] \in Time
           /\ \A k \in Keys : \A h \in admitted[k] : h.at \in Nat /\ h.n \in Nat
<1>1. Time \subseteq Nat
    BY LimiterAssumption DEF Time
<1>2. \A h \in Hit : h.at \in Nat /\ h.n \in Nat
    BY <1>1 DEF Hit
<1> QED BY <1>1, <1>2, LimiterAssumption DEF TypeOK

(* While a call is under way, what a window may still count is what is     *)
(* fresh to that call.                                                     *)
LEMMA CountsIsFresh ==
    ASSUME WindowInv, ~overlapped, NEW t \in Threads, Active(t)
    PROVE  /\ Undisturbed(t) /\ \A u \in Threads \ {t} : ~Active(u)
           /\ \A k \in Keys : \A h \in admitted[k] : Counts(h) <=> IsFresh(h.at, now[t])
<1>1. Undisturbed(t) /\ \A u \in Threads \ {t} : ~Active(u)
    BY DEF WindowInv, OneAtATime
<1>2. now[t] <= clock
    BY <1>1 DEF Undisturbed
<1>3. ASSUME NEW k \in Keys, NEW h \in admitted[k] PROVE Counts(h) <=> IsFresh(h.at, now[t])
    <2>1. h.at \in Nat /\ now[t] \in Nat /\ clock \in Nat /\ Window \in Nat
        BY MomentsAreNumbers DEF WindowInv, LimiterInv
    <2>2. IsFresh(h.at, clock) => IsFresh(h.at, now[t])
        BY <1>2, <2>1 DEF IsFresh
    <2> QED BY <1>1, <2>2 DEF Counts
<1> QED BY <1>1, <1>3

(* A step of the one call leaves the others between calls, and its time.   *)
LEMMA OneStep ==
    ASSUME WindowInv, ~overlapped, NEW t \in Threads, Step(t)
    PROVE  /\ Active(t) /\ overlapped' = overlapped /\ clock' = clock /\ now' = now /\ key' = key
           /\ \A u \in Threads \ {t} : ~Active(u)'
           /\ \A h : Counts(h)' => Counts(h)
<1>1. Active(t) /\ overlapped' = overlapped /\ clock' = clock /\ now' = now /\ key' = key
    BY DEF Active, Between, Step, At, table, frame, history, ListKeys, ReadTimestamps, StoreFresh,
           GetTimestamps, InsertKey, MoveToEnd, CheckLimit, AppendHit, TestCap, PopOldest
<1>2. \A u \in Threads \ {t} : pc'[u] = pc[u] /\ ~Active(u)
    BY <1>1, CountsIsFresh
    DEF Step, At, table, frame, history, ListKeys, ReadTimestamps, StoreFresh, WindowInv,
        LimiterInv, TypeOK, GetTimestamps, InsertKey, MoveToEnd, CheckLimit, AppendHit, TestCap,
        PopOldest
<1>3. \A u \in Threads \ {t} : ~Active(u)'
    BY <1>2 DEF Active
<1> QED BY <1>1, <1>3 DEF Counts

(* The effect of a new list at one key on the lists of the others.         *)
LEMMA StoreFrame ==
    ASSUME TypeOK, NEW k \in Keys, NEW s \in SUBSET Hit, Store(k, s)
    PROVE  /\ hits'[k] # NoList /\ heap'[hits'[k]] = s
           /\ \A j \in Keys \ {k} : hits'[j] = hits[j]
                    /\ (hits[j] # NoList => heap'[hits[j]] = heap[hits[j]])
<1>1. NewList \in Lists /\ NewList # NoList /\ \A j \in Keys : hits[j] # NewList
    BY NewListIsNew DEF InUse
<1> QED BY <1>1 DEF Store, TypeOK

(* A step of the one call keeps what a window may still count.             *)
LEMMA KeptStep ==
    ASSUME WindowInv, ~overlapped, NEW t \in Threads, Step(t)
    PROVE  Kept'
<1> USE DEF WindowInv, LimiterInv, TypeOK
<1>a. Kept /\ Active(t) /\ now' = now /\ \A h : Counts(h)' => Counts(h)
    BY OneStep DEF OneAtATime
<1>b. Undisturbed(t) /\ \A k \in Keys : \A h \in admitted[k] : Counts(h) <=> IsFresh(h.at, now[t])
    BY <1>a, CountsIsFresh
<1>1. ASSUME UNCHANGED <<hits, heap, admitted>>, evicted \subseteq evicted' PROVE Kept'
    BY <1>1, <1>a DEF Kept
<1>2. CASE StoreFresh(t)
    <2> DEFINE k == Head(todo[t])
    <2>0. /\ k \in Keys /\ hits[k] # NoList /\ UNCHANGED <<admitted, evicted>>
          /\ fresh[t] = {h \in heap[hits[k]] : IsFresh(h.at, now[t])}
          /\ pc[t] = "store"
        BY <1>2, <1>b, HeadIsKey DEF StoreFresh, Undisturbed, Frames, InFrame
    <2>2. CASE fresh[t] # {}
        <3>1. Store(k, fresh[t])
            BY <1>2, <2>2 DEF StoreFresh
        <3> HIDE DEF k
        <3>2. /\ hits'[k] # NoList /\ heap'[hits'[k]] = fresh[t]
              /\ \A j \in Keys \ {k} : hits'[j] = hits[j]
                    /\ (hits[j] # NoList => heap'[hits[j]] = heap[hits[j]])
            BY <2>0, <3>1, StoreFrame
        <3> QED BY <1>a, <1>b, <2>0, <3>2 DEF Kept
    <2>3. CASE fresh[t] = {}
        <3>1. hits' = [hits EXCEPT ![k] = NoList] /\ heap' = heap
            BY <1>2, <2>0, <2>3 DEF StoreFresh
        <3> HIDE DEF k
        <3> QED BY <1>a, <1>b, <2>0, <2>3, <3>1 DEF Kept
    <2> QED BY <2>2, <2>3
<1>3. CASE InsertKey(t)
    <2>1. /\ Store(key[t], {}) /\ hits[key[t]] = NoList /\ UNCHANGED <<admitted, evicted>>
        BY <1>3, <1>b DEF InsertKey, At, Undisturbed, history
    <2>2. \A j \in Keys \ {key[t]} : hits'[j] = hits[j]
                    /\ (hits[j] # NoList => heap'[hits[j]] = heap[hits[j]])
        <3>1. key[t] \in Keys /\ {} \in SUBSET Hit
            OBVIOUS
        <3> QED BY <2>1, <3>1, StoreFrame
    <2> QED BY <1>a, <2>1, <2>2 DEF Kept
<1>4. CASE AppendHit(t)
    <2>1. /\ hits' = hits /\ heap' = [heap EXCEPT ![mine[t]] = @ \cup {NewHit(t)}]
          /\ admitted' = [admitted EXCEPT ![key[t]] = @ \cup {NewHit(t)}]
          /\ evicted' = evicted /\ pc[t] = "append"
        BY <1>4 DEF AppendHit, At
    <2>2. mine[t] = hits[key[t]] /\ mine[t] # NoList /\ mine[t] \in Lists
        BY <1>b, <2>1 DEF Undisturbed, Frames, InFrame
    <2>3. \A l \in Lists : heap[l] \subseteq heap'[l]
        BY <2>1
    <2>4. NewHit(t) \in heap'[hits[key[t]]]
        BY <2>1, <2>2
    <2> QED BY <1>a, <2>1, <2>2, <2>3, <2>4 DEF Kept
<1>5. CASE PopOldest(t)
    <2>1. CASE order # <<>>
        <3>1. /\ hits' = [hits EXCEPT ![Head(order)] = NoList] /\ evicted' = evicted \cup {Head(order)}
              /\ UNCHANGED <<heap, admitted>>
            BY <1>5, <2>1 DEF PopOldest
        <3> QED BY <1>a, <3>1 DEF Kept
    <2>2. CASE order = <<>>
        BY <1>1, <1>5, <2>2 DEF PopOldest
    <2> QED BY <2>1, <2>2
<1> QED
    BY <1>1, <1>2, <1>3, <1>4, <1>5
    DEF Step, table, history, ListKeys, ReadTimestamps, GetTimestamps, MoveToEnd, CheckLimit,
        TestCap

(* A step of the one call knows what it has done so far.                   *)
LEMMA UndisturbedStep ==
    ASSUME WindowInv, ~overlapped, NEW t \in Threads, Step(t), Active(t)'
    PROVE  Undisturbed(t)'
<1> USE DEF WindowInv, LimiterInv, TypeOK
<1>a. Active(t) /\ now' = now /\ key' = key /\ clock' = clock
    BY OneStep
<1>b. Undisturbed(t)
    BY <1>a, CountsIsFresh
<1>c. now'[t] <= clock'
    BY <1>a, <1>b DEF Undisturbed
<1>d. ASSUME admitted' = admitted
      PROVE  \A k \in Keys : \A h \in admitted'[k] : h.at <= now'[t]
    BY <1>a, <1>b, <1>d DEF Undisturbed
<1>1. CASE ListKeys(t)
    <2>1. pc'[t] = "prune" /\ todo'[t] = order /\ UNCHANGED <<hits, heap, admitted>>
        BY <1>1 DEF ListKeys, At, table, history
    <2>2. \A k \in Keys \ ToSet(order) : hits[k] = NoList
        OBVIOUS
    <2> QED BY <1>c, <1>d, <2>1, <2>2 DEF Undisturbed, AllFresh
<1>2. CASE ReadTimestamps(t)
    <2>1. /\ pc[t] = "prune" /\ pc'[t] = "store" /\ UNCHANGED <<todo, hits, heap, admitted>>
          /\ hits[Head(todo[t])] # NoList
          /\ fresh'[t] = {h \in heap[hits[Head(todo[t])]] : IsFresh(h.at, now[t])}
        BY <1>2 DEF ReadTimestamps, At, table, history, Active, Between
    <2>2. \A k \in Keys \ ToSet(todo'[t]) : AllFresh(k, now[t])'
        BY <1>a, <1>b, <2>1 DEF Undisturbed, AllFresh
    <2> QED BY <1>a, <1>c, <1>d, <2>1, <2>2 DEF Undisturbed
<1>3. CASE StoreFresh(t)
    <2> DEFINE k == Head(todo[t])
    <2>0. /\ k \in Keys /\ hits[k] # NoList /\ admitted' = admitted /\ pc[t] = "store"
          /\ fresh[t] = {h \in heap[hits[k]] : IsFresh(h.at, now[t])}
          /\ todo'[t] = Tail(todo[t]) /\ todo[t] # <<>> /\ fresh[t] \in SUBSET Hit
        BY <1>3, <1>b, HeadIsKey DEF StoreFresh, Undisturbed, Frames, InFrame
    <2>1. pc'[t] = "prune"
        BY <1>3, <2>0 DEF StoreFresh, At
    <2>2. ToSet(todo[t]) = ToSet(todo'[t]) \cup {k}
        BY <2>0, OrderPopped
    <2>3. \A j \in Keys \ {k} : hits'[j] = hits[j]
                    /\ (hits[j] # NoList => heap'[hits[j]] = heap[hits[j]])
        <3>1. CASE fresh[t] # {}
            <4>1. Store(k, fresh[t])
                BY <1>3, <3>1 DEF StoreFresh
            <4> HIDE DEF k
            <4> QED BY <2>0, <4>1, StoreFrame
        <3>2. CASE fresh[t] = {}
            BY <1>3, <2>0, <3>2 DEF StoreFresh
        <3> QED BY <3>1, <3>2
    <2>4. hits'[k] # NoList => \A h \in heap'[hits'[k]] : IsFresh(h.at, now'[t])
        <3>1. CASE fresh[t] # {}
            <4>1. Store(k, fresh[t])
                BY <1>3, <3>1 DEF StoreFresh
            <4>2. heap'[hits'[k]] = fresh[t]
                <5> HIDE DEF k
                <5> QED BY <2>0, <4>1, StoreFrame
            <4> QED BY <1>a, <2>0, <4>2
        <3>2. CASE fresh[t] = {}
            BY <1>3, <1>a, <2>0, <3>2 DEF StoreFresh
        <3> QED BY <3>1, <3>2
    <2> HIDE DEF k
    <2>5. \A j \in Keys \ ToSet(todo'[t]) : AllFresh(j, now[t])'
        BY <1>a, <1>b, <2>0, <2>2, <2>3, <2>4 DEF Undisturbed, AllFresh
    <2> QED BY <1>a, <1>c, <1>d, <2>0, <2>1, <2>5 DEF Undisturbed
<1>4. CASE GetTimestamps(t)
    <2>1. /\ pc[t] = "prune" /\ todo[t] = <<>> /\ UNCHANGED <<hits, heap, admitted, todo>>
          /\ mine'[t] = hits[key[t]]
          /\ pc'[t] = IF hits[key[t]] = NoList THEN "insert" ELSE "move"
        BY <1>4 DEF GetTimestamps, table, history
    <2>2. ToSet(todo[t]) = {}
        BY <2>1 DEF ToSet
    <2>3. AllFresh(key[t], now[t])'
        BY <1>a, <1>b, <2>1, <2>2 DEF Undisturbed, AllFresh
    <2> QED BY <1>a, <1>c, <1>d, <2>1, <2>3 DEF Undisturbed
<1>5. CASE InsertKey(t)
    <2>1. /\ pc'[t] = "move" /\ mine'[t] = NewList /\ hits'[key[t]] = NewList
          /\ Store(key[t], {}) /\ admitted' = admitted
        BY <1>5 DEF InsertKey, At, Store, history
    <2>2. heap'[hits'[key[t]]] = {}
        <3>1. key[t] \in Keys /\ {} \in SUBSET Hit
            OBVIOUS
        <3> QED BY <2>1, <3>1, StoreFrame
    <2> QED BY <1>a, <1>c, <1>d, <2>1, <2>2 DEF Undisturbed, AllFresh
<1>6. CASE MoveToEnd(t)
    <2>1. /\ pc[t] = "move" /\ pc'[t] = "check" /\ UNCHANGED <<hits, heap, admitted, mine>>
        BY <1>6 DEF MoveToEnd, At, history, Active, Between
    <2> QED BY <1>a, <1>b, <1>c, <1>d, <2>1 DEF Undisturbed, AllFresh
<1>7. CASE CheckLimit(t)
    <2>1. /\ pc[t] = "check" /\ pc'[t] = "append" /\ UNCHANGED <<hits, heap, admitted, mine>>
          /\ ~IsFull(mine[t])
        BY <1>7 DEF CheckLimit, At, history, table, Active, Between
    <2> QED BY <1>a, <1>b, <1>c, <1>d, <2>1 DEF Undisturbed, AllFresh, IsFull
<1>8. CASE AppendHit(t)
    <2>1. pc'[t] = "evict" /\ admitted' = [admitted EXCEPT ![key[t]] = @ \cup {NewHit(t)}]
        BY <1>8 DEF AppendHit, At
    <2>2. NewHit(t).at = now[t] /\ now[t] \in Nat
        BY MomentsAreNumbers DEF NewHit
    <2>3. \A k \in Keys : \A h \in admitted'[k] : h.at <= now[t]
        BY <1>b, <2>1, <2>2 DEF Undisturbed
    <2> QED BY <1>a, <1>c, <2>1, <2>3 DEF Undisturbed
<1>9. CASE TestCap(t) \/ PopOldest(t)
    <2>1. pc'[t] \in {"pop", "idle", "evict", "error"} /\ admitted' = admitted
        BY <1>9 DEF TestCap, PopOldest, At, history
    <2> QED BY <1>c, <1>d, <2>1 DEF Undisturbed
<1> QED BY <1>1, <1>2, <1>3, <1>4, <1>5, <1>6, <1>7, <1>8, <1>9 DEF Step

(* The hit a thread admits is the last of its key.                         *)
LEMMA NewHitIsLast ==
    ASSUME WindowInv, ~overlapped, NEW t \in Threads, AppendHit(t)
    PROVE  /\ Undisturbed(t) /\ pc[t] = "append" /\ key[t] \in Keys
           /\ NewHit(t).at = now[t] /\ NewHit(t).n \in Nat /\ NewHit(t) \notin admitted[key[t]]
           /\ \A h \in admitted[key[t]] : h.n < NewHit(t).n /\ h.at <= now[t]
           /\ admitted' = [admitted EXCEPT ![key[t]] = @ \cup {NewHit(t)}]
<1>1. /\ pc[t] = "append"
      /\ admitted' = [admitted EXCEPT ![key[t]] = @ \cup {NewHit(t)}]
    BY DEF AppendHit, At
<1>2. Undisturbed(t)
    BY <1>1, CountsIsFresh DEF Active, Between
<1>3. key[t] \in Keys
    BY DEF WindowInv, LimiterInv, TypeOK
<1>4. /\ Cardinality(admitted[key[t]]) \in Nat
      /\ \A h \in admitted[key[t]] : h.n \in 1 .. Cardinality(admitted[key[t]])
    BY <1>3, FS_CardinalityType DEF WindowInv, LimiterInv, Numbered
<1>5. NewHit(t).at = now[t] /\ NewHit(t).n = Cardinality(admitted[key[t]]) + 1
    BY DEF NewHit
<1>6. \A h \in admitted[key[t]] : h.n < NewHit(t).n
    BY <1>4, <1>5
<1>7. NewHit(t) \notin admitted[key[t]] /\ NewHit(t).n \in Nat
    BY <1>4, <1>5
<1>8. \A h \in admitted[key[t]] : h.at <= now[t]
    BY <1>2, <1>3 DEF Undisturbed
<1> QED BY <1>1, <1>2, <1>3, <1>5, <1>6, <1>7, <1>8

(* The numbers of the admissions of a key are in the order of their times. *)
LEMMA InOrderStep ==
    ASSUME WindowInv, ~overlapped, NEW t \in Threads, Step(t)
    PROVE  InOrder'
<1>a. InOrder /\ clock' = clock
    BY OneStep DEF WindowInv, OneAtATime
<1>1. CASE admitted' = admitted
    BY <1>1, <1>a DEF InOrder
<1>2. CASE AppendHit(t)
    <2> DEFINE x == NewHit(t)
    <2>1. /\ Undisturbed(t) /\ key[t] \in Keys
          /\ x.at = now[t] /\ x.n \in Nat /\ x \notin admitted[key[t]]
          /\ \A h \in admitted[key[t]] : h.n < x.n /\ h.at <= now[t]
          /\ admitted' = [admitted EXCEPT ![key[t]] = @ \cup {x}]
        BY <1>2, NewHitIsLast
    <2>2. now[t] <= clock /\ now[t] \in Nat
        BY <2>1, MomentsAreNumbers DEF Undisturbed, WindowInv, LimiterInv
    <2>3. \A k \in Keys : \A h \in admitted[k] : h.n \in Nat /\ h.at \in Nat
        BY MomentsAreNumbers DEF WindowInv, LimiterInv
    <2> HIDE DEF x
    <2>4. \A k \in Keys : admitted'[k] = IF k = key[t] THEN admitted[k] \cup {x} ELSE admitted[k]
        BY <2>1 DEF WindowInv, LimiterInv, TypeOK
    <2>5. ASSUME NEW k \in Keys, NEW h \in admitted'[k] PROVE h.at <= clock
        BY <1>a, <2>1, <2>2, <2>4 DEF InOrder
    <2>6. ASSUME NEW k \in Keys, NEW g \in admitted'[k], NEW h \in admitted'[k], g.n < h.n
          PROVE  g.at <= h.at
        <3>1. CASE g \in admitted[k] /\ h \in admitted[k]
            BY <1>a, <2>6, <3>1 DEF InOrder
        <3>2. CASE k = key[t] /\ h = x
            BY <2>1, <2>2, <2>4, <2>6, <3>2
        <3>3. CASE k = key[t] /\ g = x /\ h # x
            BY <2>1, <2>3, <2>4, <2>6, <3>3
        <3> QED BY <2>4, <2>6, <3>1, <3>2, <3>3
    <2> QED BY <1>a, <2>5, <2>6 DEF InOrder
<1> QED
    BY <1>1, <1>2
    DEF Step, table, history, ListKeys, ReadTimestamps, StoreFresh, GetTimestamps, InsertKey,
        MoveToEnd, CheckLimit, TestCap, PopOldest

(* While calls do not overlap, a step leaves every window within the limit.*)
LEMMA WindowStep ==
    ASSUME WindowInv, ~overlapped, NEW t \in Threads, Step(t), NEW k \in Keys \ evicted',
           NEW at \in Time
    PROVE  AdmittedIn(k, at)' <= Limit
<1>a. evicted \subseteq evicted'
    BY DEF Step, table, history, ListKeys, ReadTimestamps, StoreFresh, GetTimestamps, InsertKey,
           MoveToEnd, CheckLimit, AppendHit, TestCap, PopOldest
<1>b. AdmittedIn(k, at) <= Limit
    BY <1>a DEF WindowInv, WindowRespected
<1>1. CASE admitted' = admitted
    BY <1>1, <1>b DEF AdmittedIn, WindowOf
<1>2. CASE AppendHit(t)
    <2> DEFINE x == NewHit(t)
               L == heap[hits[k]]
    <2>1. /\ Undisturbed(t) /\ key[t] \in Keys /\ pc[t] = "append"
          /\ x.at = now[t]
          /\ \A h \in admitted[key[t]] : h.at <= now[t]
          /\ admitted' = [admitted EXCEPT ![key[t]] = @ \cup {x}]
        BY <1>2, NewHitIsLast
    <2>2. /\ clock \in Nat /\ now[t] \in Nat /\ Window \in Nat \ {0} /\ at \in Nat
          /\ \A h \in admitted[k] : h.at \in Nat
        BY MomentsAreNumbers DEF WindowInv, LimiterInv
    <2> HIDE DEF x
    <2>3. CASE k # key[t] \/ ~ (at - Window < now[t] /\ now[t] <= at)
        <3>1. admitted'[k] = IF k = key[t] THEN admitted[k] \cup {x} ELSE admitted[k]
            BY <2>1 DEF WindowInv, LimiterInv, TypeOK
        <3>2. WindowOf(k, at)' = WindowOf(k, at)
            BY <2>1, <2>3, <3>1 DEF WindowOf
        <3> QED BY <1>b, <3>2 DEF AdmittedIn
    <2>4. CASE k = key[t] /\ at - Window < now[t] /\ now[t] <= at
        <3>1. Active(t) /\ \A h \in admitted[k] : Counts(h) <=> IsFresh(h.at, now[t])
            BY <2>1, CountsIsFresh DEF Active, Between
        <3>2. hits[k] # NoList /\ mine[t] = hits[k] /\ ~IsFull(hits[k]) /\ mine[t] \in Lists
            BY <2>1, <2>4 DEF Undisturbed, WindowInv, LimiterInv, TypeOK, Frames, InFrame
        <3>3. \A h \in admitted[k] : IsFresh(h.at, now[t]) => h \in L
            BY <1>a, <3>1 DEF WindowInv, OneAtATime, Kept
        <3>4. WindowOf(k, at)' \subseteq L \cup {x}
            <4>1. admitted'[k] = admitted[k] \cup {x}
                BY <2>1, <2>4 DEF WindowInv, LimiterInv, TypeOK
            <4>2. ASSUME NEW h \in admitted[k], at - Window < h.at PROVE h \in L
                BY <2>2, <2>4, <3>3, <4>2 DEF IsFresh
            <4> QED BY <4>1, <4>2 DEF WindowOf
        <3>5. IsFiniteSet(L) /\ Cardinality(L) < Limit
            <4>1. L \subseteq admitted[k] /\ IsFiniteSet(admitted[k])
                BY <3>2 DEF WindowInv, LimiterInv, HitsAreReal, Numbered
            <4>2. IsFiniteSet(L) /\ Cardinality(L) \in Nat
                BY <4>1, FS_Subset, FS_CardinalityType
            <4> QED BY <3>2, <4>2, LimiterAssumption DEF IsFull
        <3> HIDE DEF L
        <3>6. /\ IsFiniteSet(L \cup {x}) /\ Cardinality(L \cup {x}) <= Limit
              /\ Cardinality(L \cup {x}) \in Nat
            <4>1. IsFiniteSet(L \cup {x}) /\ Cardinality(L) \in Nat
                BY <3>5, OneMore, FS_CardinalityType
            <4>2. Cardinality(L \cup {x}) \in {Cardinality(L), Cardinality(L) + 1}
                <5>1. CASE x \in L
                    <6>1. L \cup {x} = L
                        BY <5>1
                    <6> QED BY <6>1
                <5>2. CASE x \notin L
                    BY <3>5, <5>2, OneMore
                <5> QED BY <5>1, <5>2
            <4> QED BY <3>5, <4>1, <4>2, LimiterAssumption
        <3>7. Cardinality(WindowOf(k, at)') <= Cardinality(L \cup {x})
              /\ Cardinality(WindowOf(k, at)') \in Nat
            BY <3>4, <3>6, FS_Subset, FS_CardinalityType
        <3> QED BY <3>6, <3>7, LimiterAssumption DEF AdmittedIn
    <2> QED BY <2>3, <2>4
<1> QED
    BY <1>1, <1>2
    DEF Step, table, history, ListKeys, ReadTimestamps, StoreFresh, GetTimestamps, InsertKey,
        MoveToEnd, CheckLimit, TestCap, PopOldest

(* While calls do not overlap, what holds between the one call, the lists  *)
(* and the admissions goes on holding.                                     *)
LEMMA OneAtATimeStep ==
    ASSUME WindowInv, [Next]_vars
    PROVE  OneAtATime' /\ WindowRespected'
<1> SUFFICES ASSUME ~overlapped'
             PROVE  /\ \A t, u \in Threads : Active(t)' /\ Active(u)' => t = u
                    /\ \A t \in Threads : Active(t)' => Undisturbed(t)'
                    /\ Kept' /\ InOrder'
                    /\ \A k \in Keys \ evicted', at \in Time : AdmittedIn(k, at)' <= Limit
    BY DEF OneAtATime, WindowRespected
<1>a. ~overlapped
    BY DEF Next, Step, vars, table, frame, history, Tick, Acquire, ListKeys, ReadTimestamps,
           StoreFresh, GetTimestamps, InsertKey, MoveToEnd, CheckLimit, AppendHit, TestCap,
           PopOldest, WindowInv, LimiterInv, TypeOK
<1>b. /\ \A t, u \in Threads : Active(t) /\ Active(u) => t = u
      /\ \A t \in Threads : Active(t) => Undisturbed(t)
      /\ Kept /\ InOrder
      /\ \A k \in Keys \ evicted, at \in Time : AdmittedIn(k, at) <= Limit
    BY <1>a DEF WindowInv, OneAtATime, WindowRespected
<1>c. /\ clock \in Nat /\ Window \in Nat \ {0} /\ \A t \in Threads : now[t] \in Nat
      /\ \A k \in Keys : \A h \in admitted[k] : h.at \in Nat
    BY MomentsAreNumbers DEF WindowInv, LimiterInv
<1>d. ASSUME UNCHANGED <<admitted, evicted>>
      PROVE  \A k \in Keys \ evicted', at \in Time : AdmittedIn(k, at)' <= Limit
    BY <1>b, <1>d DEF AdmittedIn, WindowOf
<1>1. CASE Tick
    <2>1. clock' = clock + 1 /\ UNCHANGED <<hits, heap, pc, key, now, todo, fresh, mine, admitted, evicted>>
        BY <1>1 DEF Tick, table, frame, history
    <2>2. \A t \in Threads : Active(t)' <=> Active(t)
        BY <2>1 DEF Active
    <2>3. ASSUME NEW t \in Threads, Active(t)' PROVE Undisturbed(t)'
        <3>1. Undisturbed(t)
            BY <1>b, <2>2, <2>3
        <3>2. now'[t] <= clock'
            BY <1>c, <2>1, <3>1 DEF Undisturbed
        <3> QED BY <2>1, <3>1, <3>2 DEF Undisturbed, AllFresh, IsFull
    <2>4. ASSUME NEW k \in Keys, NEW h \in admitted[k] PROVE Counts(h)' => Counts(h)
        BY <1>c, <2>1, <2>2 DEF Counts, IsFresh
    <2>5. Kept'
        BY <1>b, <2>1, <2>4 DEF Kept
    <2>6. InOrder'
        BY <1>b, <1>c, <2>1 DEF InOrder
    <2> QED BY <1>b, <1>d, <2>1, <2>2, <2>3, <2>5, <2>6
<1>2. ASSUME NEW t \in Threads, Acquire(t)
      PROVE  /\ \A v, u \in Threads : Active(v)' /\ Active(u)' => v = u
             /\ \A u \in Threads : Active(u)' => Undisturbed(u)'
             /\ Kept' /\ InOrder'
             /\ \A k \in Keys \ evicted', at \in Time : AdmittedIn(k, at)' <= Limit
    <2>1. /\ pc' = [pc EXCEPT ![t] = "list"] /\ now' = [now EXCEPT ![t] = clock]
          /\ UNCHANGED <<clock, hits, heap, admitted, evicted>>
        BY <1>2 DEF Acquire, table
    <2>2. \A u \in Threads : ~Active(u)
        BY <1>2 DEF Acquire, Active
    <2>3. \A u \in Threads \ {t} : ~Active(u)'
        BY <2>1, <2>2 DEF Active, WindowInv, LimiterInv, TypeOK
    <2>4. pc'[t] = "list" /\ now'[t] = clock
        BY <2>1 DEF WindowInv, LimiterInv, TypeOK
    <2>5. Undisturbed(t)'
        BY <1>b, <1>c, <2>1, <2>4 DEF Undisturbed, InOrder
    <2>6. \A h : Counts(h)' => Counts(h)
        BY <2>1, <2>3, <2>4 DEF Counts
    <2>7. Kept' /\ InOrder'
        BY <1>b, <2>1, <2>6 DEF Kept, InOrder
    <2> QED BY <1>d, <2>1, <2>3, <2>5, <2>7
<1>3. ASSUME NEW t \in Threads, Step(t)
      PROVE  /\ \A v, u \in Threads : Active(v)' /\ Active(u)' => v = u
             /\ \A u \in Threads : Active(u)' => Undisturbed(u)'
             /\ Kept' /\ InOrder'
             /\ \A k \in Keys \ evicted', at \in Time : AdmittedIn(k, at)' <= Limit
    <2>1. \A u \in Threads \ {t} : ~Active(u)'
        BY <1>3, <1>a, OneStep
    <2>2. \A u \in Threads : Active(u)' => Undisturbed(u)'
        BY <1>3, <1>a, <2>1, UndisturbedStep
    <2>3. Kept' /\ InOrder'
        BY <1>3, <1>a, KeptStep, InOrderStep
    <2>4. \A k \in Keys \ evicted', at \in Time : AdmittedIn(k, at)' <= Limit
        BY <1>3, <1>a, WindowStep
    <2> QED BY <2>1, <2>2, <2>3, <2>4
<1>4. CASE UNCHANGED vars
    <2>1. UNCHANGED <<clock, hits, heap, pc, key, now, todo, fresh, mine, admitted, evicted>>
        BY <1>4 DEF vars, table, frame, history
    <2>2. \A t \in Threads : (Active(t)' <=> Active(t)) /\ (Undisturbed(t)' <=> Undisturbed(t))
        BY <2>1 DEF Active, Undisturbed, AllFresh, IsFull
    <2>3. Kept' /\ InOrder'
        BY <1>b, <2>1 DEF Kept, InOrder, Counts, Active
    <2> QED BY <1>b, <1>d, <2>1, <2>2, <2>3
<1> QED BY <1>1, <1>2, <1>3, <1>4 DEF Next

(* Every behaviour keeps, until calls overlap, the one call's view of the  *)
(* lists in step with the admissions of every window.                      *)
THEOREM WindowInvariant == Spec => []WindowInv
<1>1. Init => WindowInv
    <2> SUFFICES ASSUME Init PROVE WindowInv
        OBVIOUS
    <2>1. LimiterInv
        BY StartIsSound
    <2>2. (\A t \in Threads : ~Active(t)) /\ \A k \in Keys : admitted[k] = {}
        BY DEF Init, Active, Between
    <2>3. OneAtATime
        BY <2>2 DEF OneAtATime, Kept, InOrder
    <2>4. ASSUME NEW k \in Keys, NEW at \in Time PROVE AdmittedIn(k, at) <= Limit
        <3>1. WindowOf(k, at) = {}
            BY <2>2 DEF WindowOf
        <3> QED BY <3>1, FS_EmptySet, LimiterAssumption DEF AdmittedIn
    <2> QED BY <2>1, <2>3, <2>4 DEF WindowInv, WindowRespected
<1>2. WindowInv /\ [Next]_vars => WindowInv'
    BY LimiterInvStep, OneAtATimeStep DEF WindowInv
<1> QED BY <1>1, <1>2, PTL DEF Spec

(* "The limiter allows up to the limit": as long as calls do not overlap,  *)
(* no window of a key that was never evicted sees more admissions.         *)
THEOREM WindowIsRespected == Spec => []WindowRespected
<1>1. WindowInv => WindowRespected
    BY DEF WindowInv
<1> QED BY <1>1, WindowInvariant, PTL

(* A refused caller had the limit admitted in the window before it, and is *)
(* told the first moment at which it finds a free slot.                    *)
LEMMA RefusalStep ==
    ASSUME WindowInv, ~overlapped, NEW t \in Threads, CheckLimit(t), pc'[t] = "refused"
    PROVE  HonestRefusal(t)'
<1> DEFINE k == key[t]
           n == now[t]
           l == mine[t]
           L == heap[l]
           F == First(l)
           r == RetryAfter(l, n)
<1>1. pc[t] = "check" /\ IsFull(l) /\ retry'[t] = r /\ UNCHANGED <<key, now, admitted, evicted>>
    BY DEF CheckLimit, At, history, WindowInv, LimiterInv, TypeOK
<1>2. Active(t)
    BY <1>1 DEF Active, Between
<1>3. Undisturbed(t) /\ \A h \in admitted[k] : Counts(h) <=> IsFresh(h.at, n)
    BY <1>2, CountsIsFresh DEF WindowInv, LimiterInv, TypeOK
<1>4. l \in Lists /\ l # NoList /\ hits[k] = l /\ k \in Keys /\ n \in Time
    BY <1>1, <1>3 DEF Undisturbed, WindowInv, LimiterInv, TypeOK, Frames, InFrame
<1>5. L # {}
    BY <1>1, FullIsNotEmpty
<1>6. F \in L /\ \A g \in L : F.n <= g.n
    BY <1>4, <1>5, FirstIsFirst DEF WindowInv, LimiterInv
<1>7. L \subseteq admitted[k] /\ IsFiniteSet(admitted[k]) /\ (\A g, h \in admitted[k] : g.n = h.n => g = h)
    BY <1>4 DEF WindowInv, LimiterInv, HitsAreReal, Numbered
<1>8. IsFiniteSet(L) /\ Cardinality(L) \in Nat /\ Limit <= Cardinality(L) /\ Limit \in Nat \ {0}
    <2>1. IsFiniteSet(L) /\ Cardinality(L) \in Nat
        BY <1>7, FS_Subset, FS_CardinalityType
    <2> QED BY <1>1, <2>1, LimiterAssumption DEF IsFull
<1>9. /\ n \in Nat /\ Window \in Nat \ {0}
      /\ \A h \in admitted[k] : h.at \in Nat /\ h.n \in Nat
    BY <1>4, MomentsAreNumbers DEF WindowInv, LimiterInv
<1>10. \A h \in L : h.at + Window > n /\ h.at <= n
    BY <1>1, <1>3, <1>4, <1>7 DEF Undisturbed, AllFresh, IsFresh
<1>11. r = F.at + Window - n /\ r \in Nat \ {0}
    <2>1. r = IF F.at + Window - n >= 1 THEN F.at + Window - n ELSE 1
        BY <1>4, <1>5, RetryIs DEF WindowInv, LimiterInv
    <2>2. F.at \in Nat /\ F.at + Window > n
        BY <1>6, <1>7, <1>9, <1>10
    <2> HIDE DEF r, F
    <2> QED BY <1>9, <2>1, <2>2
<1>12. \A h \in L : F.at <= h.at
    <2>1. \A g, h \in admitted[k] : g.n < h.n => g.at <= h.at
        BY <1>4 DEF WindowInv, OneAtATime, InOrder
    <2>2. ASSUME NEW h \in L PROVE F.at <= h.at
        <3>1. CASE F.n = h.n
            BY <1>6, <1>7, <1>9, <3>1
        <3>2. CASE F.n < h.n
            BY <1>6, <1>7, <2>1, <3>2
        <3> QED BY <1>6, <1>7, <1>9, <3>1, <3>2
    <2> QED BY <2>2
<1>13. \A d \in Nat : IsFiniteSet(WindowOf(k, n + d)) /\ AdmittedIn(k, n + d) \in Nat
    <2>1. \A d \in Nat : IsFiniteSet(WindowOf(k, n + d))
        BY <1>7, FS_Subset DEF WindowOf
    <2> QED BY <2>1, FS_CardinalityType DEF AdmittedIn
<1>14. ASSUME NEW d \in Nat, d < r PROVE AdmittedIn(k, n + d) >= Limit
    <2> DEFINE m == n + d
    <2>1. ASSUME NEW h \in L PROVE m - Window < h.at /\ h.at <= m
        <3>1. h.at \in Nat /\ F.at \in Nat /\ F.at <= h.at /\ h.at <= n
            BY <1>6, <1>7, <1>9, <1>10, <1>12
        <3> HIDE DEF r, F, n, L
        <3> QED BY <1>9, <1>11, <1>14, <3>1
    <2>2. IsFiniteSet(WindowOf(k, m)) /\ AdmittedIn(k, m) \in Nat
        BY <1>13
    <2> HIDE DEF m
    <2>3. L \subseteq WindowOf(k, m)
        BY <1>7, <2>1 DEF WindowOf
    <2>4. Cardinality(L) <= AdmittedIn(k, m)
        BY <2>2, <2>3, FS_Subset DEF AdmittedIn
    <2> HIDE DEF L
    <2>5. AdmittedIn(k, m) >= Limit
        BY <1>8, <2>2, <2>4
    <2> QED BY <2>5 DEF m
<1>15. AdmittedIn(k, n) >= Limit
    <2>1. n + 0 = n /\ 0 < r
        BY <1>9, <1>11
    <2> HIDE DEF r
    <2>2. AdmittedIn(k, n + 0) >= Limit
        BY <1>14, <2>1
    <2> QED BY <2>1, <2>2
<1>16. ASSUME k \notin evicted PROVE AdmittedIn(k, n + r) < Limit
    <2>1. Cardinality(L) <= Limit
        <3>1. AdmittedIn(k, n) <= Limit
            BY <1>4, <1>16 DEF WindowInv, WindowRespected
        <3>2. L \subseteq WindowOf(k, n)
            BY <1>7, <1>9, <1>10 DEF WindowOf
        <3>3. IsFiniteSet(WindowOf(k, n)) /\ AdmittedIn(k, n) \in Nat
            <4>1. n + 0 = n
                BY <1>9
            <4>2. IsFiniteSet(WindowOf(k, n + 0)) /\ AdmittedIn(k, n + 0) \in Nat
                BY <1>13
            <4> QED BY <4>1, <4>2
        <3>4. Cardinality(L) <= AdmittedIn(k, n)
            BY <3>2, <3>3, FS_Subset DEF AdmittedIn
        <3> HIDE DEF L
        <3> QED BY <1>8, <3>1, <3>3, <3>4
    <2> DEFINE m == n + r
    <2>2. ASSUME NEW h \in admitted[k], m - Window < h.at PROVE h \in L /\ h # F
        <3>1. F.at \in Nat /\ h.at \in Nat /\ F.at + Window > n
            BY <1>6, <1>7, <1>9, <1>10
        <3>2. F.at < h.at
            <4> HIDE DEF r, F
            <4> QED BY <1>9, <1>11, <2>2, <3>1
        <3>3. IsFresh(h.at, n)
            <4> HIDE DEF F
            <4> QED BY <1>9, <3>1, <3>2 DEF IsFresh
        <3>4. h \in L
            BY <1>3, <1>4, <1>16, <3>3 DEF WindowInv, OneAtATime, Kept
        <3> QED BY <3>1, <3>2, <3>4
    <2>3. AdmittedIn(k, m) \in Nat
        BY <1>11, <1>13
    <2> HIDE DEF m
    <2>4. WindowOf(k, m) \subseteq L \ {F}
        BY <2>2 DEF WindowOf
    <2>5. IsFiniteSet(L \ {F}) /\ Cardinality(L \ {F}) = Cardinality(L) - 1
        BY <1>6, <1>8, FS_RemoveElement
    <2>6. AdmittedIn(k, m) <= Cardinality(L \ {F})
        BY <2>4, <2>5, FS_Subset DEF AdmittedIn
    <2>7. AdmittedIn(k, m) < Limit
        <3> HIDE DEF L, F
        <3> QED BY <1>8, <2>1, <2>3, <2>5, <2>6
    <2> QED BY <2>7 DEF m
<1>17. HonestRefusal(t)' <=>
         /\ AdmittedIn(k, n) >= Limit
         /\ k \notin evicted => \A d \in 0 .. r : AdmittedIn(k, n + d) < Limit <=> d = r
    <2> HIDE DEF r
    <2> QED BY <1>1 DEF HonestRefusal, AdmittedIn, WindowOf
<1> HIDE DEF k, n, r
<1>18. ASSUME k \notin evicted, NEW d \in 0 .. r PROVE AdmittedIn(k, n + d) < Limit <=> d = r
    <2>1. d \in Nat /\ (d < r \/ d = r) /\ AdmittedIn(k, n + d) \in Nat
        BY <1>11, <1>13
    <2>2. CASE d < r
        BY <1>8, <1>11, <1>14, <2>1, <2>2
    <2>3. CASE d = r
        BY <1>16, <1>18, <2>3
    <2> QED BY <2>1, <2>2, <2>3
<1> QED BY <1>15, <1>17, <1>18

(* "... then refuses", and no sooner: as long as calls do not overlap, a   *)
(* refused caller had the whole limit admitted in the window before, and   *)
(* Retry-After is the first moment at which it finds a free slot.          *)
THEOREM RefusalsAreHonest == Spec => RefusalIsHonest
<1>1. ASSUME WindowInv, [Next]_vars
      PROVE  [\A t \in Threads : ~overlapped /\ pc[t] = "check" /\ pc'[t] = "refused"
                => HonestRefusal(t)']_vars
    <2> SUFFICES ASSUME NEW t \in Threads, ~overlapped, pc[t] = "check", pc'[t] = "refused"
                 PROVE  HonestRefusal(t)'
        OBVIOUS
    <2>1. CheckLimit(t)
        BY <1>1 DEF Next, Step, At, vars, table, frame, history, Tick, Acquire, ListKeys,
            ReadTimestamps, StoreFresh, GetTimestamps, InsertKey, MoveToEnd, CheckLimit,
            AppendHit, TestCap, PopOldest, WindowInv, LimiterInv, TypeOK, Between
    <2> QED BY <1>1, <2>1, RefusalStep
<1> QED BY <1>1, WindowInvariant, PTL DEF Spec, RefusalIsHonest
=============================================================================

----------------------- MODULE ConnectionPool_proofs -----------------------
(***************************************************************************)
(* For any routes, descriptors and number of connections: the table and    *)
(* the descriptors of the process agree, an event is handled on the        *)
(* connection it was reported for, and freed memory is out of reach of a   *)
(* Maester with four entries.                                              *)
(***************************************************************************)
EXTENDS ConnectionPool, SequenceTheorems, FiniteSetTheorems,
        WellFoundedInduction, TLAPS

----------------------------------------------------------------------------
(* Numbers                                                                 *)

LEMMA LeastElement ==
    ASSUME NEW T \in SUBSET Nat, T # {}
    PROVE  \E m \in T : \A k \in T : m <= k
<1> DEFINE R == {ss \in Nat \X Nat : ss[1] < ss[2]}
<1>1. IsWellFoundedOn(R, Nat)
  BY NatLessThanWellFounded DEF OpToRel
<1>2. \E m \in T : \A k \in T : ~ (<<k, m>> \in R)
  <2> HIDE DEF R
  <2> QED BY <1>1, WFMin
<1>3. \A m, k \in T : ~ (<<k, m>> \in R) => m <= k
  OBVIOUS
<1> HIDE DEF R
<1> QED
  BY <1>2, <1>3

\* The kernel has a lowest free descriptor whenever it has a free one.
LEMMA LowestFreeIsFree ==
    ASSUME NEW p, FreeFds(p) # {}
    PROVE  LowestFree(p) \in FreeFds(p)
<1>1. FreeFds(p) \in SUBSET Nat
  BY PoolAssumption DEF FreeFds, Fds
<1>2. \E fd \in FreeFds(p) : \A f \in FreeFds(p) : fd <= f
  BY <1>1, LeastElement
<1> QED
  BY <1>2 DEF LowestFree

----------------------------------------------------------------------------
(* Compaction                                                              *)

LEMMA OpenAreFinite ==
    ASSUME NEW table, NEW i \in Nat
    PROVE  /\ IsFiniteSet({k \in 1..i : IsOpen(table[k])})
           /\ Cardinality({k \in 1..i : IsOpen(table[k])}) \in 0..i
<1> DEFINE S == {k \in 1..i : IsOpen(table[k])}
<1>1. IsFiniteSet(1..i) /\ Cardinality(1..i) = i
  BY FS_Interval
<1>2. S \in SUBSET (1..i)
  OBVIOUS
<1> HIDE DEF S
<1>3. IsFiniteSet(S) /\ Cardinality(S) <= i
  BY <1>1, <1>2, FS_Subset
<1>4. Cardinality(S) \in Nat
  BY <1>3, FS_CardinalityType
<1>5. Cardinality(S) \in 0..i
  BY <1>3, <1>4
<1> QED
  BY <1>3, <1>5 DEF S

LEMMA WriteIdxType ==
    ASSUME NEW table, NEW i \in Nat
    PROVE  WriteIdx(table, i) \in 0..i
BY OpenAreFinite, Zenon DEF WriteIdx

LEMMA WriteIdxStart ==
    ASSUME NEW table
    PROVE  WriteIdx(table, 0) = 0
<1>1. {k \in 1..0 : IsOpen(table[k])} = {}
  OBVIOUS
<1> QED
  BY <1>1, FS_EmptySet DEF WriteIdx

\* The index moves on at open entries only.
LEMMA WriteIdxStep ==
    ASSUME NEW table, NEW i \in Nat
    PROVE  WriteIdx(table, i + 1) = IF IsOpen(table[i + 1])
                                    THEN WriteIdx(table, i) + 1
                                    ELSE WriteIdx(table, i)
<1> DEFINE S(n) == {k \in 1..n : IsOpen(table[k])}
<1>1. CASE IsOpen(table[i + 1])
  <2>1. S(i + 1) = S(i) \cup {i + 1} /\ i + 1 \notin S(i)
    BY <1>1
  <2>2. IsFiniteSet(S(i))
    BY OpenAreFinite
  <2>3. Cardinality(S(i) \cup {i + 1}) = Cardinality(S(i)) + 1
    <3> HIDE DEF S
    <3> QED BY <2>1, <2>2, FS_AddElement
  <2> QED
    BY <1>1, <2>1, <2>3 DEF WriteIdx
<1>2. CASE ~IsOpen(table[i + 1])
  <2>1. S(i + 1) = S(i)
    BY <1>2
  <2> QED
    BY <1>2, <2>1 DEF WriteIdx
<1> QED
  BY <1>1, <1>2

\* Two open entries never get one place.
LEMMA WriteIdxGrows ==
    ASSUME NEW table, NEW i \in Nat, NEW j \in Nat, i < j, IsOpen(table[j])
    PROVE  WriteIdx(table, i) < WriteIdx(table, j)
<1> DEFINE S(n) == {k \in 1..n : IsOpen(table[k])}
<1>1. S(i) \in SUBSET S(j) /\ S(i) # S(j)
  <2>1. j \in S(j) /\ j \notin S(i)
    OBVIOUS
  <2> QED BY <2>1
<1>2. IsFiniteSet(S(j))
  BY OpenAreFinite
<1>3. Cardinality(S(i)) <= Cardinality(S(j)) /\ Cardinality(S(i)) # Cardinality(S(j))
  <2> HIDE DEF S
  <2> QED BY <1>1, <1>2, FS_Subset
<1>4. WriteIdx(table, i) \in Nat /\ WriteIdx(table, j) \in Nat
  BY WriteIdxType
<1> QED
  BY <1>3, <1>4 DEF WriteIdx

\* Every place below the final index is some open entry's.
LEMMA EveryPlaceIsFilled ==
    ASSUME NEW table, NEW n \in Nat, NEW j \in 1..WriteIdx(table, n)
    PROVE  \E i \in 1..n : IsOpen(table[i]) /\ WriteIdx(table, i) = j
<1> DEFINE T == {i \in 0..n : WriteIdx(table, i) >= j}
<1>1. \A i \in Nat : WriteIdx(table, i) \in Nat
  BY WriteIdxType
<1>2. T \in SUBSET Nat /\ n \in T
  BY <1>1
<1>3. PICK i \in T : \A k \in T : i <= k
  BY <1>2, LeastElement
<1>4. i # 0
  BY <1>3, WriteIdxStart
<1>5. i - 1 \in 0..n /\ i - 1 \notin T /\ i \in 1..n
  BY <1>3, <1>4
<1>6. WriteIdx(table, i - 1) < j /\ WriteIdx(table, i) >= j
  BY <1>1, <1>3, <1>5
<1>7. WriteIdx(table, i) = IF IsOpen(table[i]) THEN WriteIdx(table, i - 1) + 1
                                               ELSE WriteIdx(table, i - 1)
  <2>1. i - 1 \in Nat /\ (i - 1) + 1 = i
    BY <1>5
  <2> HIDE DEF T
  <2> QED BY <2>1, WriteIdxStep
<1> QED
  BY <1>1, <1>5, <1>6, <1>7

\* Where compaction takes the entry at each position from.
Source(table) ==
    [j \in 1..WriteIdx(table, Len(table)) |->
        CHOOSE i \in DOMAIN table : IsOpen(table[i]) /\ WriteIdx(table, i) = j]

LEMMA SourceProperties ==
    ASSUME NEW table \in Seq(Entry)
    PROVE  /\ WriteIdx(table, Len(table)) \in 0..Len(table)
           /\ Source(table) \in [1..WriteIdx(table, Len(table)) -> DOMAIN table]
           /\ \A j \in DOMAIN Source(table) : IsOpen(table[Source(table)[j]])
           /\ \A i, j \in DOMAIN Source(table) :
                  Source(table)[i] = Source(table)[j] => i = j
           /\ \A i \in DOMAIN table : IsOpen(table[i]) =>
                  \E j \in DOMAIN Source(table) : Source(table)[j] = i
<1> DEFINE n == Len(table)
<1>1. n \in Nat /\ DOMAIN table = 1..n
  BY LenProperties
<1>2. WriteIdx(table, n) \in 0..n
  BY <1>1, WriteIdxType
<1>3. \A j \in 1..WriteIdx(table, n) :
         /\ Source(table)[j] \in DOMAIN table
         /\ IsOpen(table[Source(table)[j]])
         /\ WriteIdx(table, Source(table)[j]) = j
  <2> TAKE j \in 1..WriteIdx(table, n)
  <2>1. \E i \in 1..n : IsOpen(table[i]) /\ WriteIdx(table, i) = j
    <3> HIDE DEF n
    <3> QED BY <1>1, EveryPlaceIsFilled, Zenon
  <2>2. \E i \in DOMAIN table : IsOpen(table[i]) /\ WriteIdx(table, i) = j
    BY <1>1, <2>1
  <2> QED
    BY <2>2 DEF Source
<1>4. DOMAIN Source(table) = 1..WriteIdx(table, n)
  BY DEF Source
<1>5. Source(table) \in [1..WriteIdx(table, n) -> DOMAIN table]
  BY <1>3 DEF Source
<1>6. ASSUME NEW i \in DOMAIN table, IsOpen(table[i])
      PROVE  \E j \in DOMAIN Source(table) : Source(table)[j] = i
  <2> DEFINE j == WriteIdx(table, i)
  <2>1. j \in 1..WriteIdx(table, n)
    <3>1. i - 1 < i /\ i - 1 \in Nat /\ i \in Nat /\ i <= n
      BY <1>1
    <3>2. j \in Nat /\ WriteIdx(table, i - 1) \in Nat /\ WriteIdx(table, n) \in Nat
      BY <1>1, <3>1, WriteIdxType
    <3>3. WriteIdx(table, i - 1) < j
      BY <1>6, <3>1, WriteIdxGrows
    <3>4. j <= WriteIdx(table, n)
      <4>1. {k \in 1..i : IsOpen(table[k])}
              \in SUBSET {k \in 1..n : IsOpen(table[k])}
        BY <1>1, <3>1
      <4>2. IsFiniteSet({k \in 1..n : IsOpen(table[k])})
        BY <1>1, OpenAreFinite
      <4> QED
        BY <4>1, <4>2, FS_Subset DEF WriteIdx
    <3> QED
      BY <3>2, <3>3, <3>4
  <2>2. /\ Source(table)[j] \in DOMAIN table
        /\ IsOpen(table[Source(table)[j]])
        /\ WriteIdx(table, Source(table)[j]) = j
    BY <1>3, <2>1
  <2>3. Source(table)[j] \in Nat /\ i \in Nat
    BY <1>1, <2>2
  <2>4. ~ (Source(table)[j] < i) /\ ~ (i < Source(table)[j])
    <3>1. j \in Nat
      BY <2>3, WriteIdxType
    <3> QED
      BY <1>6, <2>2, <2>3, <3>1, WriteIdxGrows
  <2>5. Source(table)[j] = i
    BY <2>3, <2>4
  <2> QED
    BY <1>4, <2>1, <2>5
<1> QED
  BY <1>2, <1>3, <1>4, <1>5, <1>6

----------------------------------------------------------------------------
(* Pools                                                                   *)

\* The parts of the invariant that speak of the pool alone.
IsPool(p) == p \in Pools /\ Len(p.table) <= p.capacity

Tracked(p) ==
    /\ DOMAIN p.open = {p.table[i].fd : i \in DOMAIN p.table} \ {NoFd}
    /\ \A i, j \in DOMAIN p.table :
           IsOpen(p.table[i]) /\ p.table[i].fd = p.table[j].fd => i = j

Sized(p) ==
    /\ p.capacity = 0 \/ p.capacity >= 4
    /\ p.moved => p.capacity > 4

Sound(p) == IsPool(p) /\ Tracked(p) /\ Sized(p)

\* Until the table is compacted its entries stay where they are; they may be
\* closed, and while one is open there is one connection behind it.
Keeps(p, q) ==
    /\ Len(p.table) <= Len(q.table)
    /\ \A i \in DOMAIN p.table :
           IsOpen(q.table[i]) =>
               /\ IsOpen(p.table[i])
               /\ q.open[q.table[i].fd] = p.open[p.table[i].fd]

LEMMA PoolFields ==
    ASSUME NEW p \in Pools
    PROVE  /\ p.table \in Seq(Entry)
           /\ p.capacity \in Nat
           /\ DOMAIN p.open \subseteq Fds
           /\ p.open \in [DOMAIN p.open -> 1..MaxConns]
           /\ p.made \in 0..MaxConns
           /\ p.moved \in BOOLEAN
           /\ Len(p.table) \in Nat /\ DOMAIN p.table = 1..Len(p.table)
BY DEF Pools, Opens

LEMMA MakeOpens ==
    ASSUME NEW S \in SUBSET Fds, NEW o \in [S -> 1..MaxConns]
    PROVE  o \in Opens
BY DEF Opens

LEMMA KeepsSelf ==
    ASSUME NEW p
    PROVE  Len(p.table) \in Nat => Keeps(p, p)
BY DEF Keeps

LEMMA KeepsOn ==
    ASSUME NEW p \in Pools, NEW q \in Pools, NEW r \in Pools,
           Keeps(p, q), Keeps(q, r)
    PROVE  Keeps(p, r)
BY PoolFields DEF Keeps

----------------------------------------------------------------------------
(* Every operation keeps the pool sound                                    *)

LEMMA GrownSound ==
    ASSUME NEW p, Sound(p), NEW g \in Grown(p)
    PROVE  Sound(g) /\ Keeps(p, g) /\ Len(g.table) < g.capacity
<1>1. p \in Pools
  BY DEF Sound, IsPool
<1>2. CASE g = p /\ Len(p.table) < p.capacity
  BY <1>1, <1>2, PoolFields DEF Sound, Keeps
<1>3. CASE Len(p.table) >= p.capacity
  <2>1. NewCapacity(p.capacity) \in Nat /\ NewCapacity(p.capacity) > p.capacity
        /\ NewCapacity(p.capacity) >= 4
        /\ (p.capacity > 0 => NewCapacity(p.capacity) > 4)
    BY <1>1, PoolFields DEF NewCapacity, Sound, Sized
  <2>2. PICK m \in {p.moved, p.moved \/ p.capacity > 0} :
            g = [p EXCEPT !.capacity = NewCapacity(p.capacity), !.moved = m]
    BY <1>1, <1>3, PoolFields DEF Grown
  <2>3. m \in BOOLEAN /\ (m => p.moved \/ p.capacity > 0)
    BY <1>1, <2>2, PoolFields
  <2>4. /\ g \in Pools
        /\ g.table = p.table /\ g.open = p.open
        /\ g.capacity = NewCapacity(p.capacity) /\ g.moved = m
    BY <1>1, <2>1, <2>2, <2>3 DEF Pools
  <2>6. Len(g.table) < g.capacity
    BY <1>1, <2>1, <2>4, PoolFields DEF Sound, IsPool
  <2>7. IsPool(g) /\ Tracked(g) /\ Keeps(p, g)
    BY <1>1, <2>4, <2>6, PoolFields DEF Sound, IsPool, Tracked, Keeps
  <2>8. Sized(g)
    BY <1>1, <2>1, <2>3, <2>4, PoolFields DEF Sound, Sized
  <2> QED
    BY <2>6, <2>7, <2>8 DEF Sound
<1> QED
  BY <1>1, <1>2, <1>3, PoolFields DEF Grown

\* The new entry stands behind all others, under a descriptor none of them has.
LEMMA ConnectedSound ==
    ASSUME NEW p, Sound(p), Len(p.table) < p.capacity, CanConnect(p),
           NEW label \in Hops \cup {NoLabel}
    PROVE  /\ Sound(Connected(p, label))
           /\ Keeps(p, Connected(p, label))
           /\ Len(Connected(p, label).table) = Len(p.table) + 1
<1> DEFINE fd == LowestFree(p)
           entry == [fd |-> fd, label |-> label]
           S == DOMAIN p.open \cup {fd}
           o == [f \in S |-> IF f = fd THEN p.made + 1 ELSE p.open[f]]
           t == Append(p.table, entry)
           q == Connected(p, label)
<1>1. p \in Pools
  BY DEF Sound, IsPool
<1>2. fd \in Fds /\ fd \notin DOMAIN p.open /\ fd # NoFd
  <2>1. fd \in FreeFds(p)
    BY LowestFreeIsFree DEF CanConnect
  <2> QED
    BY <2>1, PoolAssumption DEF FreeFds, Fds, NoFd
<1>3. entry \in Entry
  BY <1>2 DEF Entry
<1>4. /\ t \in Seq(Entry)
      /\ Len(t) = Len(p.table) + 1
      /\ \A i \in 1..Len(p.table) : t[i] = p.table[i]
      /\ t[Len(p.table) + 1] = entry
      /\ DOMAIN t = 1..(Len(p.table) + 1)
  <2> HIDE DEF entry
  <2> QED BY <1>1, <1>3, PoolFields, AppendProperties
<1>5. S \in SUBSET Fds /\ o \in [S -> 1..MaxConns] /\ p.made + 1 \in 0..MaxConns
  <2>1. p.made + 1 \in 1..MaxConns
    BY <1>1, PoolFields, PoolAssumption DEF CanConnect
  <2> HIDE DEF fd
  <2> QED
    BY <1>1, <1>2, <2>1, PoolFields
<1>6. /\ q \in Pools
      /\ q.table = t /\ q.open = o
      /\ q.capacity = p.capacity /\ q.moved = p.moved
  <2> DEFINE d == [p EXCEPT !.made = p.made + 1, !.open = o]
  <2>1. o \in Opens
    <3> HIDE DEF S, o
    <3> QED BY <1>5, MakeOpens
  <2>2. /\ d \in Pools
        /\ d.table = p.table /\ d.capacity = p.capacity
        /\ d.open = o /\ d.moved = p.moved
    <3> HIDE DEF o
    <3> QED BY <1>1, <1>5, <2>1 DEF Pools
  <2>3. Descriptor(p) = d
    BY <1>1, PoolFields DEF Descriptor
  <2>4. q = [d EXCEPT !.table = t]
    BY <2>2, <2>3, PoolFields DEF Connected
  <2> HIDE DEF d, q, t, o
  <2> QED
    BY <1>4, <2>2, <2>4 DEF Pools
<1> HIDE DEF q
<1>8. IsPool(q)
  BY <1>1, <1>4, <1>6, PoolFields DEF Sound, IsPool
<1>9. \A i \in 1..Len(p.table) : p.table[i].fd # fd
  BY <1>1, <1>2, PoolFields DEF Sound, Tracked
<1>10. Tracked(q)
  <2>1. DOMAIN q.open = DOMAIN p.open \cup {fd} /\ q.table = t
    BY <1>6
  <2>2. {t[i].fd : i \in DOMAIN t} = {p.table[i].fd : i \in DOMAIN p.table} \cup {fd}
    <3> HIDE DEF t, fd
    <3>1. DOMAIN p.table = 1..Len(p.table) /\ Len(p.table) \in Nat
      BY <1>1, PoolFields
    <3>2. t[Len(p.table) + 1].fd = fd
      BY <1>4
    <3> QED
      BY <1>4, <3>1, <3>2
  <2>3. DOMAIN q.open = {q.table[i].fd : i \in DOMAIN q.table} \ {NoFd}
    BY <1>2, <2>1, <2>2 DEF Sound, Tracked
  <2>4. ASSUME NEW i \in DOMAIN t, NEW j \in DOMAIN t,
               IsOpen(t[i]), t[i].fd = t[j].fd
        PROVE  i = j
    <3> HIDE DEF t, fd
    <3>1. DOMAIN p.table = 1..Len(p.table) /\ Len(p.table) \in Nat
      BY <1>1, PoolFields
    <3>2. t[Len(p.table) + 1].fd = fd
      BY <1>4
    <3> QED
      BY <1>4, <1>9, <2>4, <3>1, <3>2 DEF Sound, Tracked
  <2> QED
    BY <2>1, <2>3, <2>4 DEF Tracked
<1>11. Sized(q)
  BY <1>6 DEF Sound, Sized
<1>12. Keeps(p, q)
  <2>1. ASSUME NEW i \in DOMAIN p.table, IsOpen(q.table[i])
        PROVE  /\ IsOpen(p.table[i])
               /\ q.open[q.table[i].fd] = p.open[p.table[i].fd]
    <3>1. q.table[i] = p.table[i] /\ i \in 1..Len(p.table)
      BY <1>1, <1>4, <1>6, PoolFields
    <3>2. p.table[i].fd \in DOMAIN p.open /\ p.table[i].fd # fd
      BY <1>9, <2>1, <3>1 DEF Sound, Tracked, IsOpen
    <3> QED
      BY <1>6, <2>1, <3>1, <3>2
  <2>2. Len(p.table) <= Len(q.table)
    BY <1>1, <1>4, <1>6, PoolFields
  <2> QED
    BY <2>1, <2>2 DEF Keeps
<1>13. Len(q.table) = Len(p.table) + 1
  BY <1>4, <1>6
<1> QED
  BY <1>8, <1>10, <1>11, <1>12, <1>13 DEF Sound, q

\* Closing an entry gives back its own descriptor and no other.
LEMMA ClosedSound ==
    ASSUME NEW p, Sound(p), NEW i \in DOMAIN p.table
    PROVE  Sound(Closed(p, i)) /\ Keeps(p, Closed(p, i))
           /\ Len(Closed(p, i).table) = Len(p.table)
<1> DEFINE fd == p.table[i].fd
           S == DOMAIN p.open \ {fd}
           o == Restrict(p.open, S)
           t == [p.table EXCEPT ![i] = ClosedEntry]
           q == Closed(p, i)
<1>1. p \in Pools
  BY DEF Sound, IsPool
<1>2. /\ t \in Seq(Entry) /\ DOMAIN t = DOMAIN p.table /\ Len(t) = Len(p.table)
      /\ t[i] = ClosedEntry
      /\ \A j \in DOMAIN t : j # i => t[j] = p.table[j]
  <2>1. ClosedEntry \in Entry
    BY DEF ClosedEntry, Entry
  <2> QED
    BY <1>1, <2>1, PoolFields, ExceptSeq
<1>3. S \in SUBSET Fds /\ o \in [S -> 1..MaxConns]
      /\ \A f \in S : o[f] = p.open[f]
  BY <1>1, PoolFields DEF Restrict
<1>4. /\ q \in Pools
      /\ q.table = t /\ q.open = o
      /\ q.capacity = p.capacity /\ q.moved = p.moved
  <2>1. q = [p EXCEPT !.table = t, !.open = o]
    BY <1>1 DEF Closed, Pools
  <2>2. o \in Opens
    <3> HIDE DEF S, o
    <3> QED BY <1>3, MakeOpens
  <2> HIDE DEF q, t, o
  <2> QED
    BY <1>1, <1>2, <2>1, <2>2 DEF Pools
<1> HIDE DEF q
<1>6. IsPool(q)
  BY <1>1, <1>2, <1>4, PoolFields DEF Sound, IsPool
<1>7. Tracked(q)
  <2>1. DOMAIN q.open = DOMAIN p.open \ {fd} /\ q.table = t
    BY <1>3, <1>4
  <2>2. DOMAIN q.open = {t[j].fd : j \in DOMAIN t} \ {NoFd}
    <3>1. ASSUME NEW f \in DOMAIN q.open
          PROVE  f \in {t[j].fd : j \in DOMAIN t} \ {NoFd}
      <4>1. PICK j \in DOMAIN p.table : p.table[j].fd = f /\ f # NoFd /\ f # fd
        BY <2>1 DEF Sound, Tracked
      <4> QED
        BY <1>2, <4>1
    <3>2. ASSUME NEW j \in DOMAIN t, t[j].fd # NoFd
          PROVE  t[j].fd \in DOMAIN q.open
      <4>1. j # i /\ t[j] = p.table[j]
        BY <1>2, <3>2 DEF ClosedEntry
      <4>2. t[j].fd # fd
        BY <1>2, <3>2, <4>1 DEF Sound, Tracked, IsOpen
      <4> QED
        BY <1>2, <2>1, <3>2, <4>1, <4>2 DEF Sound, Tracked
    <3> QED
      BY <3>1, <3>2
  <2>3. ASSUME NEW j \in DOMAIN t, NEW k \in DOMAIN t,
               IsOpen(t[j]), t[j].fd = t[k].fd
        PROVE  j = k
    BY <1>2, <2>3 DEF Sound, Tracked, IsOpen, ClosedEntry
  <2> QED
    BY <2>1, <2>2, <2>3 DEF Tracked
<1>8. Sized(q)
  BY <1>4 DEF Sound, Sized
<1>9. Keeps(p, q)
  <2>1. ASSUME NEW j \in DOMAIN p.table, IsOpen(q.table[j])
        PROVE  /\ IsOpen(p.table[j])
               /\ q.open[q.table[j].fd] = p.open[p.table[j].fd]
    <3>1. j # i /\ q.table[j] = p.table[j]
      BY <1>2, <1>4, <2>1 DEF ClosedEntry, IsOpen
    <3>2. p.table[j].fd \in S
      BY <1>2, <2>1, <3>1 DEF Sound, Tracked, IsOpen
    <3> QED
      BY <1>3, <1>4, <2>1, <3>1, <3>2
  <2>2. Len(p.table) <= Len(q.table)
    BY <1>1, <1>2, <1>4, PoolFields
  <2> QED
    BY <2>1, <2>2 DEF Keeps
<1> QED
  BY <1>2, <1>4, <1>6, <1>7, <1>8, <1>9 DEF Sound, q

\* Compaction loses no open entry and doubles none.
LEMMA CompactedSound ==
    ASSUME NEW p, Sound(p)
    PROVE  /\ Sound(Compacted(p))
           /\ \A i \in DOMAIN Compacted(p).table : IsOpen(Compacted(p).table[i])
<1> DEFINE f == Source(p.table)
           n == WriteIdx(p.table, Len(p.table))
           t == [j \in 1..n |-> p.table[f[j]]]
           q == Compacted(p)
<1>1. p \in Pools /\ p.table \in Seq(Entry)
  BY PoolFields DEF Sound, IsPool
<1>2. /\ n \in 0..Len(p.table)
      /\ f \in [1..n -> DOMAIN p.table]
      /\ \A j \in 1..n : IsOpen(p.table[f[j]])
      /\ \A i, j \in 1..n : f[i] = f[j] => i = j
      /\ \A i \in DOMAIN p.table : IsOpen(p.table[i]) =>
             \E j \in 1..n : f[j] = i
  <2>1. DOMAIN f = 1..n
    BY DEF Source
  <2> QED
    BY <1>1, <2>1, SourceProperties
<1>3. /\ t \in Seq(Entry) /\ DOMAIN t = 1..n /\ Len(t) = n
      /\ \A j \in 1..n : t[j] = p.table[f[j]]
  <2> HIDE DEF n, f
  <2>1. n \in Nat /\ \A j \in 1..n : p.table[f[j]] \in Entry
    BY <1>1, <1>2, PoolFields, ElementOfSeq
  <2> QED
    BY <2>1, IsASeq
<1>4. q = [p EXCEPT !.table = t]
  <2>1. t = [j \in 1..n |-> p.table[CHOOSE i \in DOMAIN p.table :
                IsOpen(p.table[i]) /\ WriteIdx(p.table, i) = j]]
    BY DEF Source
  <2> QED
    BY <1>1, <2>1 DEF Compacted, Pools
<1> HIDE DEF f, n, t, q
<1>5. /\ q \in Pools
      /\ q.table = t /\ q.open = p.open
      /\ q.capacity = p.capacity /\ q.moved = p.moved
  BY <1>1, <1>3, <1>4 DEF Pools
<1>6. IsPool(q)
  BY <1>1, <1>2, <1>3, <1>5, PoolFields DEF Sound, IsPool
<1>7. Tracked(q)
  <2>1. ASSUME NEW fd \in DOMAIN p.open
        PROVE  fd \in {t[j].fd : j \in DOMAIN t} \ {NoFd}
    <3>1. PICK i \in DOMAIN p.table : p.table[i].fd = fd /\ fd # NoFd
      BY DEF Sound, Tracked
    <3>2. PICK j \in 1..n : f[j] = i
      BY <1>2, <3>1 DEF IsOpen
    <3> QED
      BY <1>3, <3>1, <3>2
  <2>2. ASSUME NEW j \in DOMAIN t
        PROVE  t[j].fd \in DOMAIN p.open
    BY <1>2, <1>3 DEF Sound, Tracked, IsOpen
  <2>3. DOMAIN p.open = {t[j].fd : j \in DOMAIN t} \ {NoFd}
    <3>1. NoFd \notin DOMAIN p.open
      BY DEF Sound, Tracked
    <3> QED
      BY <2>1, <2>2, <3>1
  <2>4. ASSUME NEW i \in DOMAIN t, NEW j \in DOMAIN t,
               IsOpen(t[i]), t[i].fd = t[j].fd
        PROVE  i = j
    <3>1. f[i] = f[j]
      BY <1>2, <1>3, <2>4 DEF Sound, Tracked
    <3> QED
      BY <1>2, <1>3, <3>1
  <2> QED
    BY <1>5, <2>3, <2>4 DEF Tracked
<1>8. Sized(q)
  BY <1>5 DEF Sound, Sized
<1>9. \A i \in DOMAIN q.table : IsOpen(q.table[i])
  BY <1>2, <1>3, <1>5
<1> QED
  BY <1>6, <1>7, <1>8, <1>9 DEF Sound, q

LEMMA AllClosedSound ==
    ASSUME NEW p, Sound(p)
    PROVE  Sound(AllClosed(p))
<1> DEFINE S == DOMAIN p.open \ {p.table[i].fd : i \in DOMAIN p.table}
           o == Restrict(p.open, S)
           q == AllClosed(p)
<1>1. p \in Pools
  BY DEF Sound, IsPool
<1>2. S = {}
  BY DEF Sound, Tracked
<1>3. S \in SUBSET Fds /\ o \in [S -> 1..MaxConns] /\ DOMAIN o = {}
  BY <1>2 DEF Restrict
<1>4. o \in Opens
  <2> HIDE DEF S, o
  <2> QED BY <1>3, MakeOpens
<1>5. q = [p EXCEPT !.table = <<>>, !.open = o]
  BY <1>1 DEF AllClosed, Pools
<1>6. <<>> \in Seq(Entry) /\ Len(<<>>) = 0 /\ DOMAIN <<>> = {}
  BY EmptySeq
<1> HIDE DEF S, o, q
<1>7. /\ q \in Pools
      /\ q.table = <<>> /\ q.open = o
      /\ q.capacity = p.capacity /\ q.moved = p.moved
  BY <1>1, <1>4, <1>5, <1>6 DEF Pools
<1>8. IsPool(q)
  BY <1>1, <1>6, <1>7, PoolFields DEF IsPool
<1>9. Tracked(q)
  BY <1>3, <1>6, <1>7 DEF Tracked
<1>10. Sized(q)
  BY <1>7 DEF Sound, Sized
<1> QED
  BY <1>8, <1>9, <1>10 DEF Sound, q

\* Whatever comes of the search or the attempt to connect.
LEMMA GetOrOpenSound ==
    ASSUME NEW p, Sound(p), NEW hop \in Hops, NEW o \in GetOrOpen(p, hop)
    PROVE  /\ Sound(o.pool) /\ Keeps(p, o.pool)
           /\ o.slot \in 0..Len(o.pool.table)
<1>1. p \in Pools
  BY DEF Sound, IsPool
<1>2. Keeps(p, p)
  BY <1>1, PoolFields, KeepsSelf
<1>3. CASE \E i \in FindConnection(p.table, hop) : o = [pool |-> p, slot |-> i]
  BY <1>1, <1>2, <1>3, PoolFields DEF FindConnection
<1>4. CASE o = [pool |-> p, slot |-> 0]
  BY <1>1, <1>2, <1>4, PoolFields
<1>5. CASE \E g \in Grown(p) : o = [pool |-> Abandoned(g), slot |-> 0]
  <2>1. PICK g \in Grown(p) : o = [pool |-> g, slot |-> 0]
    BY <1>5 DEF Abandoned
  <2>2. Sound(g) /\ Keeps(p, g)
    BY <2>1, GrownSound
  <2>3. Len(g.table) \in Nat
    BY <2>2, PoolFields DEF Sound, IsPool
  <2> QED
    BY <2>1, <2>2, <2>3
<1>6. CASE \E g \in Grown(p) :
              /\ CanConnect(g)
              /\ o = [pool |-> Connected(g, hop), slot |-> Len(g.table) + 1]
  <2>1. PICK g \in Grown(p) :
              /\ CanConnect(g)
              /\ o = [pool |-> Connected(g, hop), slot |-> Len(g.table) + 1]
    BY <1>6
  <2> DEFINE q == Connected(g, hop)
  <2>2. Sound(g) /\ Keeps(p, g) /\ Len(g.table) < g.capacity
    BY <2>1, GrownSound
  <2>3. Sound(q) /\ Keeps(g, q) /\ Len(q.table) = Len(g.table) + 1
    BY <2>1, <2>2, ConnectedSound
  <2> HIDE DEF q
  <2>4. g \in Pools /\ q \in Pools
    BY <2>2, <2>3 DEF Sound, IsPool
  <2>5. Keeps(p, q)
    BY <1>1, <2>2, <2>3, <2>4, KeepsOn
  <2>6. Len(g.table) + 1 \in 0..Len(q.table)
    BY <2>3, <2>4, PoolFields
  <2> QED
    BY <2>1, <2>3, <2>5, <2>6 DEF q
<1> QED
  BY <1>3, <1>4, <1>5, <1>6 DEF GetOrOpen

----------------------------------------------------------------------------
(* The inductive invariant                                                 *)

\* While a turn is under way.
InTurn == turn \in {"command", "accept", "serve", "frames"}

\* Entry by entry, the table still holds what poll() was asked about.
Current(p, log) ==
    \A i \in DOMAIN log :
        /\ i \in DOMAIN p.table
        /\ IsOpen(p.table[i]) => p.open[p.table[i].fd] = log[i]

PoolInv ==
    /\ Sound(pool)
    /\ turn \in Turns
    /\ polled \in Seq(1..MaxConns)
    /\ turn \in {"top", "done"} \/ at \in 1..(Len(polled) + 1)
    /\ turn = "frames" => at <= Len(polled)
    /\ InTurn => Current(pool, polled)
    /\ turn = "undefined" => pool.capacity > 4

LEMMA StaysCurrent ==
    ASSUME NEW p \in Pools, NEW q \in Pools, NEW log,
           Keeps(p, q), Current(p, log)
    PROVE  Current(q, log)
<1>1. DOMAIN p.table \subseteq DOMAIN q.table
  BY PoolFields DEF Keeps
<1> QED
  BY <1>1 DEF Keeps, Current

\* Anything that happens to the pool within a turn.
LEMMA WithinTurn ==
    ASSUME PoolInv, InTurn, Sound(pool'), Keeps(pool, pool'),
           polled' = polled,
           at' \in 1..(Len(polled) + 1),
           turn' \in {"accept", "serve", "frames"},
           turn' = "frames" => at' <= Len(polled)
    PROVE  PoolInv'
<1>1. pool \in Pools /\ pool' \in Pools
  BY DEF PoolInv, Sound, IsPool
<1>2. Current(pool, polled)
  BY DEF PoolInv
<1>3. Current(pool', polled)
  BY <1>1, <1>2, StaysCurrent
<1>4. Current(pool, polled)' /\ Sound(pool)'
  BY <1>3 DEF Current, Sound, IsPool, Tracked, Sized
<1> QED
  BY <1>4 DEF PoolInv, Turns

LEMMA PollStep ==
    ASSUME PoolInv, Poll
    PROVE  PoolInv'
<1> DEFINE c == Compacted(pool)
           p == [c EXCEPT !.moved = FALSE]
<1>1. Sound(c) /\ \A i \in DOMAIN c.table : IsOpen(c.table[i])
  BY CompactedSound DEF PoolInv
<1>2. c \in Pools
  BY <1>1 DEF Sound, IsPool
<1>3. p \in Pools /\ p.table = c.table /\ p.open = c.open
      /\ p.capacity = c.capacity /\ p.moved = FALSE
  <2> HIDE DEF c
  <2> QED BY <1>2 DEF Pools
<1>4. pool' = p
      /\ polled' = [i \in DOMAIN p.table |-> p.open[p.table[i].fd]]
      /\ turn' \in {"top", "command"} /\ at' = 1
  BY DEF Poll
<1> HIDE DEF c, p
<1>5. Sound(p)
  BY <1>1, <1>2, <1>3 DEF Sound, IsPool, Tracked, Sized
<1>6. polled' \in Seq(1..MaxConns) /\ DOMAIN polled' = DOMAIN p.table
      /\ Len(polled') \in Nat
  <2>1. ASSUME NEW i \in DOMAIN p.table
        PROVE  p.open[p.table[i].fd] \in 1..MaxConns
    <3>1. p.table[i].fd \in DOMAIN p.open
      BY <1>1, <1>3, <1>5 DEF Sound, Tracked, IsOpen
    <3> QED
      BY <1>3, <3>1, PoolFields
  <2>2. DOMAIN p.table = 1..Len(p.table) /\ Len(p.table) \in Nat
    BY <1>3, PoolFields
  <2> QED
    BY <1>4, <2>1, <2>2, IsASeq
<1>7. Current(p, polled')
  BY <1>4, <1>6 DEF Current
<1>8. Current(pool, polled)' /\ Sound(pool)'
  BY <1>4, <1>5, <1>7 DEF Current, Sound, IsPool, Tracked, Sized
<1> QED
  BY <1>4, <1>6, <1>8 DEF PoolInv, Turns

\* The array changes hands between two turns.
LEMMA BetweenTurns ==
    ASSUME Sound(pool'), polled' = <<>>, turn' \in {"top", "done"}
    PROVE  PoolInv'
<1>1. <<>> \in Seq(1..MaxConns)
  BY EmptySeq
<1>2. Sound(pool)'
  BY DEF Sound, IsPool, Tracked, Sized
<1> QED
  BY <1>1, <1>2 DEF PoolInv, InTurn, Turns

LEMMA CommandStep ==
    ASSUME PoolInv, NEW hop \in Hops, Command(hop)
    PROVE  PoolInv'
<1>1. PICK o \in GetOrOpen(pool, hop) :
          \/ pool' = o.pool
          \/ o.slot # 0 /\ pool' = Closed(o.pool, o.slot)
  BY DEF Command
<1>2. Sound(o.pool) /\ Keeps(pool, o.pool) /\ o.slot \in 0..Len(o.pool.table)
  BY <1>1, GetOrOpenSound DEF PoolInv
<1>3. pool \in Pools /\ o.pool \in Pools
  BY <1>2 DEF PoolInv, Sound, IsPool
<1>4. Sound(pool') /\ Keeps(pool, pool')
  <2>1. CASE pool' = o.pool
    BY <1>2, <2>1
  <2>2. CASE o.slot # 0 /\ pool' = Closed(o.pool, o.slot)
    <3>1. o.slot \in DOMAIN o.pool.table
      BY <1>2, <1>3, <2>2, PoolFields
    <3>2. Sound(pool') /\ Keeps(o.pool, pool')
      BY <1>2, <2>2, <3>1, ClosedSound
    <3>3. pool' \in Pools
      BY <3>2 DEF Sound, IsPool
    <3> QED
      BY <1>2, <1>3, <3>2, <3>3, KeepsOn
  <2> QED
    BY <1>1, <2>1, <2>2
<1> QED
  BY <1>4, WithinTurn DEF Command, PoolInv, InTurn

LEMMA AcceptStep ==
    ASSUME PoolInv, Accept
    PROVE  PoolInv'
<1>1. pool \in Pools /\ Sound(pool)
  BY DEF PoolInv, Sound, IsPool
<1>2. Sound(pool') /\ Keeps(pool, pool')
  <2>1. ASSUME NEW g \in Grown(pool), pool' = Connected(g, NoLabel)
        PROVE  Sound(pool') /\ Keeps(pool, pool')
    <3>1. Sound(g) /\ Keeps(pool, g) /\ Len(g.table) < g.capacity
      BY <1>1, GrownSound
    <3>2. CanConnect(g)
      BY <1>1 DEF Accept, CanConnect, Grown, FreeFds, Pools
    <3>3. Sound(pool') /\ Keeps(g, pool')
      BY <2>1, <3>1, <3>2, ConnectedSound
    <3>4. g \in Pools /\ pool' \in Pools
      BY <3>1, <3>3 DEF Sound, IsPool
    <3> QED
      BY <1>1, <3>1, <3>3, <3>4, KeepsOn
  <2>2. ASSUME pool' = [pool EXCEPT !.made = @ + 1]
        PROVE  Sound(pool') /\ Keeps(pool, pool')
    <3>1. pool.made + 1 \in 0..MaxConns
      BY <1>1, PoolFields, PoolAssumption DEF Accept, CanConnect
    <3>2. /\ pool' \in Pools
          /\ pool'.table = pool.table /\ pool'.open = pool.open
          /\ pool'.capacity = pool.capacity /\ pool'.moved = pool.moved
      BY <1>1, <2>2, <3>1 DEF Pools
    <3> QED
      BY <1>1, <3>2, PoolFields DEF Sound, IsPool, Tracked, Sized, Keeps
  <2> QED
    BY <2>1, <2>2 DEF Accept
<1> QED
  BY <1>2, WithinTurn DEF Accept, PoolInv, InTurn

LEMMA CloseServedStep ==
    ASSUME PoolInv, CloseServed
    PROVE  PoolInv'
<1>1. at \in DOMAIN polled /\ at \in 1..Len(polled) /\ InTurn
      /\ Len(polled) \in Nat
  BY DEF CloseServed, PoolInv, InTurn
<1>2. at \in DOMAIN pool.table
  BY <1>1 DEF PoolInv, Current
<1>3. Sound(pool') /\ Keeps(pool, pool')
  BY <1>2, ClosedSound DEF CloseServed, PoolInv
<1> QED
  BY <1>1, <1>3, WithinTurn DEF CloseServed

LEMMA ForwardStep ==
    ASSUME PoolInv, NEW hop \in Hops, Forward(hop)
    PROVE  PoolInv'
<1>1. Sound(pool') /\ Keeps(pool, pool')
  BY GetOrOpenSound DEF Forward, PoolInv
<1> QED
  BY <1>1, WithinTurn DEF Forward, PoolInv, InTurn

\* The steps of the loop that leave the table alone.
LEMMA LoopStep ==
    ASSUME PoolInv,
           NoCommand \/ Accepted \/ NothingToDo \/ ReceiveFrames \/ ReceivedFrames
    PROVE  PoolInv'
<1>1. InTurn /\ pool' = pool /\ polled' = polled
  BY DEF NoCommand, Accepted, NothingToDo, ReceiveFrames, ReceivedFrames, InTurn
<1>2. Len(polled) \in Nat /\ at \in 1..(Len(polled) + 1)
  BY <1>1 DEF PoolInv, InTurn
<1>3. Sound(pool') /\ Keeps(pool, pool')
  <2>1. pool \in Pools /\ Sound(pool)
    BY DEF PoolInv, Sound, IsPool
  <2> QED
    BY <1>1, <2>1, PoolFields, KeepsSelf
<1>4. /\ at' \in 1..(Len(polled) + 1)
      /\ turn' \in {"accept", "serve", "frames"}
      /\ turn' = "frames" => at' <= Len(polled)
  BY <1>2 DEF NoCommand, Accepted, NothingToDo, ReceiveFrames, ReceivedFrames, PoolInv
<1> QED
  BY <1>1, <1>3, <1>4, WithinTurn

LEMMA PoolInvInit == Init => PoolInv
<1> SUFFICES ASSUME Init PROVE PoolInv
  OBVIOUS
<1>1. <<>> \in Seq(Entry) /\ Len(<<>>) = 0 /\ DOMAIN <<>> = {}
      /\ <<>> \in Seq(1..MaxConns)
  BY EmptySeq
<1>2. <<>> \in Opens
  <2>1. {} \in SUBSET Fds /\ <<>> \in [{} -> 1..MaxConns]
    BY <1>1
  <2> QED
    BY <2>1, MakeOpens
<1>3. pool \in Pools
  BY <1>1, <1>2, PoolAssumption DEF Init, EmptyPool, Pools
<1>4. Sound(pool)
  BY <1>1, <1>3 DEF Init, EmptyPool, Sound, IsPool, Tracked, Sized
<1> QED
  BY <1>1, <1>4 DEF Init, PoolInv, InTurn, Turns

LEMMA PoolInvNext == PoolInv /\ [Next]_vars => PoolInv'
<1> SUFFICES ASSUME PoolInv, [Next]_vars PROVE PoolInv'
  OBVIOUS
<1>1. CASE Poll
  BY <1>1, PollStep
<1>2. CASE Leave
  BY <1>2, AllClosedSound, BetweenTurns DEF Leave, PoolInv
<1>3. CASE NoCommand \/ Accepted \/ NothingToDo \/ ReceiveFrames \/ ReceivedFrames
  BY <1>3, LoopStep
<1>4. CASE \E hop \in Hops : Command(hop)
  BY <1>4, CommandStep
<1>5. CASE Accept
  BY <1>5, AcceptStep
<1>6. CASE CloseServed
  BY <1>6, CloseServedStep
<1>7. CASE \E hop \in Hops : Forward(hop)
  BY <1>7, ForwardStep
<1>8. CASE UseFreedEntry
  <2>1. pool' = pool /\ polled' = polled /\ at' = at /\ turn' = "undefined"
        /\ pool.moved /\ turn \in {"serve", "frames"}
    BY <1>8 DEF UseFreedEntry
  <2>2. pool.capacity > 4
    BY <2>1 DEF PoolInv, Sound, Sized
  <2>3. Sound(pool)'
    BY <2>1 DEF PoolInv, Sound, IsPool, Tracked, Sized
  <2> QED
    BY <2>1, <2>2, <2>3 DEF PoolInv, InTurn, Turns
<1>9. CASE EndTurn
  BY <1>9, CompactedSound, BetweenTurns DEF EndTurn, PoolInv
<1>10. CASE UNCHANGED vars
  BY <1>10 DEF vars, PoolInv, Sound, IsPool, Tracked, Sized, InTurn, Current
<1> QED
  BY <1>1, <1>2, <1>3, <1>4, <1>5, <1>6, <1>7, <1>8, <1>9, <1>10 DEF Next

LEMMA PoolInvAlways == Spec => []PoolInv
<1>1. Init => PoolInv
  BY PoolInvInit
<1>2. PoolInv /\ [Next]_vars => PoolInv'
  BY PoolInvNext
<1> QED
  BY <1>1, <1>2, PTL DEF Spec

----------------------------------------------------------------------------
(* Theorems                                                                *)

\* The table never holds more entries than the array has room for, and the
\* index of the loop stays within conn_map.
THEOREM PoolTypeCorrect == Spec => []PoolTypeOK
<1>1. PoolInv => PoolTypeOK
  BY DEF PoolInv, PoolTypeOK, Sound, IsPool
<1> QED
  BY <1>1, PoolInvAlways, PTL

\* No path through open, failure, accept, close and compaction loses a
\* descriptor or enters it twice.
THEOREM DescriptorsAreTracked == Spec => []FdsTracked
<1>1. PoolInv => FdsTracked
  BY DEF PoolInv, FdsTracked, Sound, Tracked
<1> QED
  BY <1>1, PoolInvAlways, PTL

\* The loop that serves events never takes one connection for another.
THEOREM EventsAreForTheirConnection == Spec => []EventsReachTheirConnection
<1>1. PoolInv => EventsReachTheirConnection
  BY DEF PoolInv, EventsReachTheirConnection, InTurn, Current
<1> QED
  BY <1>1, PoolInvAlways, PTL

\* Without a fifth entry the array is never moved under a pointer.
THEOREM FourAreSafe == Spec => []FourConnectionsAreSafe
<1>1. PoolInv => FourConnectionsAreSafe
  BY DEF PoolInv, FourConnectionsAreSafe
<1> QED
  BY <1>1, PoolInvAlways, PTL

=============================================================================

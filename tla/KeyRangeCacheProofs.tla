------------------------ MODULE KeyRangeCacheProofs ------------------------
(***************************************************************************)
(* What the range cache keeps, for every key space, every set of groups    *)
(* and every sequence of updates: the cached ranges are disjoint and the   *)
(* groups counted, so the cache is a map from keys to routes.              *)
(***************************************************************************)
EXTENDS KeyRangeCache, FiniteSetTheorems, TLAPS

NewRange == [start : 0..MaxKey, limit : 0..MaxKey, group : Groups, gen : Nat]

\* The inductive invariant.  Disjointness needs ranges with keys, and the counts
\* need disjointness: a remainder must not be a range that is there already.
IInv == KeyRangeTypeOK /\ RangesAreDisjoint /\ GroupsAreCounted

-----------------------------------------------------------------------------
(* Replacing ranges *)

\* The overlapped range that sticks out on the left, if any, is the only one.
LEMMA LeftIsOne ==
  ASSUME IInv, NEW n \in NewRange, n.start < n.limit,
         NEW x \in LeftOf(n), NEW y \in LeftOf(n)
  PROVE  x = y
<1>1. PICK o \in Overlapping(n) : o.start < n.start /\ x = [o EXCEPT !.limit = n.start]
  BY DEF LeftOf
<1>2. PICK p \in Overlapping(n) : p.start < n.start /\ y = [p EXCEPT !.limit = n.start]
  BY DEF LeftOf
<1>3. o \in ranges /\ p \in ranges /\ o.limit > n.start /\ p.limit > n.start
  BY DEF Overlapping
<1>4. o \in CachedRange /\ p \in CachedRange
  BY <1>3 DEF IInv, KeyRangeTypeOK
<1>5. o = p
  BY <1>1, <1>2, <1>3, <1>4 DEF IInv, RangesAreDisjoint, CachedRange, NewRange
<1> QED BY <1>1, <1>2, <1>5

LEMMA RightIsOne ==
  ASSUME IInv, NEW n \in NewRange, n.start < n.limit,
         NEW x \in RightOf(n), NEW y \in RightOf(n)
  PROVE  x = y
<1>1. PICK o \in Overlapping(n) : o.limit > n.limit /\ x = [o EXCEPT !.start = n.limit]
  BY DEF RightOf
<1>2. PICK p \in Overlapping(n) : p.limit > n.limit /\ y = [p EXCEPT !.start = n.limit]
  BY DEF RightOf
<1>3. o \in ranges /\ p \in ranges /\ o.start < n.limit /\ p.start < n.limit
  BY DEF Overlapping
<1>4. o \in CachedRange /\ p \in CachedRange
  BY <1>3 DEF IInv, KeyRangeTypeOK
<1>5. o = p
  BY <1>1, <1>2, <1>3, <1>4 DEF IInv, RangesAreDisjoint, CachedRange, NewRange
<1> QED BY <1>1, <1>2, <1>5

\* A set in which any two elements are equal is finite.
LEMMA AtMostOneIsFinite ==
  ASSUME NEW S, \A x, y \in S : x = y
  PROVE  IsFiniteSet(S)
<1>1. CASE S = {}
  BY <1>1, FS_EmptySet
<1>2. CASE S # {}
  <2>1. PICK x : x \in S
    BY <1>2
  <2>2. S = {x}
    BY <2>1
  <2> QED BY <2>2, FS_Singleton
<1> QED BY <1>1, <1>2

\* What an update's range puts in: ranges with keys, inside what the overlapped
\* ones and the new one cover, and none of them cached before.
LEMMA LeftShape ==
  ASSUME IInv, NEW n \in NewRange, n.start < n.limit, NEW x \in LeftOf(n)
  PROVE  /\ x \in CachedRange
         /\ x.start < x.limit /\ x.limit = n.start
         /\ \E o \in Overlapping(n) :
              /\ x.start = o.start /\ x.limit < o.limit
              /\ x.group = o.group /\ x.gen = o.gen /\ x.db = o.db
<1>1. PICK o \in Overlapping(n) : o.start < n.start /\ x = [o EXCEPT !.limit = n.start]
  BY DEF LeftOf
<1>2. o \in ranges /\ o.limit > n.start
  BY DEF Overlapping
<1>3. o \in CachedRange
  BY <1>2 DEF IInv, KeyRangeTypeOK
<1> QED BY <1>1, <1>2, <1>3 DEF CachedRange, NewRange

LEMMA RightShape ==
  ASSUME IInv, NEW n \in NewRange, n.start < n.limit, NEW x \in RightOf(n)
  PROVE  /\ x \in CachedRange
         /\ x.start < x.limit /\ x.start = n.limit
         /\ \E o \in Overlapping(n) :
              /\ x.limit = o.limit /\ o.start < x.start
              /\ x.group = o.group /\ x.gen = o.gen /\ x.db = o.db
<1>1. PICK o \in Overlapping(n) : o.limit > n.limit /\ x = [o EXCEPT !.start = n.limit]
  BY DEF RightOf
<1>2. o \in ranges /\ o.start < n.limit
  BY DEF Overlapping
<1>3. o \in CachedRange
  BY <1>2 DEF IInv, KeyRangeTypeOK
<1> QED BY <1>1, <1>2, <1>3 DEF CachedRange, NewRange

LEMMA CachedShape ==
  ASSUME IInv, NEW n \in NewRange
  PROVE  /\ Cached(n) \in CachedRange
         /\ Cached(n).start = n.start /\ Cached(n).limit = n.limit
         /\ Cached(n).gen = n.gen /\ Cached(n).db = label
BY DEF Cached, CachedRange, NewRange, KnownGroup, IInv, KeyRangeTypeOK

LEMMA InsertedIsFinite ==
  ASSUME IInv, NEW n \in NewRange, n.start < n.limit
  PROVE  IsFiniteSet(Inserted(n)) /\ Inserted(n) \in SUBSET CachedRange
<1>1. IsFiniteSet(LeftOf(n)) /\ IsFiniteSet(RightOf(n))
  BY LeftIsOne, RightIsOne, AtMostOneIsFinite
<1>2. IsFiniteSet({Cached(n)})
  BY FS_Singleton
<1>3. IsFiniteSet(LeftOf(n) \union {Cached(n)})
  BY <1>1, <1>2, FS_Union
<1>4. IsFiniteSet(Inserted(n))
  BY <1>1, <1>3, FS_Union DEF Inserted
<1> QED BY <1>4, LeftShape, RightShape, CachedShape DEF Inserted

\* A range that stays is apart from the new one and from both remainders.
LEMMA StaysApart ==
  ASSUME IInv, NEW n \in NewRange, n.start < n.limit,
         NEW r \in ranges \ Overlapping(n), NEW x \in Inserted(n)
  PROVE  /\ r.limit =< x.start \/ x.limit =< r.start
         /\ x.start < x.limit
<1> r \in CachedRange
  BY DEF IInv, KeyRangeTypeOK
<1>1. r.limit =< n.start \/ n.limit =< r.start
  BY DEF Overlapping, CachedRange, NewRange
<1>2. CASE x \in LeftOf(n)
  <2>1. PICK o \in Overlapping(n) : x.start = o.start /\ x.limit < o.limit
    BY <1>2, LeftShape
  <2>2. o \in ranges /\ o # r
    BY DEF Overlapping
  <2>3. o \in CachedRange
    BY <2>2 DEF IInv, KeyRangeTypeOK
  <2>4. o.limit =< r.start \/ r.limit =< o.start
    BY <2>2 DEF IInv, RangesAreDisjoint
  <2> QED BY <1>2, <2>1, <2>3, <2>4, LeftShape DEF CachedRange
<1>3. CASE x \in RightOf(n)
  <2>1. PICK o \in Overlapping(n) : x.limit = o.limit /\ o.start < x.start
    BY <1>3, RightShape
  <2>2. o \in ranges /\ o # r
    BY DEF Overlapping
  <2>3. o \in CachedRange
    BY <2>2 DEF IInv, KeyRangeTypeOK
  <2>4. o.limit =< r.start \/ r.limit =< o.start
    BY <2>2 DEF IInv, RangesAreDisjoint
  <2> QED BY <1>3, <2>1, <2>3, <2>4, RightShape DEF CachedRange
<1>4. CASE x = Cached(n)
  BY <1>1, <1>4, CachedShape
<1> QED BY <1>2, <1>3, <1>4 DEF Inserted

LEMMA InsertedApart ==
  ASSUME IInv, NEW n \in NewRange, n.start < n.limit,
         NEW x \in Inserted(n), NEW y \in Inserted(n), x # y
  PROVE  x.limit =< y.start \/ y.limit =< x.start
<1> n.start \in Int /\ n.limit \in Int
  BY DEF NewRange
<1>1. \A z \in LeftOf(n) : z.limit = n.start
  BY LeftShape
<1>2. \A z \in RightOf(n) : z.start = n.limit
  BY RightShape
<1>3. Cached(n).start = n.start /\ Cached(n).limit = n.limit
  BY CachedShape
<1>4. ~(x \in LeftOf(n) /\ y \in LeftOf(n)) /\ ~(x \in RightOf(n) /\ y \in RightOf(n))
  BY LeftIsOne, RightIsOne
<1> QED BY <1>1, <1>2, <1>3, <1>4 DEF Inserted

-----------------------------------------------------------------------------
(* Counting *)

LEMMA OfGroupIsFinite ==
  ASSUME NEW S, IsFiniteSet(S), NEW g
  PROVE  IsFiniteSet(OfGroup(S, g)) /\ Cardinality(OfGroup(S, g)) \in Nat
<1>1. OfGroup(S, g) \in SUBSET S
  BY DEF OfGroup
<1> QED BY <1>1, FS_Subset, FS_CardinalityType

LEMMA CountWithout ==
  ASSUME NEW S, IsFiniteSet(S), NEW T \in SUBSET S, NEW g
  PROVE  Cardinality(OfGroup(S \ T, g)) =
           Cardinality(OfGroup(S, g)) - Cardinality(OfGroup(T, g))
<1>1. OfGroup(S \ T, g) = OfGroup(S, g) \ OfGroup(T, g)
  BY DEF OfGroup
<1>2. OfGroup(S, g) \intersect OfGroup(T, g) = OfGroup(T, g)
  BY DEF OfGroup
<1>3. Cardinality(OfGroup(S, g) \ OfGroup(T, g)) =
        Cardinality(OfGroup(S, g)) - Cardinality(OfGroup(S, g) \intersect OfGroup(T, g))
  BY OfGroupIsFinite, FS_Difference
<1> QED BY <1>1, <1>2, <1>3

LEMMA CountWith ==
  ASSUME NEW S, IsFiniteSet(S), NEW T, IsFiniteSet(T), S \intersect T = {}, NEW g
  PROVE  Cardinality(OfGroup(S \union T, g)) =
           Cardinality(OfGroup(S, g)) + Cardinality(OfGroup(T, g))
<1>1. OfGroup(S \union T, g) = OfGroup(S, g) \union OfGroup(T, g)
  BY DEF OfGroup
<1>2. OfGroup(S, g) \intersect OfGroup(T, g) = {}
  BY DEF OfGroup
<1>3. Cardinality(OfGroup(S, g) \union OfGroup(T, g)) =
        Cardinality(OfGroup(S, g)) + Cardinality(OfGroup(T, g))
          - Cardinality(OfGroup(S, g) \intersect OfGroup(T, g))
  BY OfGroupIsFinite, FS_Union
<1>4. Cardinality(OfGroup(S, g)) \in Nat /\ Cardinality(OfGroup(T, g)) \in Nat
  BY OfGroupIsFinite
<1>5. Cardinality(OfGroup(S, g) \intersect OfGroup(T, g)) = 0
  BY <1>2, FS_EmptySet
<1>6. Cardinality(OfGroup(S, g) \union OfGroup(T, g)) =
        Cardinality(OfGroup(S, g)) + Cardinality(OfGroup(T, g))
  BY <1>3, <1>4, <1>5
<1> QED BY <1>1, <1>6

\* A range of an update that is not stale keeps the invariant.
LEMMA ReplaceKeeps ==
  ASSUME IInv, NEW n \in NewRange, n.start < n.limit
  PROVE  LET R == (ranges \ Overlapping(n)) \union Inserted(n)
             C == Recounted(Overlapping(n), Inserted(n))
         IN /\ R \in SUBSET CachedRange
            /\ IsFiniteSet(R)
            /\ \A r \in R : r.start < r.limit
            /\ \A r, s \in R : r # s => r.limit =< s.start \/ s.limit =< r.start
            /\ \A g \in Groups :
                 C[g] = refs[g] - Cardinality(OfGroup(ranges, g)) + Cardinality(OfGroup(R, g))
<1> DEFINE Stay == ranges \ Overlapping(n)
<1> DEFINE Come == Inserted(n)
<1>1. Overlapping(n) \in SUBSET ranges /\ Stay \in SUBSET ranges
  BY DEF Overlapping
<1>2. IsFiniteSet(ranges) /\ ranges \in SUBSET CachedRange
  BY DEF IInv, KeyRangeTypeOK
<1>3. IsFiniteSet(Stay) /\ IsFiniteSet(Overlapping(n))
  BY <1>1, <1>2, FS_Subset
<1>4. IsFiniteSet(Come) /\ Come \in SUBSET CachedRange
  BY InsertedIsFinite
<1>5. IsFiniteSet(Stay \union Come)
  BY <1>3, <1>4, FS_Union
<1>6. Stay \union Come \in SUBSET CachedRange
  BY <1>1, <1>2, <1>4
<1>7. ASSUME NEW x \in Come
      PROVE  x.start < x.limit
  <2>1. CASE x \in LeftOf(n)
    BY <2>1, LeftShape
  <2>2. CASE x \in RightOf(n)
    BY <2>2, RightShape
  <2>3. CASE x = Cached(n)
    BY <2>3, CachedShape
  <2> QED BY <2>1, <2>2, <2>3 DEF Inserted
<1>8. \A r \in Stay \union Come : r.start < r.limit
  BY <1>1, <1>7 DEF IInv, KeyRangeTypeOK
<1>9. \A r, s \in Stay \union Come : r # s => r.limit =< s.start \/ s.limit =< r.start
  <2>1. \A r, s \in Stay : r # s => r.limit =< s.start \/ s.limit =< r.start
    BY <1>1 DEF IInv, RangesAreDisjoint
  <2>2. \A r \in Stay, s \in Come : r.limit =< s.start \/ s.limit =< r.start
    BY StaysApart
  <2>3. \A r, s \in Come : r # s => r.limit =< s.start \/ s.limit =< r.start
    BY InsertedApart
  <2> QED BY <2>1, <2>2, <2>3
<1>10. Stay \intersect Come = {}
  <2>1. SUFFICES ASSUME NEW x \in Stay, x \in Come PROVE FALSE
    OBVIOUS
  <2>2. x.limit =< x.start /\ x.start < x.limit
    BY <2>1, StaysApart
  <2>3. x \in CachedRange
    BY <1>1, <1>2
  <2> QED BY <2>2, <2>3 DEF CachedRange
<1>11. ASSUME NEW g \in Groups
       PROVE  Recounted(Overlapping(n), Come)[g] =
                refs[g] - Cardinality(OfGroup(ranges, g))
                  + Cardinality(OfGroup(Stay \union Come, g))
  <2>1. Cardinality(OfGroup(Stay, g)) =
          Cardinality(OfGroup(ranges, g)) - Cardinality(OfGroup(Overlapping(n), g))
    BY <1>1, <1>2, CountWithout
  <2>2. Cardinality(OfGroup(Stay \union Come, g)) =
          Cardinality(OfGroup(Stay, g)) + Cardinality(OfGroup(Come, g))
    BY <1>3, <1>4, <1>10, CountWith
  <2>3. /\ Cardinality(OfGroup(ranges, g)) \in Nat
        /\ Cardinality(OfGroup(Overlapping(n), g)) \in Nat
        /\ Cardinality(OfGroup(Come, g)) \in Nat
    BY <1>2, <1>3, <1>4, OfGroupIsFinite
  <2>4. refs[g] \in Nat
    BY DEF IInv, KeyRangeTypeOK
  <2>5. Recounted(Overlapping(n), Come)[g] =
          refs[g] + Cardinality(OfGroup(Come, g)) - Cardinality(OfGroup(Overlapping(n), g))
    BY DEF Recounted
  <2> HIDE DEF Stay, Come
  <2> QED BY <2>1, <2>2, <2>3, <2>4, <2>5
<1> QED BY <1>5, <1>6, <1>8, <1>9, <1>11

-----------------------------------------------------------------------------
(* The inductive invariant *)

LEMMA EmptyIsCounted ==
  ASSUME NEW g
  PROVE  Cardinality(OfGroup({}, g)) = 0
<1>1. OfGroup({}, g) = {}
  BY DEF OfGroup
<1> QED BY <1>1, FS_EmptySet

LEMMA IInvInit == KeyRangeInit => IInv
<1> SUFFICES ASSUME KeyRangeInit PROVE IInv
  OBVIOUS
<1>1. KeyRangeTypeOK
  <2>1. overtaken \in BOOLEAN
    BY Zenon DEF KeyRangeInit
  <2> QED BY <2>1, FS_EmptySet DEF KeyRangeInit, KeyRangeTypeOK, NoHint
<1>2. RangesAreDisjoint
  BY DEF KeyRangeInit, RangesAreDisjoint
<1>3. GroupsAreCounted
  BY EmptyIsCounted DEF KeyRangeInit, GroupsAreCounted, HeldNow
<1> QED BY <1>1, <1>2, <1>3 DEF IInv

\* The head of the list is a range with keys.
LEMMA HeadIsNew ==
  ASSUME IInv, todo # <<>>
  PROVE  /\ Head(todo) \in NewRange
         /\ Head(todo).start < Head(todo).limit
         /\ Tail(todo) \in Seq(NewRange)
         /\ \A i \in 1..Len(Tail(todo)) : Tail(todo)[i].start < Tail(todo)[i].limit
<1>1. todo \in Seq(NewRange) /\ \A i \in 1..Len(todo) : todo[i].start < todo[i].limit
  BY DEF IInv, KeyRangeTypeOK, NewRange
<1>2. Head(todo) = todo[1] /\ 1 \in 1..Len(todo)
  BY <1>1
<1>3. \A i \in 1..Len(Tail(todo)) : i + 1 \in 1..Len(todo) /\ Tail(todo)[i] = todo[i + 1]
  BY <1>1
<1> QED BY <1>1, <1>2, <1>3

LEMMA IInvNext == IInv /\ [KeyRangeNext]_vars => IInv'
<1> SUFFICES ASSUME IInv, [KeyRangeNext]_vars PROVE IInv'
  OBVIOUS
<1> USE DEF IInv, request
<1>1. ASSUME NEW u \in Updates, BeginUpdate(u) PROVE IInv'
  <2>1. /\ u.db \in Nat /\ u.groups \in SUBSET Groups
        /\ u.ranges \in Seq([start : 0..MaxKey, limit : 0..MaxKey, group : Groups, gen : Nat])
        /\ \A i \in 1..Len(u.ranges) : u.ranges[i].start < u.ranges[i].limit
    BY KeyRangeAssumption
  <2>2. KeyRangeTypeOK'
    BY <1>1, <2>1 DEF BeginUpdate, KeyRangeTypeOK, CachedRange
  <2>3. RangesAreDisjoint'
    BY <1>1 DEF BeginUpdate, RangesAreDisjoint
  <2>4. GroupsAreCounted'
    BY <1>1 DEF BeginUpdate, GroupsAreCounted, HeldNow
  <2> QED BY <2>2, <2>3, <2>4
<1>2. ASSUME ClearRanges, phase # "adding", phase' # "adding",
             <<label, held, todo>>' = <<label, held, todo>>,
             database' = database, request' = request,
             phase' \in {phase, "relabel"}
      PROVE  IInv'
  <2>1. KeyRangeTypeOK'
    BY <1>2, FS_EmptySet DEF ClearRanges, KeyRangeTypeOK, CachedRange
  <2>2. RangesAreDisjoint'
    BY <1>2 DEF ClearRanges, RangesAreDisjoint
  <2>3. GroupsAreCounted'
    BY <1>2, EmptyIsCounted DEF ClearRanges, GroupsAreCounted, HeldNow
  <2> QED BY <2>1, <2>2, <2>3
<1>3. CASE ClearForNewDatabase
  BY <1>2, <1>3 DEF ClearForNewDatabase
<1>4. CASE StoreLabel
  BY <1>4 DEF StoreLabel, KeyRangeTypeOK, CachedRange, RangesAreDisjoint,
              GroupsAreCounted, HeldNow, NoHint
<1>5. CASE HoldGroups
  <2>1. KeyRangeTypeOK'
    BY <1>5 DEF HoldGroups, KeyRangeTypeOK, CachedRange
  <2>2. RangesAreDisjoint'
    BY <1>5 DEF HoldGroups, RangesAreDisjoint
  <2>3. ASSUME NEW g \in Groups
        PROVE  refs'[g] = Cardinality(OfGroup(ranges', g)) + HeldNow(g)'
    <3>1. refs[g] = Cardinality(OfGroup(ranges, g)) + 0
      BY <1>5 DEF HoldGroups, GroupsAreCounted, HeldNow
    <3>2. refs'[g] = refs[g] + HeldNow(g)' /\ ranges' = ranges
      BY <1>5 DEF HoldGroups, HeldNow
    <3>3. Cardinality(OfGroup(ranges, g)) \in Nat
      BY OfGroupIsFinite DEF KeyRangeTypeOK
    <3> QED BY <3>1, <3>2, <3>3
  <2> QED BY <2>1, <2>2, <2>3 DEF GroupsAreCounted
<1>6. CASE ReplaceRangeIfNewer
  <2> DEFINE n == Head(todo)
  <2> DEFINE R == (ranges \ Overlapping(n)) \union Inserted(n)
  <2>1. /\ phase = "adding" /\ todo # <<>> /\ todo' = Tail(todo)
        /\ database' = database /\ phase' = phase /\ label' = label
        /\ held' = held /\ request' = request
    BY <1>6 DEF ReplaceRangeIfNewer
  <2>2. /\ n \in NewRange /\ n.start < n.limit
        /\ todo' \in Seq(NewRange)
        /\ \A i \in 1..Len(todo') : todo'[i].start < todo'[i].limit
    BY <2>1, HeadIsNew
  <2>3. CASE ranges' = ranges /\ refs' = refs
    <3>1. KeyRangeTypeOK'
      BY <2>1, <2>2, <2>3 DEF KeyRangeTypeOK, CachedRange, NewRange
    <3>2. RangesAreDisjoint' /\ GroupsAreCounted'
      BY <2>1, <2>3 DEF RangesAreDisjoint, GroupsAreCounted, HeldNow
    <3> QED BY <3>1, <3>2
  <2>4. CASE ranges' = R /\ refs' = Recounted(Overlapping(n), Inserted(n))
    <3>1. /\ ranges' \in SUBSET CachedRange
          /\ IsFiniteSet(ranges')
          /\ \A r \in ranges' : r.start < r.limit
          /\ \A r, s \in ranges' : r # s => r.limit =< s.start \/ s.limit =< r.start
          /\ \A g \in Groups : refs'[g] = refs[g] - Cardinality(OfGroup(ranges, g))
                                                  + Cardinality(OfGroup(ranges', g))
      BY <2>2, <2>4, ReplaceKeeps
    <3>2. ASSUME NEW g \in Groups
          PROVE  /\ refs'[g] = Cardinality(OfGroup(ranges', g)) + HeldNow(g)'
                 /\ refs'[g] \in Nat
      <4>1. refs[g] = Cardinality(OfGroup(ranges, g)) + HeldNow(g)
        BY DEF GroupsAreCounted
      <4>2. HeldNow(g)' = HeldNow(g) /\ HeldNow(g) \in Nat
        BY <2>1 DEF HeldNow
      <4>3. Cardinality(OfGroup(ranges, g)) \in Nat /\ Cardinality(OfGroup(ranges', g)) \in Nat
        BY <3>1, OfGroupIsFinite DEF KeyRangeTypeOK
      <4> QED BY <3>1, <4>1, <4>2, <4>3
    <3>3. refs' \in [Groups -> Nat]
      BY <2>4, <3>2 DEF Recounted
    <3>4. KeyRangeTypeOK'
      BY <2>1, <2>2, <3>1, <3>3 DEF KeyRangeTypeOK, CachedRange, NewRange
    <3>5. RangesAreDisjoint' /\ GroupsAreCounted'
      BY <3>1, <3>2 DEF RangesAreDisjoint, GroupsAreCounted
    <3> QED BY <3>4, <3>5
  <2> QED BY <1>6, <2>3, <2>4 DEF ReplaceRangeIfNewer
<1>7. CASE ReleaseGroups
  <2>1. ASSUME NEW g \in Groups
        PROVE  /\ refs'[g] = Cardinality(OfGroup(ranges', g)) + HeldNow(g)'
               /\ refs'[g] \in Nat
    <3>1. refs[g] = Cardinality(OfGroup(ranges, g)) + HeldNow(g)
      BY DEF GroupsAreCounted
    <3>2. refs'[g] = refs[g] - HeldNow(g) /\ ranges' = ranges /\ HeldNow(g)' = 0
      BY <1>7 DEF ReleaseGroups, HeldNow
    <3>3. Cardinality(OfGroup(ranges, g)) \in Nat /\ HeldNow(g) \in Nat
      BY OfGroupIsFinite DEF KeyRangeTypeOK, HeldNow
    <3> QED BY <3>1, <3>2, <3>3
  <2>2. refs' \in [Groups -> Nat]
    BY <1>7, <2>1 DEF ReleaseGroups
  <2>3. KeyRangeTypeOK'
    BY <1>7, <2>2 DEF ReleaseGroups, KeyRangeTypeOK, CachedRange
  <2>4. RangesAreDisjoint' /\ GroupsAreCounted'
    BY <1>7, <2>1 DEF ReleaseGroups, RangesAreDisjoint, GroupsAreCounted
  <2> QED BY <2>3, <2>4
<1>8. CASE ReadLabel \/ LookUp
  BY <1>8 DEF ReadLabel, LookUp, KeyRangeTypeOK, CachedRange, RangesAreDisjoint,
              GroupsAreCounted, HeldNow, NoHint
<1>9. ASSUME NEW S \in SUBSET ranges, ShrinkTo(S) PROVE IInv'
  <2>1. CASE ClearRanges
    BY <1>2, <1>9, <2>1 DEF ShrinkTo
  <2>2. CASE ranges' = ranges \ S /\ refs' = Recounted(S, {})
    <3>1. IsFiniteSet(ranges') /\ ranges' \in SUBSET ranges
      BY <2>2, FS_Subset DEF KeyRangeTypeOK
    <3>2. ASSUME NEW g \in Groups
          PROVE  /\ refs'[g] = Cardinality(OfGroup(ranges', g)) + HeldNow(g)'
                 /\ refs'[g] \in Nat
      <4>1. refs[g] = Cardinality(OfGroup(ranges, g)) /\ HeldNow(g)' = 0
        <5>1. HeldNow(g) = 0 /\ HeldNow(g)' = 0
          BY <1>9 DEF ShrinkTo, HeldNow
        <5>2. Cardinality(OfGroup(ranges, g)) \in Nat
          BY OfGroupIsFinite DEF KeyRangeTypeOK
        <5> QED BY <5>1, <5>2 DEF GroupsAreCounted
      <4>2. refs'[g] = refs[g] + Cardinality(OfGroup({}, g)) - Cardinality(OfGroup(S, g))
        BY <2>2 DEF Recounted
      <4>3. Cardinality(OfGroup(ranges', g)) =
              Cardinality(OfGroup(ranges, g)) - Cardinality(OfGroup(S, g))
        BY <2>2, CountWithout DEF KeyRangeTypeOK
      <4>4. IsFiniteSet(S)
        BY FS_Subset DEF KeyRangeTypeOK
      <4>5. /\ Cardinality(OfGroup(ranges, g)) \in Nat
            /\ Cardinality(OfGroup(ranges', g)) \in Nat
            /\ Cardinality(OfGroup(S, g)) \in Nat
        BY <3>1, <4>4, OfGroupIsFinite DEF KeyRangeTypeOK
      <4> QED BY <4>1, <4>2, <4>3, <4>5, EmptyIsCounted
    <3>3. refs' \in [Groups -> Nat]
      BY <2>2, <3>2 DEF Recounted
    <3>4. KeyRangeTypeOK'
      BY <1>9, <3>1, <3>3 DEF ShrinkTo, KeyRangeTypeOK, CachedRange
    <3>5. RangesAreDisjoint' /\ GroupsAreCounted'
      BY <3>1, <3>2 DEF RangesAreDisjoint, GroupsAreCounted
    <3> QED BY <3>4, <3>5
  <2> QED BY <1>9, <2>1, <2>2 DEF ShrinkTo
<1>10. CASE UNCHANGED vars
  BY <1>10 DEF vars, KeyRangeTypeOK, CachedRange, RangesAreDisjoint, GroupsAreCounted, HeldNow
<1> QED
  BY <1>1, <1>3, <1>4, <1>5, <1>6, <1>7, <1>8, <1>9, <1>10 DEF KeyRangeNext

LEMMA Invariance == KeyRangeSpec => []IInv
BY IInvInit, IInvNext, PTL DEF KeyRangeSpec

\* Type correctness of the range cache, for all updates a server may send.
THEOREM RangeTypeCorrect == KeyRangeSpec => []KeyRangeTypeOK
BY Invariance, PTL DEF IInv

\* However updates overlap, no key is in two cached ranges.
THEOREM DisjointRanges == KeyRangeSpec => []RangesAreDisjoint
BY Invariance, PTL DEF IInv

\* A group's reference count is the number of the ranges that route to it, and one
\* for the update that holds it.
THEOREM CountedGroups == KeyRangeSpec => []GroupsAreCounted
BY Invariance, PTL DEF IInv

-----------------------------------------------------------------------------
(* Labels *)

\* The inductive invariant behind FoundIsOfLabel: ranges are of the database
\* in the finder's label, and none is left when the label is about to change from
\* one database to another; what comes in has the label that is in force.
LabelInv ==
  /\ \A r \in ranges : r.db \in {0, database}
  /\ phase \in {"add", "adding"} => label = database
  /\ phase = "relabel" => \A r \in ranges : r.db = 0
  /\ hint # NoHint => hint = database \/ overtaken

LEMMA InsertedLabel ==
  ASSUME IInv, NEW n \in NewRange, n.start < n.limit, NEW x \in Inserted(n)
  PROVE  x.db = label \/ \E o \in ranges : x.db = o.db
<1>1. CASE x \in LeftOf(n)
  BY <1>1, LeftShape DEF Overlapping
<1>2. CASE x \in RightOf(n)
  BY <1>2, RightShape DEF Overlapping
<1>3. CASE x = Cached(n)
  BY <1>3, CachedShape
<1> QED BY <1>1, <1>2, <1>3 DEF Inserted

LEMMA LabelInvNext == IInv /\ LabelInv /\ [KeyRangeNext]_vars => LabelInv'
<1> SUFFICES ASSUME IInv, LabelInv, [KeyRangeNext]_vars PROVE LabelInv'
  OBVIOUS
<1> USE DEF request
<1>1. ASSUME NEW u \in Updates, BeginUpdate(u) PROVE LabelInv'
  BY <1>1 DEF BeginUpdate, LabelInv
<1>2. CASE ClearForNewDatabase
  BY <1>2 DEF ClearForNewDatabase, ClearRanges, LabelInv
<1>3. CASE StoreLabel
  BY <1>3 DEF StoreLabel, LabelInv
<1>4. CASE HoldGroups
  BY <1>4 DEF HoldGroups, LabelInv
<1>5. CASE ReplaceRangeIfNewer
  <2> DEFINE n == Head(todo)
  <2>1. /\ phase = "adding" /\ todo # <<>>
        /\ database' = database /\ phase' = phase /\ label' = label /\ request' = request
    BY <1>5 DEF ReplaceRangeIfNewer
  <2>2. \A r \in ranges' : r.db = label \/ \E o \in ranges : r.db = o.db
    <3>1. \A x \in Inserted(n) : x.db = label \/ \E o \in ranges : x.db = o.db
      BY <2>1, HeadIsNew, InsertedLabel
    <3> QED BY <1>5, <3>1 DEF ReplaceRangeIfNewer
  <2> QED BY <2>1, <2>2 DEF LabelInv
<1>6. CASE ReleaseGroups
  BY <1>6 DEF ReleaseGroups, LabelInv
<1>7. CASE ReadLabel \/ LookUp
  BY <1>7 DEF ReadLabel, LookUp, LabelInv
<1>8. ASSUME NEW S \in SUBSET ranges, ShrinkTo(S) PROVE LabelInv'
  BY <1>8 DEF ShrinkTo, ClearRanges, LabelInv
<1>9. CASE UNCHANGED vars
  BY <1>9 DEF vars, LabelInv
<1> QED
  BY <1>1, <1>2, <1>3, <1>4, <1>5, <1>6, <1>7, <1>8, <1>9 DEF KeyRangeNext

\* A request finds no range of a database the finder left before it read the label:
\* one that was not overtaken finds its own label's ranges, one that was the ranges
\* of the label that overtook it.
THEOREM FoundIsNeverOlder == KeyRangeSpec => []FoundIsOfLabel
<1>1. KeyRangeInit => LabelInv
  BY DEF KeyRangeInit, LabelInv
<1>2. LabelInv /\ KeyRangeTypeOK => FoundIsOfLabel
  BY DEF LabelInv, FoundIsOfLabel, KeyRangeTypeOK
<1> QED BY <1>1, <1>2, Invariance, RangeTypeCorrect, LabelInvNext, PTL DEF KeyRangeSpec

-----------------------------------------------------------------------------
(* The cache is a map *)

\* In disjoint ranges, the one that has a key is the only one to have it.
LEMMA OneCovers ==
  ASSUME NEW S \in SUBSET CachedRange,
         \A r, s \in S : r # s => r.limit =< s.start \/ s.limit =< r.start,
         NEW r \in S, NEW k \in Int, r.start =< k, k + 1 =< r.limit
  PROVE  {q \in S : q.start =< k /\ k + 1 =< q.limit} = {r}
BY DEF CachedRange

LEMMA RouteOfRange ==
  ASSUME IInv, NEW r \in ranges, NEW k \in Int, r.start =< k, k + 1 =< r.limit
  PROVE  RouteOf(k) = Route(r)
<1>1. Covering(k, k + 1) = {r}
  BY OneCovers DEF Covering, IInv, KeyRangeTypeOK, RangesAreDisjoint
<1> QED BY <1>1 DEF RouteOf

LEMMA RouteOfRangePrime ==
  ASSUME IInv', NEW r \in ranges', NEW k \in Int, r.start =< k, k + 1 =< r.limit
  PROVE  RouteOf(k)' = Route(r)
<1>1. Covering(k, k + 1)' = {r}
  BY OneCovers DEF Covering, IInv, KeyRangeTypeOK, RangesAreDisjoint
<1> QED BY <1>1 DEF RouteOf, Route

LEMMA Uncovered ==
  ASSUME NEW k, \A r \in ranges : ~(r.start =< k /\ k + 1 =< r.limit)
  PROVE  RouteOf(k) = NoRoute
BY DEF RouteOf, Covering

LEMMA UncoveredPrime ==
  ASSUME NEW k, \A r \in ranges' : ~(r.start =< k /\ k + 1 =< r.limit)
  PROVE  RouteOf(k)' = NoRoute
<1>1. Covering(k, k + 1)' = {}
  BY DEF Covering
<1> QED BY <1>1 DEF RouteOf, NoRoute

Keys == 0..(MaxKey - 1)

\* Dropping ranges forgets the routes of their keys.
LEMMA DroppingForgets ==
  ASSUME IInv, IInv', ranges' \in SUBSET ranges
  PROVE  Map!Forget
<1>1. ASSUME NEW k \in Keys
      PROVE  RouteOf(k)' = IF RouteOf(k)' = NoRoute THEN NoRoute ELSE RouteOf(k)
  <2>1. k \in Int
    BY KeyRangeAssumption DEF Keys
  <2>2. CASE \E r \in ranges' : r.start =< k /\ k + 1 =< r.limit
    <3>1. PICK r \in ranges' : r.start =< k /\ k + 1 =< r.limit
      BY <2>2
    <3> QED BY <2>1, <3>1, RouteOfRange, RouteOfRangePrime
  <2>3. CASE ~\E r \in ranges' : r.start =< k /\ k + 1 =< r.limit
    BY <2>3, UncoveredPrime
  <2> QED BY <2>2, <2>3
<1> QED BY <1>1 DEF Map!Forget, Map!Keys, Keys, NoRoute

LEMMA SameRanges ==
  ASSUME IInv, IInv', ranges' = ranges
  PROVE  Map!MapNext
BY DroppingForgets DEF Map!MapNext

\* A range of an update that is not stale is learnt for its keys and no others.
LEMMA ReplacingLearns ==
  ASSUME IInv, IInv', NEW n \in NewRange, n.start < n.limit, ~IsStale(n),
         ranges' = (ranges \ Overlapping(n)) \union Inserted(n)
  PROVE  Map!MapNext
<1> DEFINE c == Cached(n)
<1>1. /\ c \in ranges' /\ c \in CachedRange
      /\ c.start = n.start /\ c.limit = n.limit /\ c.gen = n.gen
  BY CachedShape DEF Inserted
<1>2. n.start \in 0..MaxKey /\ n.limit \in 0..MaxKey /\ MaxKey \in Nat
  BY KeyRangeAssumption DEF NewRange
<1>3. \A k \in n.start..(n.limit - 1) : RouteOf(k)' = Route(c)
  BY <1>1, <1>2, RouteOfRangePrime
<1>4. ASSUME NEW k \in Keys, k \notin n.start..(n.limit - 1)
      PROVE  RouteOf(k)' = RouteOf(k)
  <2>1. k \in Int /\ (k < n.start \/ k >= n.limit)
    BY <1>2, <1>4 DEF Keys
  <2>2. ASSUME NEW r \in ranges, r.start =< k, k + 1 =< r.limit
        PROVE  \E s \in ranges' : /\ s.start =< k /\ k + 1 =< s.limit
                                  /\ Route(s) = Route(r)
    <3>1. r \in CachedRange
      BY DEF IInv, KeyRangeTypeOK
    <3>2. CASE r \notin Overlapping(n)
      BY <2>2, <3>2
    <3>3. CASE r \in Overlapping(n) /\ k < n.start
      <4> DEFINE s == [r EXCEPT !.limit = n.start]
      <4>1. r.start < n.start
        BY <1>2, <2>1, <2>2, <3>1, <3>3 DEF CachedRange
      <4>2. s \in ranges'
        BY <3>3, <4>1 DEF LeftOf, Inserted
      <4>3. s.start = r.start /\ s.limit = n.start /\ Route(s) = Route(r)
        BY <3>1 DEF CachedRange, Route
      <4>4. s.start =< k /\ k + 1 =< s.limit
        BY <1>2, <2>1, <2>2, <3>3, <4>3
      <4> HIDE DEF s
      <4> QED BY <4>2, <4>3, <4>4
    <3>4. CASE r \in Overlapping(n) /\ k >= n.limit
      <4> DEFINE s == [r EXCEPT !.start = n.limit]
      <4>1. r.limit > n.limit
        BY <1>2, <2>1, <2>2, <3>1, <3>4 DEF CachedRange
      <4>2. s \in ranges'
        BY <3>4, <4>1 DEF RightOf, Inserted
      <4>3. s.start = n.limit /\ s.limit = r.limit /\ Route(s) = Route(r)
        BY <3>1 DEF CachedRange, Route
      <4>4. s.start =< k /\ k + 1 =< s.limit
        BY <1>2, <2>1, <2>2, <3>4, <4>3
      <4> HIDE DEF s
      <4> QED BY <4>2, <4>3, <4>4
    <3> QED BY <2>1, <3>2, <3>3, <3>4
  <2>3. CASE \E r \in ranges : r.start =< k /\ k + 1 =< r.limit
    <3>1. PICK r \in ranges : r.start =< k /\ k + 1 =< r.limit
      BY <2>3
    <3>2. PICK s \in ranges' : s.start =< k /\ k + 1 =< s.limit /\ Route(s) = Route(r)
      BY <2>2, <3>1
    <3> QED BY <2>1, <3>1, <3>2, RouteOfRange, RouteOfRangePrime
  <2>4. CASE ~\E r \in ranges : r.start =< k /\ k + 1 =< r.limit
    <3>1. ASSUME NEW s \in ranges', s.start =< k, k + 1 =< s.limit
          PROVE  FALSE
      <4>1. CASE s \in LeftOf(n)
        <5>1. PICK o \in Overlapping(n) : s.start = o.start /\ s.limit < o.limit
          BY <4>1, LeftShape
        <5>2. o \in ranges /\ o \in CachedRange /\ s \in CachedRange
          BY <4>1, LeftShape DEF Overlapping, IInv, KeyRangeTypeOK
        <5> QED BY <2>1, <2>4, <3>1, <5>1, <5>2 DEF CachedRange
      <4>2. CASE s \in RightOf(n)
        <5>1. PICK o \in Overlapping(n) : s.limit = o.limit /\ o.start < s.start
          BY <4>2, RightShape
        <5>2. o \in ranges /\ o \in CachedRange /\ s \in CachedRange
          BY <4>2, RightShape DEF Overlapping, IInv, KeyRangeTypeOK
        <5> QED BY <2>1, <2>4, <3>1, <5>1, <5>2 DEF CachedRange
      <4>3. CASE s = c
        BY <1>1, <1>2, <2>1, <3>1, <4>3
      <4>4. CASE s \in ranges
        BY <2>4, <3>1, <4>4
      <4> QED BY <4>1, <4>2, <4>3, <4>4 DEF Inserted
    <3> QED BY <2>4, <3>1, Uncovered, UncoveredPrime
  <2> QED BY <2>3, <2>4
<1>5. ASSUME NEW k \in n.start..(n.limit - 1), RouteOf(k) # NoRoute
      PROVE  RouteOf(k).gen =< n.gen
  <2>1. k \in Int /\ n.start =< k /\ k < n.limit
    BY <1>2
  <2>2. PICK r \in ranges : r.start =< k /\ k + 1 =< r.limit
    BY <1>5, Uncovered
  <2>3. r \in CachedRange
    BY DEF IInv, KeyRangeTypeOK
  <2>4. r \in Overlapping(n)
    BY <1>2, <2>1, <2>2, <2>3 DEF Overlapping, CachedRange
  <2>5. ~(n.gen < r.gen)
    BY <2>4 DEF IsStale
  <2>6. RouteOf(k) = Route(r)
    BY <2>1, <2>2, RouteOfRange
  <2> QED BY <2>3, <2>5, <2>6 DEF Route, CachedRange, NewRange
<1>6. /\ Route(c) \in [gen : Nat, group : Groups \union {NoGroup}, db : Nat]
      /\ Route(c).gen = n.gen
  BY <1>1 DEF Route, CachedRange
<1>7. n.start \in Keys /\ n.start..(n.limit - 1) \subseteq Keys
  BY <1>2 DEF Keys
<1>8. Map!Learn(n.start, n.limit)
  <2>1. \A k \in Keys : RouteOf(k)' = IF k \in n.start..(n.limit - 1)
                                        THEN RouteOf(n.start)' ELSE RouteOf(k)
    BY <1>2, <1>3, <1>4
  <2>2. RouteOf(n.start)' = Route(c)
    BY <1>2, <1>3
  <2>3. \A k \in n.start..(n.limit - 1) :
          RouteOf(k) # NoRoute => RouteOf(k).gen =< RouteOf(n.start)'.gen
    BY <1>5, <1>6, <2>2
  <2> QED BY <1>6, <1>7, <2>1, <2>2, <2>3 DEF Map!Learn, Map!NoneNewer, Map!Keys, Keys
<1> QED BY <1>2, <1>8 DEF Map!MapNext

LEMMA MapStep == IInv /\ IInv' /\ [KeyRangeNext]_vars => Map!MapNext
<1> SUFFICES ASSUME IInv, IInv', [KeyRangeNext]_vars PROVE Map!MapNext
  OBVIOUS
<1>1. CASE ReplaceRangeIfNewer
  <2>1. Head(todo) \in NewRange /\ Head(todo).start < Head(todo).limit
    BY <1>1, HeadIsNew DEF ReplaceRangeIfNewer
  <2> QED BY <1>1, <2>1, ReplacingLearns, SameRanges DEF ReplaceRangeIfNewer
<1>2. CASE ranges' \in SUBSET ranges
  BY <1>2, DroppingForgets DEF Map!MapNext
<1> QED
  BY <1>1, <1>2 DEF KeyRangeNext, BeginUpdate, ClearForNewDatabase, StoreLabel, HoldGroups,
    ReleaseGroups, ReadLabel, LookUp, ShrinkTo, ClearRanges, vars

\* Every behaviour of the range cache, with updates in parts and for any database,
\* is one of RouteMap: a key's route is replaced by one that is at least as new as
\* all that the range replaces, or forgotten.
THEOREM CacheImplementsMap == KeyRangeSpec => RoutesAsAMap
<1>1. KeyRangeInit => Map!MapInit
  <2> SUFFICES ASSUME KeyRangeInit PROVE Map!MapInit
    OBVIOUS
  <2>1. \A k \in Keys : RouteOf(k) = NoRoute
    BY Uncovered DEF KeyRangeInit
  <2> QED BY <2>1 DEF Map!MapInit, Map!Empty, Map!Keys, Keys
<1> QED BY <1>1, Invariance, MapStep, PTL DEF KeyRangeSpec, RoutesAsAMap, Map!MapSpec

-----------------------------------------------------------------------------
(* Lookup: the sorted slice *)

\* The elements of S whose key is at most that of x.
UpTo(S, f, x) == {q \in S : f[q] =< f[x]}

LEMMA UpToGrows ==
  ASSUME NEW S, IsFiniteSet(S), NEW f \in [S -> Int], NEW x \in S
  PROVE  /\ IsFiniteSet(UpTo(S, f, x))
         /\ Cardinality(UpTo(S, f, x)) \in 1..Cardinality(S)
         /\ \A y \in S : f[x] < f[y] =>
              Cardinality(UpTo(S, f, x)) < Cardinality(UpTo(S, f, y))
<1>1. \A z \in S : /\ UpTo(S, f, z) \in SUBSET S /\ z \in UpTo(S, f, z)
                   /\ \A y \in S : f[z] < f[y] => /\ UpTo(S, f, z) \in SUBSET UpTo(S, f, y)
                                                  /\ y \notin UpTo(S, f, z)
  BY DEF UpTo
<1>2. \A z \in S : /\ IsFiniteSet(UpTo(S, f, z))
                   /\ Cardinality(UpTo(S, f, z)) \in Nat
                   /\ Cardinality(UpTo(S, f, z)) =< Cardinality(S)
  BY <1>1, FS_Subset, FS_CardinalityType
<1>3. Cardinality(UpTo(S, f, x)) # 0
  BY <1>1, <1>2, FS_EmptySet
<1>4. ASSUME NEW y \in S, f[x] < f[y]
      PROVE  Cardinality(UpTo(S, f, x)) < Cardinality(UpTo(S, f, y))
  <2>1. UpTo(S, f, x) \in SUBSET UpTo(S, f, y) /\ UpTo(S, f, x) # UpTo(S, f, y)
    BY <1>1, <1>4
  <2>2. /\ Cardinality(UpTo(S, f, x)) =< Cardinality(UpTo(S, f, y))
        /\ Cardinality(UpTo(S, f, y)) # Cardinality(UpTo(S, f, x))
    BY <1>2, <2>1, FS_Subset
  <2> QED BY <1>2, <2>2
<1>5. Cardinality(S) \in Nat
  BY FS_CardinalityType
<1> QED BY <1>2, <1>3, <1>4, <1>5

\* The elements of a finite set, by a key that tells them apart, have the ranks from 1
\* to their number.
LEMMA RanksAreOnto ==
  ASSUME NEW S, IsFiniteSet(S), NEW f \in [S -> Int],
         \A x, y \in S : f[x] = f[y] => x = y,
         NEW i \in 1..Cardinality(S)
  PROVE  \E x \in S : Cardinality(UpTo(S, f, x)) = i
<1> DEFINE g == [x \in S |-> Cardinality(UpTo(S, f, x))]
<1>1. g \in [S -> 1..Cardinality(S)]
  BY UpToGrows
<1>2. ASSUME NEW x \in S, NEW y \in S, x # y
      PROVE  g[x] # g[y]
  <2>1. f[x] \in Int /\ f[y] \in Int /\ f[x] # f[y]
    BY <1>2
  <2>2. f[x] < f[y] \/ f[y] < f[x]
    BY <2>1
  <2>3. Cardinality(UpTo(S, f, x)) \in 1..Cardinality(S) /\ Cardinality(UpTo(S, f, y)) \in 1..Cardinality(S)
    BY UpToGrows
  <2>4. \/ Cardinality(UpTo(S, f, x)) < Cardinality(UpTo(S, f, y))
        \/ Cardinality(UpTo(S, f, y)) < Cardinality(UpTo(S, f, x))
    BY <2>2, UpToGrows
  <2>5. Cardinality(UpTo(S, f, x)) # Cardinality(UpTo(S, f, y))
    BY <2>3, <2>4
  <2> QED BY <2>5
<1>3. g \in Injection(S, 1..Cardinality(S))
  BY <1>1, <1>2 DEF Injection, IsInjective
<1>4. Cardinality(S) \in Nat
  BY FS_CardinalityType
<1>5. IsFiniteSet(1..Cardinality(S)) /\ Cardinality(1..Cardinality(S)) = Cardinality(S)
  BY <1>4, FS_Interval
<1>6. g \in Surjection(S, 1..Cardinality(S))
  BY <1>3, <1>5, FS_Injection
<1> QED BY <1>6 DEF Surjection

\* So a set of indices that is not empty has a least one.
LEMMA LeastIndex ==
  ASSUME NEW a \in Int, NEW b \in Int, NEW H \in SUBSET (a..b), H # {}
  PROVE  \E i \in H : \A j \in H : i =< j
<1> DEFINE f == [i \in H |-> i]
<1>1. IsFiniteSet(H)
  BY FS_Interval, FS_Subset
<1>2. Cardinality(H) \in Nat /\ Cardinality(H) # 0
  BY <1>1, FS_EmptySet, FS_CardinalityType
<1>3. f \in [H -> Int] /\ (\A x, y \in H : f[x] = f[y] => x = y) /\ \A x \in H : f[x] = x
  OBVIOUS
<1>4. 1 \in 1..Cardinality(H)
  BY <1>2
<1> HIDE DEF f
<1>5. PICK i \in H : Cardinality(UpTo(H, f, i)) = 1
  <2>1. ASSUME NEW n \in 1..Cardinality(H)
        PROVE  \E x \in H : Cardinality(UpTo(H, f, x)) = n
    BY <1>1, <1>3, RanksAreOnto
  <2> QED BY <1>4, <2>1
<1>6. ASSUME NEW j \in H, j < i
      PROVE  FALSE
  <2>1. Cardinality(UpTo(H, f, j)) \in 1..Cardinality(H)
    BY <1>1, <1>3, UpToGrows
  <2>2. f[j] < f[i]
    BY <1>3, <1>6
  <2>3. Cardinality(UpTo(H, f, j)) < Cardinality(UpTo(H, f, i))
    BY <1>1, <1>3, <2>2, UpToGrows
  <2> QED BY <1>2, <1>5, <2>1, <2>3
<1> QED BY <1>6

\* Disjoint ranges differ in their limits.
LEMMA LimitsDiffer ==
  ASSUME IInv, NEW r \in ranges, NEW q \in ranges, r.limit = q.limit
  PROVE  r = q
<1>1. /\ r.start \in Int /\ r.limit \in Int /\ q.start \in Int /\ q.limit \in Int
      /\ r.start < r.limit /\ q.start < q.limit
  BY DEF IInv, KeyRangeTypeOK, CachedRange
<1> QED BY <1>1 DEF IInv, RangesAreDisjoint

\* The slice holds each range once, in the order of the limits, so that every range
\* begins at or behind the limits of those before it; and the first range past a key
\* divides it.
LEMMA SliceIsSorted ==
  ASSUME IInv, NEW s, s = BySortedLimit, NEW m, m = Cardinality(ranges)
  PROVE  /\ m \in Nat
         /\ \A i \in 1..m : /\ s[i] \in ranges
                            /\ s[i].start \in Nat /\ s[i].limit \in Nat
                            /\ s[i].start < s[i].limit
         /\ \A i \in 1..m : \A j \in 1..m :
              /\ i < j => s[i].limit =< s[j].start
              /\ s[i] = s[j] => i = j
         /\ \A r \in ranges : \E i \in 1..m : r = s[i]
         /\ \A key \in Nat : /\ FirstPast(key) \in 1..(m + 1)
                             /\ \A i \in 1..m : s[i].limit > key <=> i >= FirstPast(key)
<1> DEFINE f == [r \in ranges |-> r.limit]
<1>1. /\ IsFiniteSet(ranges) /\ m \in Nat
      /\ \A r \in ranges : r.start \in Nat /\ r.limit \in Nat /\ r.start < r.limit
  BY FS_CardinalityType DEF IInv, KeyRangeTypeOK, CachedRange
<1>2. f \in [ranges -> Int] /\ \A r, q \in ranges : f[r] = f[q] => r = q
  BY <1>1, LimitsDiffer
<1>3. \A r \in ranges : Rank(r) = Cardinality(UpTo(ranges, f, r)) /\ f[r] = r.limit
  <2>1. \A r \in ranges : UpTo(ranges, f, r) = {q \in ranges : q.limit =< r.limit}
    BY DEF UpTo
  <2> QED BY <2>1 DEF Rank
<1> HIDE DEF f
<1>4. /\ \A r \in ranges : Rank(r) \in 1..m
      /\ \A r, q \in ranges : r.limit < q.limit => Rank(r) < Rank(q)
      /\ \A i \in 1..m : \E r \in ranges : Rank(r) = i
  <2>1. \A r \in ranges : /\ Cardinality(UpTo(ranges, f, r)) \in 1..m
                          /\ \A q \in ranges : f[r] < f[q] =>
                               Cardinality(UpTo(ranges, f, r)) < Cardinality(UpTo(ranges, f, q))
    BY <1>1, <1>2, UpToGrows
  <2>2. \A i \in 1..m : \E r \in ranges : Cardinality(UpTo(ranges, f, r)) = i
    BY <1>1, <1>2, RanksAreOnto
  <2> QED BY <1>3, <2>1, <2>2
<1>5. \A i \in 1..m : s[i] \in ranges /\ Rank(s[i]) = i
  BY <1>4 DEF BySortedLimit
<1>6. ASSUME NEW i \in 1..m, NEW j \in 1..m, i < j
      PROVE  s[i].limit =< s[j].start
  <2>1. s[i].limit < s[j].limit
    <3>1. s[i].limit # s[j].limit
      BY <1>5, <1>6, LimitsDiffer
    <3>2. ~(s[j].limit < s[i].limit)
      BY <1>1, <1>4, <1>5, <1>6
    <3> QED BY <1>1, <1>5, <3>1, <3>2
  <2> QED BY <1>1, <1>5, <2>1 DEF IInv, RangesAreDisjoint
<1>7. ASSUME NEW r \in ranges
      PROVE  \E i \in 1..m : r = s[i]
  <2>1. Rank(r) \in 1..m /\ s[Rank(r)] \in ranges /\ Rank(s[Rank(r)]) = Rank(r)
    BY <1>4, <1>5
  <2>2. s[Rank(r)].limit = r.limit
    BY <1>1, <1>4, <2>1
  <2> QED BY <2>1, <2>2, LimitsDiffer
<1>8. ASSUME NEW key \in Nat
      PROVE  /\ FirstPast(key) \in 1..(m + 1)
             /\ \A i \in 1..m : s[i].limit > key <=> i >= FirstPast(key)
  <2> DEFINE P == {r \in ranges : r.limit =< key}
             B(i) == {q \in ranges : q.limit =< s[i].limit}
  <2>1. IsFiniteSet(P) /\ Cardinality(P) \in Nat /\ Cardinality(P) =< m
    BY <1>1, FS_Subset, FS_CardinalityType
  <2>2. FirstPast(key) = Cardinality(P) + 1
    BY DEF FirstPast
  <2>3. \A i \in 1..m : IsFiniteSet(B(i)) /\ Cardinality(B(i)) = i /\ s[i] \in B(i)
    <3>1. \A i \in 1..m : B(i) \in SUBSET ranges /\ s[i] \in B(i) /\ Cardinality(B(i)) = i
      BY <1>1, <1>5 DEF Rank
    <3> QED BY <1>1, <3>1, FS_Subset
  <2>4. ASSUME NEW i \in 1..m, s[i].limit =< key
        PROVE  i =< Cardinality(P)
    <3>1. B(i) \in SUBSET P
      BY <1>1, <1>5, <2>4
    <3> HIDE DEF B, P
    <3>2. Cardinality(B(i)) =< Cardinality(P)
      BY <2>1, <3>1, FS_Subset
    <3> QED BY <2>3, <3>2
  <2>5. ASSUME NEW i \in 1..m, s[i].limit > key
        PROVE  i > Cardinality(P)
    <3>1. P \in SUBSET B(i) /\ s[i] \notin P
      BY <1>1, <1>5, <2>5
    <3> HIDE DEF B, P
    <3>2. IsFiniteSet(B(i)) /\ Cardinality(B(i)) = i /\ P # B(i)
      BY <2>3, <3>1
    <3>3. Cardinality(P) =< Cardinality(B(i)) /\ Cardinality(B(i)) # Cardinality(P)
      BY <3>1, <3>2, FS_Subset
    <3> QED BY <2>1, <3>2, <3>3
  <2> HIDE DEF P
  <2>6. \A i \in 1..m : s[i].limit \in Nat
    BY <1>1, <1>5
  <2> QED BY <1>1, <2>1, <2>2, <2>4, <2>5, <2>6
<1> QED BY <1>1, <1>5, <1>6, <1>7, <1>8

\* What a sequence holds from place a to place b.
Between(s, a, b) == {s[i] : i \in a..b}

\* As many ranges are picked from as there are places.
LEMMA SliceCounts ==
  ASSUME NEW s, NEW m \in Nat, NEW a \in 1..(m + 1), NEW b \in 0..m, a =< b + 1,
         \A i \in 1..m : \A j \in 1..m : s[i] = s[j] => i = j
  PROVE  /\ IsFiniteSet(Between(s, a, b))
         /\ Cardinality(Between(s, a, b)) = b - a + 1
<1> DEFINE h == [i \in a..b |-> s[i]]
<1>1. h \in Bijection(a..b, Between(s, a, b))
  BY DEF Bijection, Injection, Surjection, IsInjective, Between
<1>2. IsFiniteSet(a..b) /\ Cardinality(a..b) = b - a + 1
  <2>1. a \in Int /\ b \in Int
    OBVIOUS
  <2>2. IsFiniteSet(a..b) /\ Cardinality(a..b) = IF a > b THEN 0 ELSE b - a + 1
    BY <2>1, FS_Interval
  <2> QED BY <2>1, <2>2
<1>3. ExistsBijection(a..b, Between(s, a, b))
  BY <1>1 DEF ExistsBijection
<1> QED BY <1>2, <1>3, FS_Bijection

\* The walk picks from ranges that overlap the interval, and from some just when they
\* cover it or there are enough of them.
LEMMA WalkFinds ==
  ASSUME IInv, NEW key \in 0..(MaxKey - 1), NEW limit \in (key + 1)..MaxKey,
         NEW O, O = {r \in ranges : r.limit > key /\ r.start < limit},
         NEW Q, Q = PickedFrom(key, limit)
  PROVE  /\ Q \subseteq O
         /\ Q # {} <=> (Covered(key, limit) \/ Cardinality(O) >= MinEntries)
<1> DEFINE s == BySortedLimit
           m == Len(s)
           idx == FirstPast(key)
           gapAt(i) == IF i = idx THEN s[i].start > key
                                  ELSE s[i - 1].limit # s[i].start
           past(i) == i > idx /\ gapAt(i) /\ s[i].start >= limit
           stops(i) == past(i) \/ s[i].limit >= limit \/ i - idx + 1 >= MinEntries
           halts == {i \in idx..m : stops(i)}
           last == IF halts = {} THEN m + 1
                   ELSE CHOOSE i \in halts : \A j \in halts : i =< j
           hitEnd == last > m
           total == last - idx + (IF hitEnd \/ past(last) THEN 0 ELSE 1)
           foundGap == hitEnd \/ \E i \in idx..last : gapAt(i)
           Slice == Between(s, idx, idx + total - 1)
<1>1. Q = IF ~hitEnd /\ s[idx].start =< key /\ limit =< s[idx].limit THEN {s[idx]}
          ELSE IF total > 0 /\ (~foundGap \/ total >= MinEntries) THEN Slice ELSE {}
  BY DEF PickedFrom, Between
<1>2. /\ key \in Nat /\ limit \in Nat /\ key < limit
      /\ MinEntries \in Nat /\ MinEntries >= 2
  BY KeyRangeAssumption
<1>3. /\ m \in Nat
      /\ \A i \in 1..m : /\ s[i] \in ranges
                         /\ s[i].start \in Nat /\ s[i].limit \in Nat
                         /\ s[i].start < s[i].limit
      /\ \A i \in 1..m : \A j \in 1..m :
           /\ i < j => s[i].limit =< s[j].start
           /\ s[i] = s[j] => i = j
      /\ \A r \in ranges : \E i \in 1..m : r = s[i]
      /\ \A k \in Nat : /\ FirstPast(k) \in 1..(m + 1)
                        /\ \A i \in 1..m : s[i].limit > k <=> i >= FirstPast(k)
  <2>1. Cardinality(ranges) \in Nat
    BY SliceIsSorted
  <2>2. m = Cardinality(ranges)
    BY <2>1 DEF BySortedLimit
  <2> HIDE DEF s, m
  <2> QED BY <2>2, SliceIsSorted DEF s
<1>4. /\ idx \in 1..(m + 1)
      /\ \A i \in 1..m : s[i].limit > key <=> i >= idx
  BY <1>2, <1>3
<1> HIDE DEF s, m, idx
<1> m \in Nat /\ idx \in Nat /\ idx >= 1 /\ idx =< m + 1
  BY <1>3, <1>4
<1>5. \A i \in 1..m : s[i] \in O <=> (i >= idx /\ s[i].start < limit)
  BY <1>3, <1>4
<1>6. \A i \in 1..m : \A j \in 1..m : i =< j => /\ s[i].start =< s[j].start
                                               /\ s[i].limit =< s[j].limit
  <2> SUFFICES ASSUME NEW i \in 1..m, NEW j \in 1..m, i < j
               PROVE  s[i].start =< s[j].start /\ s[i].limit =< s[j].limit
    BY <1>3
  <2> QED BY <1>3
<1>7. ASSUME NEW n \in Int, idx =< n + 1, n =< m,
             \A i \in 1..m : (i >= idx /\ s[i].start < limit) => i =< n
      PROVE  Cardinality(O) \in Nat /\ Cardinality(O) =< n - idx + 1
  <2> DEFINE T == Between(s, idx, n)
  <2>1. n \in 0..m
    BY <1>3, <1>4, <1>7
  <2>2. IsFiniteSet(T) /\ Cardinality(T) = n - idx + 1
    <3>1. \A i \in 1..m : \A j \in 1..m : s[i] = s[j] => i = j
      BY <1>3
    <3> QED BY <1>3, <1>4, <1>7, <2>1, <3>1, SliceCounts
  <2>3. O \in SUBSET T
    <3> SUFFICES ASSUME NEW r \in O PROVE r \in T
      OBVIOUS
    <3>1. PICK i \in 1..m : r = s[i]
      BY <1>3
    <3>2. i >= idx /\ s[i].start < limit
      BY <1>5, <3>1
    <3>3. i \in idx..n
      BY <1>7, <3>2, <1>4
    <3> QED BY <3>1, <3>3 DEF Between
  <2> HIDE DEF T
  <2> QED BY <2>2, <2>3, FS_Subset, FS_CardinalityType
<1>8. ASSUME NEW k \in key..(limit - 1), NEW i \in Int,
             \A j \in 1..m : j < i => s[j].limit =< k,
             \A j \in 1..m : j >= i => s[j].start > k
      PROVE  ~Covered(key, limit)
  <2>1. ASSUME NEW r \in ranges
        PROVE  ~(r.start =< k /\ k + 1 =< r.limit)
    <3>1. PICK j \in 1..m : r = s[j]
      BY <1>3
    <3>2. j < i \/ j >= i
      OBVIOUS
    <3> QED BY <1>2, <1>3, <1>8, <3>1, <3>2
  <2> QED BY <1>8, <2>1 DEF Covered, Covering
<1>9. CASE halts = {}
  <2>1. hitEnd /\ total = m + 1 - idx /\ foundGap
    <3>1. last = m + 1
      BY <1>9
    <3> HIDE DEF last
    <3>2. hitEnd
      BY <3>1
    <3> HIDE DEF hitEnd
    <3>3. total = m + 1 - idx
      BY <3>1, <3>2
    <3> QED BY <3>2, <3>3
  <2>2. \A i \in idx..m : s[i].limit < limit /\ i - idx + 1 < MinEntries
    <3> SUFFICES ASSUME NEW i \in idx..m
                 PROVE  s[i].limit < limit /\ i - idx + 1 < MinEntries
      OBVIOUS
    <3>1. i \in 1..m /\ i \in Int
      BY <1>4
    <3>2. s[i].limit \in Int /\ limit \in Int
      BY <1>2, <1>3, <3>1
    <3>3. ~stops(i)
      BY <1>9
    <3>4. ~(s[i].limit >= limit) /\ ~(i - idx + 1 >= MinEntries)
      BY <3>3
    <3> QED BY <1>2, <3>1, <3>2, <3>4
  <2> HIDE DEF halts, last, total, hitEnd, foundGap
  <2>3. total < MinEntries
    <3>1. CASE idx = m + 1
      BY <1>2, <1>3, <2>1, <3>1
    <3>2. CASE idx # m + 1
      <4>1. m \in idx..m
        BY <1>3, <1>4, <3>2
      <4>2. m - idx + 1 < MinEntries
        BY <2>2, <4>1
      <4> QED BY <1>2, <2>1, <4>2
    <3> QED BY <3>1, <3>2
  <2>4. Q = {}
    BY <1>1, <2>1, <2>3, <1>2, <1>3, <1>4
  <2>5. ~Covered(key, limit)
    <3> DEFINE k == limit - 1
    <3>1. \A j \in 1..m : j < m + 1 => s[j].limit =< k
      BY <1>2, <1>3, <1>4, <2>2
    <3>2. \A j \in 1..m : j >= m + 1 => s[j].start > k
      OBVIOUS
    <3>3. k \in key..(limit - 1) /\ m + 1 \in Int
      BY <1>2
    <3> HIDE DEF k
    <3> QED BY <1>8, <3>1, <3>2, <3>3
  <2>6. Cardinality(O) \in Nat /\ Cardinality(O) =< m - idx + 1
    BY <1>3, <1>4, <1>7
  <2>7. ~(Cardinality(O) >= MinEntries)
    BY <1>2, <2>1, <2>3, <2>6
  <2> QED BY <2>4, <2>5, <2>7
<1>10. CASE halts # {}
  <2>1. last \in halts /\ \A j \in halts : last =< j
    <3>1. halts \in SUBSET (idx..m) /\ idx \in Int /\ m \in Int
      BY <1>3, <1>4
    <3>2. \E i \in halts : \A j \in halts : i =< j
      BY <1>10, <3>1, LeastIndex
    <3> QED BY <1>10, <3>2
  <2> HIDE DEF last
  <2>2. /\ last \in idx..m /\ last \in 1..m /\ stops(last)
        /\ \A i \in idx..m : i < last => ~stops(i)
    BY <1>3, <1>4, <2>1
  <2> HIDE DEF halts
  <2>3. ~hitEnd /\ idx \in 1..m /\ last \in Int /\ idx =< last
    BY <1>3, <1>4, <2>2
  <2>4. \A i \in idx..m : i < last => s[i].limit < limit /\ i - idx + 1 < MinEntries
    BY <1>2, <1>3, <1>4, <2>2
  <2>5. total \in 1..(last - idx + 1) /\ idx + total - 1 =< m
    BY <2>2, <2>3, <1>3, <1>4
  <2>6. CASE s[idx].start =< key /\ limit =< s[idx].limit
    <3>1. Q = {s[idx]}
      BY <1>1, <2>3, <2>6
    <3>2. s[idx] \in O
      BY <1>2, <1>3, <1>5, <2>3, <2>6
    <3>3. \A k \in key..(limit - 1) : s[idx] \in Covering(k, k + 1)
      BY <1>2, <1>3, <2>3, <2>6 DEF Covering
    <3> QED BY <3>1, <3>2, <3>3 DEF Covered
  <2>7. CASE ~(s[idx].start =< key /\ limit =< s[idx].limit)
    <3>1. Q = IF ~foundGap \/ total >= MinEntries THEN Slice ELSE {}
      BY <1>1, <2>3, <2>5, <2>7
    <3>2. CASE ~foundGap \/ total >= MinEntries
      <4>1. Q = Slice /\ Q # {}
        <5>1. idx \in idx..(idx + total - 1)
          BY <2>3, <2>5
        <5> QED BY <3>1, <3>2, <5>1 DEF Between
      <4>2. ASSUME NEW i \in idx..(idx + total - 1)
            PROVE  s[i] \in O
        <5>1. i \in 1..m /\ i >= idx /\ i =< last
          BY <2>3, <2>5
        <5>2. CASE i < last
          BY <1>3, <1>5, <2>4, <5>1, <5>2
        <5>3. CASE i = last /\ last = idx
          <6>1. total = 1
            BY <2>3, <2>5, <5>3
          <6>2. ~foundGap
            BY <1>2, <3>2, <6>1
          <6>3. s[idx].start =< key
            BY <1>3, <2>3, <5>3, <6>2
          <6> QED BY <1>2, <1>3, <1>5, <5>1, <5>3, <6>3
        <5>4. CASE i = last /\ last > idx
          <6>1. ~past(last)
            BY <2>3, <5>4
          <6>2. s[last - 1].limit < limit
            BY <1>3, <1>4, <2>2, <2>3, <2>4, <5>4
          <6>3. s[last].start < limit
            BY <1>2, <1>3, <2>2, <5>4, <6>1, <6>2
          <6> QED BY <1>5, <5>1, <5>4, <6>3
        <5> QED BY <2>3, <5>1, <5>2, <5>3, <5>4
      <4>3. Q \in SUBSET O
        BY <4>1, <4>2 DEF Between
      <4>4. ASSUME total >= MinEntries
            PROVE  Cardinality(O) >= MinEntries
        <5>1. IsFiniteSet(O)
          <6>1. O \in SUBSET ranges /\ IsFiniteSet(ranges)
            BY DEF IInv, KeyRangeTypeOK
          <6> QED BY <6>1, FS_Subset
        <5>2. Cardinality(Slice) = total
          <6> DEFINE b == idx + total - 1
          <6>1. b \in 0..m /\ idx =< b + 1 /\ b - idx + 1 = total
            BY <2>3, <2>5, <1>3
          <6> HIDE DEF b, total
          <6>2. Cardinality(Between(s, idx, b)) = b - idx + 1
            <7>1. \A i \in 1..m : \A j \in 1..m : s[i] = s[j] => i = j
              BY <1>3
            <7> QED BY <1>3, <1>4, <6>1, <7>1, SliceCounts
          <6> QED BY <6>1, <6>2 DEF b
        <5> HIDE DEF Slice, total
        <5>3. Cardinality(Slice) =< Cardinality(O)
          BY <4>1, <4>3, <5>1, FS_Subset
        <5>4. Cardinality(O) \in Nat
          BY <5>1, FS_CardinalityType
        <5> QED BY <1>2, <2>5, <4>4, <5>2, <5>3, <5>4
      <4>5. ASSUME ~foundGap, total < MinEntries
            PROVE  Covered(key, limit)
        <5>1. \A i \in idx..last : ~gapAt(i)
          BY <4>5
        <5>2. ~past(last) /\ total = last - idx + 1
          BY <2>3, <5>1
        <5>3. s[last].limit >= limit
          BY <1>2, <2>2, <2>3, <4>5, <5>2
        <5>4. ASSUME NEW k \in key..(limit - 1)
              PROVE  Covering(k, k + 1) # {}
          <6>1. k \in Nat /\ key =< k /\ k < limit
            BY <1>2
          <6> DEFINE i == FirstPast(k)
          <6>2. /\ i \in 1..(m + 1)
                /\ \A j \in 1..m : s[j].limit > k <=> j >= i
            BY <1>3, <6>1
          <6> HIDE DEF i
          <6>3. i =< last
            BY <1>3, <2>2, <5>3, <6>1, <6>2
          <6>4. i \in 1..m /\ i >= idx /\ s[i].limit > k
            <7>1. i \in 1..m
              BY <2>2, <6>2, <6>3
            <7>2. s[i].limit > k
              BY <6>2, <7>1
            <7>3. s[i].limit > key
              BY <1>2, <1>3, <6>1, <7>1, <7>2
            <7> QED BY <1>4, <7>1, <7>2, <7>3
          <6>5. ~gapAt(i)
            BY <5>1, <6>3, <6>4, <2>3
          <6>6. s[i].start =< k
            <7>1. CASE i = idx
              BY <1>2, <1>3, <6>1, <6>4, <6>5, <7>1
            <7>2. CASE i # idx
              <8>1. i - 1 \in 1..m /\ ~(i - 1 >= i)
                BY <2>3, <6>4, <7>2
              <8>2. ~(s[i - 1].limit > k)
                BY <6>2, <8>1
              <8> QED BY <1>3, <6>1, <6>4, <6>5, <7>2, <8>1, <8>2
            <7> QED BY <7>1, <7>2
          <6>7. s[i] \in Covering(k, k + 1)
            BY <1>3, <6>1, <6>4, <6>6 DEF Covering
          <6> QED BY <6>7
        <5> QED BY <5>4 DEF Covered
      <4> QED BY <1>2, <2>5, <3>2, <4>1, <4>3, <4>4, <4>5
    <3>3. CASE ~(~foundGap \/ total >= MinEntries)
      <4>1. Q = {} /\ foundGap /\ total < MinEntries
        BY <1>2, <2>5, <3>1, <3>3
      <4>2. ~Covered(key, limit)
        <5>1. PICK i \in idx..last : gapAt(i)
          BY <2>3, <4>1
        <5>2. i \in 1..m
          BY <2>2, <5>1
        <5>3. CASE i = idx
          <6>1. s[idx].start > key
            BY <5>1, <5>3
          <6>2. \A j \in 1..m : /\ j < idx => s[j].limit =< key
                                /\ j >= idx => s[j].start > key
            BY <1>2, <1>3, <1>4, <1>6, <2>3, <6>1
          <6>3. key \in key..(limit - 1)
            BY <1>2
          <6> QED BY <1>8, <2>3, <6>2, <6>3
        <5>4. CASE i # idx
          <6> DEFINE k == s[i - 1].limit
          <6>1. i - 1 \in 1..m /\ i - 1 \in idx..m /\ i - 1 < last
            BY <2>2, <2>3, <5>1, <5>4
          <6>2. k \in Nat /\ k < limit /\ k > key
            BY <1>3, <1>4, <2>4, <6>1
          <6>3. s[i].start > k
            BY <1>3, <5>1, <5>2, <5>4, <6>1
          <6> HIDE DEF k
          <6>4. \A j \in 1..m : j < i => s[j].limit =< k
            BY <1>6, <5>2, <6>1 DEF k
          <6>5. \A j \in 1..m : j >= i => s[j].start > k
            BY <1>3, <1>6, <5>2, <6>2, <6>3
          <6> i \in Int
            BY <5>2
          <6>6. k \in key..(limit - 1)
            BY <1>2, <6>2
          <6> QED BY <1>8, <6>4, <6>5, <6>6
        <5> QED BY <5>3, <5>4
      <4>3. ~(Cardinality(O) >= MinEntries)
        <5> DEFINE n == idx + total - 1
        <5>1. n \in Int /\ idx =< n + 1 /\ n =< m /\ n - idx + 1 = total
          BY <2>3, <2>5, <1>3
        <5>2. \A i \in 1..m : i > n => ~(s[i].start < limit)
          <6>1. CASE past(last)
            <7>1. n = last - 1 /\ s[last].start >= limit
              BY <2>3, <6>1
            <7> QED BY <1>2, <1>3, <1>6, <2>2, <7>1
          <6>2. CASE ~past(last)
            <7>1. n = last
              BY <2>3, <6>2
            <7>2. last - idx + 1 < MinEntries
              BY <4>1, <5>1, <7>1
            <7>3. s[last].limit >= limit
              BY <1>2, <2>2, <2>3, <6>2, <7>2
            <7> QED BY <1>2, <1>3, <2>2, <7>1, <7>3
          <6> QED BY <6>1, <6>2
        <5> HIDE DEF n, total
        <5>3. \A i \in 1..m : (i >= idx /\ s[i].start < limit) => i =< n
          BY <5>1, <5>2
        <5>4. Cardinality(O) \in Nat /\ Cardinality(O) =< n - idx + 1
          BY <1>7, <5>1, <5>3
        <5> QED BY <1>2, <2>5, <4>1, <5>1, <5>4
      <4> QED BY <4>1, <4>2, <4>3
    <3> QED BY <3>2, <3>3
  <2> QED BY <2>6, <2>7
<1> QED BY <1>9, <1>10

\* A request for an interval the cache covers gets a range and one it does not cover
\* gets none unless enough ranges lie on the way, in every reachable cache.
THEOREM LookupFindsWhatCovers == KeyRangeSpec => []FindsWhatCovers
<1>1. IInv => FindsWhatCovers
  BY WalkFinds DEF FindsWhatCovers
<1> QED BY <1>1, Invariance, PTL
=============================================================================

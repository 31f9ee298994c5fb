--------------------------- MODULE KeyRangeCache ---------------------------
(***************************************************************************)
(* The location cache of the candidate that the single-round pipeline      *)
(* shipped for google-cloud-go 14418: key_range_cache.go, with the part of *)
(* channel_finder.go that applies a server's cache updates to it.          *)
(*                                                                         *)
(* Updates are applied one at a time (updateMu).  An update for another    *)
(* database first clears the cache, then relabels the finder, then adds    *)
(* its groups and ranges under the cache's lock; a request reads the label *)
(* without any lock and looks its range up later.  While an update adds    *)
(* its ranges the lock is held, so nothing else of the cache moves.        *)
(*                                                                         *)
(* Keys are 0..MaxKey in place of byte strings, a range is start =< k <    *)
(* limit, and the sorted slice is the set of its elements: "ranges" has no *)
(* two with one limit (RangesAreDisjoint).  A group is its reference       *)
(* count, 0 for a group that is not in the map.  Leaders, tablets, split   *)
(* ids and access times are left out; so shrinkTo may drop any ranges.     *)
(* "db" of a range is history: the label of the update that brought it.    *)
(***************************************************************************)
EXTENDS Integers, FiniteSets, Sequences, SequencesExt

CONSTANTS
  MaxKey,      \* the largest limit key
  Groups,      \* uids of the server groups
  NoGroup,     \* a range whose group was unknown when it came
  Updates,     \* the cache updates a server may send
  MinEntries   \* minEntriesForRandomPickHint

ASSUME KeyRangeAssumption ==
  /\ MaxKey \in Nat \ {0}
  /\ MinEntries \in Nat \ {0, 1}
  /\ NoGroup \notin Groups
  /\ \A u \in Updates :
       /\ u.db \in Nat
       /\ u.groups \in SUBSET Groups
       /\ IsFiniteSet(u.groups)
       /\ u.ranges \in Seq([start : 0..MaxKey, limit : 0..MaxKey,
                            group : Groups, gen : Nat])
       /\ \A i \in 1..Len(u.ranges) : u.ranges[i].start < u.ranges[i].limit

NoHint == -1

VARIABLES
  ranges,    \* keyRangeCache.ranges
  refs,      \* cachedGroup.refs, by uid
  database,  \* channelFinder.databaseID, 0 until the first label
  phase,     \* where the update that is being applied is
  label,     \* its database id
  held,      \* its groups: to insert, then the ones addRanges holds
  todo,      \* its ranges that are still to be added
  hint,      \* the label a request has read and not used yet
  overtaken  \* history: a label was stored since

request == <<hint, overtaken>>
vars == <<ranges, refs, database, phase, label, held, todo, request>>

-----------------------------------------------------------------------------
(* Lookup *)

\* Mutant of FirstPast: a range that ends at the key counts as past it.
FirstPastOrAt(key) == Cardinality({r \in ranges : r.limit < key}) + 1
\* The index of the first range past the key.
FirstPast(key) == Cardinality({r \in ranges : r.limit =< key}) + 1

\* The place of a range in the slice, which is sorted by limit.
Rank(r) == Cardinality({q \in ranges : q.limit =< r.limit})
BySortedLimit ==
  [i \in 1..Cardinality(ranges) |-> CHOOSE r \in ranges : Rank(r) = i]

Covering(key, limit) == {r \in ranges : r.start =< key /\ limit =< r.limit}

(***************************************************************************)
(* findRangeLocked for a request that is content with a random part: the   *)
(* walk over the sorted ranges from the first one past the key, and the    *)
(* ranges it picks from; {} stands for nil.                                *)
(***************************************************************************)
PickedFrom(key, limit) ==
  LET s == BySortedLimit
      idx == FirstPast(key)
      gapAt(i) == IF i = idx THEN s[i].start > key
                             ELSE s[i - 1].limit # s[i].start
      past(i) == i > idx /\ gapAt(i) /\ s[i].start >= limit
      stops(i) == past(i) \/ s[i].limit >= limit \/ i - idx + 1 >= MinEntries
      halts == {i \in idx..Len(s) : stops(i)}
      last == IF halts = {} THEN Len(s) + 1
              ELSE CHOOSE i \in halts : \A j \in halts : i =< j
      hitEnd == last > Len(s)
      total == last - idx + (IF hitEnd \/ past(last) THEN 0 ELSE 1)
      foundGap == hitEnd \/ \E i \in idx..last : gapAt(i)
  IN IF ~hitEnd /\ s[idx].start =< key /\ limit =< s[idx].limit THEN {s[idx]}
     ELSE IF total > 0 /\ (~foundGap \/ total >= MinEntries)
          THEN {s[i] : i \in idx..(idx + total - 1)}
          ELSE {}

-----------------------------------------------------------------------------
(* replaceRangeIfNewer *)

\* Mutant of Overlapping: a range that goes on past the new one is not seen.
OverlappingEnds(n) == {r \in ranges : r.limit > n.start /\ r.limit =< n.limit}
Overlapping(n) == {r \in ranges : r.limit > n.start /\ r.start < n.limit}

\* Mutant of IsStale: one overlapped range that is older suffices.
IsStaleForAll(n) ==
  /\ Overlapping(n) # {}
  /\ \A r \in Overlapping(n) : n.gen < r.gen
\* An older generation, or the very range at the same one, changes nothing.
IsStale(n) ==
  \E r \in Overlapping(n) :
    n.gen < r.gen \/ (n.gen = r.gen /\ r.start = n.start /\ r.limit = n.limit)

\* What the overlapped ranges keep on either side; as ranges are disjoint, only
\* the first can stick out on the left and only the last on the right.
LeftOf(n) ==
  {[r EXCEPT !.limit = n.start] : r \in {o \in Overlapping(n) : o.start < n.start}}
RightOf(n) ==
  {[r EXCEPT !.start = n.limit] : r \in {o \in Overlapping(n) : o.limit > n.limit}}

\* findAndRefGroup: a group that is not in the map leaves the range without one.
KnownGroup(g) == IF refs[g] > 0 THEN g ELSE NoGroup

Cached(n) ==
  [start |-> n.start, limit |-> n.limit, group |-> KnownGroup(n.group),
   gen |-> n.gen, db |-> label]

Inserted(n) == LeftOf(n) \union {Cached(n)} \union RightOf(n)

OfGroup(S, g) == {r \in S : r.group = g}

\* refGroup of every range that came, unrefGroup of every range that went.
Recounted(went, came) ==
  [g \in Groups |-> refs[g] + Cardinality(OfGroup(came, g))
                            - Cardinality(OfGroup(went, g))]

-----------------------------------------------------------------------------
(* Applying an update *)

KeyRangeInit ==
  /\ ranges = {} /\ refs = [g \in Groups |-> 0]
  /\ database = 0
  /\ phase = "idle" /\ label = 0 /\ held = {} /\ todo = <<>>
  /\ hint = NoHint /\ overtaken = FALSE

\* Mutant of BeginUpdate: only an update with ranges clears the old database's.
BeginUpdateClearsForRanges(u) ==
  /\ phase = "idle"
  /\ u.groups # {} \/ u.ranges # <<>> \/ u.db \notin {0, database}
  /\ phase' = IF u.db = database THEN "add"
              ELSE IF database = 0 \/ u.ranges = <<>> THEN "relabel" ELSE "clear"
  /\ label' = u.db /\ held' = u.groups /\ todo' = u.ranges
  /\ UNCHANGED <<ranges, refs, database, request>>

\* updateAsync lets an update through that says something, or whose label is new;
\* update then compares the label with the finder's.
BeginUpdate(u) ==
  /\ phase = "idle"
  /\ u.groups # {} \/ u.ranges # <<>> \/ u.db \notin {0, database}
  /\ phase' = IF u.db = database THEN "add"
              ELSE IF database = 0 THEN "relabel" ELSE "clear"
  /\ label' = u.db /\ held' = u.groups /\ todo' = u.ranges
  /\ UNCHANGED <<ranges, refs, database, request>>

ClearRanges == ranges' = {} /\ refs' = [g \in Groups |-> 0]

\* The database changed: rangeCache.clear().
ClearForNewDatabase ==
  /\ phase = "clear"
  /\ ClearRanges
  /\ phase' = "relabel"
  /\ UNCHANGED <<database, label, held, todo, request>>

\* databaseID.Store.  A request that read the label before it keeps what it read.
StoreLabel ==
  /\ phase = "relabel"
  /\ database' = label
  /\ overtaken' = (hint # NoHint)
  /\ phase' = "add"
  /\ UNCHANGED <<ranges, refs, label, held, todo, hint>>

\* Mutant of HoldGroups: a group that is known already is not held.
HoldNewGroups ==
  /\ phase = "add"
  /\ refs' = [g \in Groups |-> IF g \in held /\ refs[g] = 0 THEN 1 ELSE refs[g]]
  /\ phase' = "adding"
  /\ UNCHANGED <<ranges, database, label, held, todo, request>>

\* addRanges takes the lock and holds every group of the update.
HoldGroups ==
  /\ phase = "add"
  /\ refs' = [g \in Groups |-> refs[g] + IF g \in held THEN 1 ELSE 0]
  /\ phase' = "adding"
  /\ UNCHANGED <<ranges, database, label, held, todo, request>>

\* replaceRangeIfNewer of the next range.
ReplaceRangeIfNewer ==
  /\ phase = "adding" /\ todo # <<>>
  /\ LET n == Head(todo) IN
       IF IsStale(n)
         THEN UNCHANGED <<ranges, refs>>
         ELSE /\ ranges' = (ranges \ Overlapping(n)) \union Inserted(n)
              /\ refs' = Recounted(Overlapping(n), Inserted(n))
  /\ todo' = Tail(todo)
  /\ UNCHANGED <<database, phase, label, held, request>>

\* addRanges lets the groups go and the lock with them.
ReleaseGroups ==
  /\ phase = "adding" /\ todo = <<>>
  /\ refs' = [g \in Groups |-> refs[g] - IF g \in held THEN 1 ELSE 0]
  /\ phase' = "idle" /\ label' = 0 /\ held' = {}
  /\ UNCHANGED <<ranges, database, todo, request>>

(* The other users of the cache *)

\* fillRoutingHint of the finder reads the label; without one it does not route.
ReadLabel ==
  /\ hint = NoHint /\ database # 0
  /\ hint' = database /\ overtaken' = FALSE
  /\ UNCHANGED <<ranges, refs, database, phase, label, held, todo>>

\* fillRoutingHint of the cache looks the range up, under the lock.
LookUp ==
  /\ hint # NoHint /\ phase # "adding"
  /\ hint' = NoHint /\ overtaken' = FALSE
  /\ UNCHANGED <<ranges, refs, database, phase, label, held, todo>>

\* shrinkTo evicts the least recently used of a random sample, or everything.
ShrinkTo(S) ==
  /\ phase # "adding"
  /\ \/ S # {} /\ ranges' = ranges \ S /\ refs' = Recounted(S, {})
     \/ S = {} /\ ClearRanges
  /\ UNCHANGED <<database, phase, label, held, todo, request>>

KeyRangeNext ==
  \/ \E u \in Updates : BeginUpdate(u)
  \/ ClearForNewDatabase \/ StoreLabel
  \/ HoldGroups \/ ReplaceRangeIfNewer \/ ReleaseGroups
  \/ ReadLabel \/ LookUp
  \/ \E S \in SUBSET ranges : ShrinkTo(S)

KeyRangeSpec == KeyRangeInit /\ [][KeyRangeNext]_vars

-----------------------------------------------------------------------------
(* Properties *)

CachedRange ==
  [start : 0..MaxKey, limit : 0..MaxKey, group : Groups \union {NoGroup},
   gen : Nat, db : Nat]

\* The state has its type, and every cached range has a key.
KeyRangeTypeOK ==
  /\ ranges \in SUBSET CachedRange
  /\ IsFiniteSet(ranges)
  /\ \A r \in ranges : r.start < r.limit
  /\ refs \in [Groups -> Nat]
  /\ database \in Nat
  /\ phase \in {"idle", "clear", "relabel", "add", "adding"}
  /\ label \in Nat
  /\ held \in SUBSET Groups
  /\ todo \in Seq([start : 0..MaxKey, limit : 0..MaxKey, group : Groups, gen : Nat])
  /\ \A i \in 1..Len(todo) : todo[i].start < todo[i].limit
  /\ hint \in Nat \union {NoHint}
  /\ overtaken \in BOOLEAN

\* However updates split, join and overlap, no key is in two cached ranges.
RangesAreDisjoint ==
  \A r, s \in ranges : r # s => r.limit =< s.start \/ s.limit =< r.start

HeldNow(g) == IF phase = "adding" /\ g \in held THEN 1 ELSE 0

\* The reference count of a group is the number of ranges that route to it, and
\* one for an update that holds it: no group is dropped under a range or kept
\* without one.
GroupsAreCounted ==
  \A g \in Groups : refs[g] = Cardinality(OfGroup(ranges, g)) + HeldNow(g)

Covered(key, limit) == \A k \in key..(limit - 1) : Covering(k, k + 1) # {}

\* A request for an interval the cache covers gets a range; one it does not cover
\* gets none, unless MinEntries ranges lie on the way; and no request is sent to a
\* range it does not overlap.
FindsWhatCovers ==
  phase # "adding" =>
    \A key \in 0..(MaxKey - 1) : \A limit \in (key + 1)..MaxKey :
      LET P == PickedFrom(key, limit)
          O == {r \in ranges : r.limit > key /\ r.start < limit}
      IN /\ P \subseteq O
         /\ P # {} <=> Covered(key, limit) \/ Cardinality(O) >= MinEntries

\* What a request finds is of the database it has read the label of, or, if a new
\* label was stored since, of the finder's present one; never of one the finder
\* has left: the old ranges are gone before the new label is there, and no range
\* comes before its label.  An overtaken request thus sends the old database's id
\* with a route of the new one.  Ranges of an update without an id pass for any.
FoundIsOfLabel ==
  hint # NoHint =>
    \A r \in ranges :
      \/ r.db = 0
      \/ r.db = hint /\ ~overtaken
      \/ r.db = database /\ overtaken

-----------------------------------------------------------------------------
(* The cache is a map from keys to routes *)

Route(r) == [gen |-> r.gen, group |-> r.group, db |-> r.db]

NoRoute == [gen |-> -1, group |-> NoGroup, db |-> 0]

RouteOf(k) ==
  IF Covering(k, k + 1) = {} THEN NoRoute
  ELSE Route(CHOOSE r \in Covering(k, k + 1) : TRUE)

Map == INSTANCE RouteMap WITH
  route   <- [k \in 0..(MaxKey - 1) |-> RouteOf(k)],
  Routes  <- [gen : Nat, group : Groups \union {NoGroup}, db : Nat],
  NoRoute <- NoRoute

\* A key's route changes to the one of a range that is at least as new as all the
\* routes that range replaces, or is forgotten; no key outside the range moves.
RoutesAsAMap == Map!MapSpec
=============================================================================

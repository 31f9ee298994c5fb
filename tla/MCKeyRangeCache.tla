-------------------------- MODULE MCKeyRangeCache --------------------------
(* The updates of the TLC run of the range cache. *)
EXTENDS KeyRangeCache, TLC

CONSTANT Gens

MCRange(a, b, g, n) == [start |-> a, limit |-> b, group |-> g, gen |-> n]

\* One range, or the two of a split.
One == {<<MCRange(a, b, g, n)>> : a, b \in 0..MaxKey, g \in Groups, n \in Gens}
Two ==
  {<<MCRange(a, b, g, n), MCRange(b, c, h, n)>> :
     a, b, c \in 0..MaxKey, g, h \in Groups, n \in Gens}

Update(d, G, Lists) ==
  {[db |-> d, groups |-> G, ranges |-> s] :
     s \in {<<>>} \union {l \in Lists : \A i \in 1..Len(l) : l[i].start < l[i].limit}}

\* The first database sends splits as well, with their groups, the second single
\* ranges; a range may come without its group, and without a database id.
MCUpdates ==
  UNION {Update(1, Groups, One \union Two), Update(1, {}, One),
         Update(2, Groups, One), Update(2, {}, One)}
  \union {[db |-> 0, groups |-> Groups,
           ranges |-> <<MCRange(1, MaxKey, g, n)>>] : g \in Groups, n \in Gens}

\* No step tells the groups apart.
Swaps == Permutations(Groups)
=============================================================================

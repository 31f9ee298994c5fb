------------------------------ MODULE RouteMap ------------------------------
(***************************************************************************)
(* What the key range cache of the shipped candidate promises: a partial   *)
(* map from keys to routes.  It learns what a newer update says of an      *)
(* interval as a whole or not at all, and it may forget, but it never goes *)
(* back to an older route by learning.                                     *)
(***************************************************************************)
EXTENDS Integers

CONSTANTS MaxKey, Routes, NoRoute

VARIABLE route

Keys == 0..(MaxKey - 1)

Empty == [k \in Keys |-> NoRoute]

\* Whatever is known of the interval is not newer than the new route.
NoneNewer(lo, hi, e) ==
  \A k \in lo..(hi - 1) : route[k] # NoRoute => route[k].gen <= e.gen

\* One new route for the whole interval.
Learn(lo, hi) ==
  /\ route'[lo] \in Routes
  /\ NoneNewer(lo, hi, route'[lo])
  /\ route' = [k \in Keys |-> IF k \in lo..(hi - 1) THEN route'[lo] ELSE route[k]]

\* Any keys may lose their route.
Forget ==
  route' = [k \in Keys |-> IF route'[k] = NoRoute THEN NoRoute ELSE route[k]]

MapInit == route = Empty

MapNext ==
  \/ Forget
  \/ \E lo, hi \in 0..MaxKey : lo < hi /\ Learn(lo, hi)

MapSpec == MapInit /\ [][MapNext]_route
=============================================================================

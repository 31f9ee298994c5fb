------------------------ MODULE EndpointClientCache ------------------------
(***************************************************************************)
(* endpoint_client_cache.go of the shipped candidate for gcloud-14418: one *)
(* gRPC client per server address, made on demand by whoever asks first,   *)
(* while the others wait for it; a client may be evicted, or the cache     *)
(* closed, while it is still being made.                                   *)
(*                                                                         *)
(* An endpoint is its client; the default endpoint, which the cache never  *)
(* stores, is left out.  Each process that asks has its place in the code  *)
(* (at), the address it asks for (addr), the client it holds (got) and the *)
(* one it has still to close (closing).  A connection's state is chosen    *)
(* where the code reads it; the state of a closed client is Shutdown.      *)
(***************************************************************************)
EXTENDS Integers, FiniteSets

CONSTANTS
  Addrs,     \* server addresses
  Callers,   \* requests that route through the cache
  Run,       \* the goroutine of the lifecycle manager
  MaxClient  \* bound: clients that can be told apart at one time

ASSUME ClientAssumption == Addrs # {} /\ MaxClient \in Nat

NoClient == 0
Clients == 1..MaxClient
Procs == Callers \union {Run}

VARIABLES
  cached,    \* endpointClientCache.endpoints
  inflight,  \* the addresses whose client is being made
  evicted,   \* those of them that were evicted meanwhile
  closed,    \* endpointClientCache.closed
  open,      \* clients that were made and not closed
  at, addr, got, closing

cacheVars == <<cached, inflight, evicted, closed, open, at, addr, got, closing>>

CacheInit ==
  /\ cached = [a \in Addrs |-> NoClient]
  /\ inflight = {} /\ evicted = {} /\ closed = FALSE /\ open = {}
  /\ got = [p \in Procs |-> NoClient] /\ closing = [p \in Procs |-> NoClient]

\* Clients nobody knows any more are told apart no longer.
Known ==
  {cached[a] : a \in Addrs} \union {got[p] : p \in Procs}
    \union {closing[p] : p \in Procs} \union open

FreshClient == CHOOSE c \in Clients \ Known : TRUE

-----------------------------------------------------------------------------
(* Get *)

GetCached(p) ==
  /\ at[p] = "get" /\ cached[addr[p]] # NoClient
  /\ got' = [got EXCEPT ![p] = cached[addr[p]]]
  /\ at' = [at EXCEPT ![p] = "got"]
  /\ UNCHANGED <<cached, inflight, evicted, closed, open, addr, closing>>

GetFromClosed(p) ==
  /\ at[p] = "get" /\ cached[addr[p]] = NoClient /\ closed
  /\ got' = [got EXCEPT ![p] = NoClient]
  /\ at' = [at EXCEPT ![p] = "got"]
  /\ UNCHANGED <<cached, inflight, evicted, closed, open, addr, closing>>

JoinCreation(p) ==
  /\ at[p] = "get" /\ cached[addr[p]] = NoClient /\ ~closed
  /\ addr[p] \in inflight
  /\ at' = [at EXCEPT ![p] = "wait"]
  /\ UNCHANGED <<cached, inflight, evicted, closed, open, addr, got, closing>>

BeginCreation(p) ==
  /\ at[p] = "get" /\ cached[addr[p]] = NoClient /\ ~closed
  /\ addr[p] \notin inflight
  /\ inflight' = inflight \union {addr[p]}
  /\ at' = [at EXCEPT ![p] = "dial"]
  /\ UNCHANGED <<cached, evicted, closed, open, addr, got, closing>>

\* The processes the end of p's creation lets go on: p and those that wait for it.
Served(p) == {p} \union {q \in Procs : at[q] = "wait" /\ addr[q] = addr[p]}

\* Mutant of Unwanted: a cache that was closed during the dial still takes the client.
UnwantedIfEvicted(a) == a \in evicted
Unwanted(a) == closed \/ a \in evicted

\* The client is there.  It is cached unless it was evicted or the cache closed
\* meanwhile; then p has to close it, and no one gets it.
Created(p) ==
  /\ at[p] = "dial" /\ Clients \ Known # {}
  /\ LET a == addr[p]
         c == FreshClient
         r == IF Unwanted(a) THEN NoClient ELSE c
     IN /\ cached' = IF Unwanted(a) THEN cached ELSE [cached EXCEPT ![a] = c]
        /\ got' = [q \in Procs |-> IF q \in Served(p) THEN r ELSE got[q]]
        /\ closing' = IF Unwanted(a) THEN [closing EXCEPT ![p] = c] ELSE closing
        /\ at' = [q \in Procs |-> IF q = p /\ Unwanted(a) THEN "discard"
                                  ELSE IF q \in Served(p) THEN "got" ELSE at[q]]
        /\ open' = open \union {c}
        /\ inflight' = inflight \ {a} /\ evicted' = evicted \ {a}
  /\ UNCHANGED <<closed, addr>>

\* Mutant of CreationFails: the waiting processes are not told.
CreationFailsSilently(p) ==
  /\ at[p] = "dial"
  /\ inflight' = inflight \ {addr[p]} /\ evicted' = evicted \ {addr[p]}
  /\ got' = [got EXCEPT ![p] = NoClient]
  /\ at' = [at EXCEPT ![p] = "got"]
  /\ UNCHANGED <<cached, closed, open, addr, closing>>

CreationFails(p) ==
  /\ at[p] = "dial"
  /\ inflight' = inflight \ {addr[p]} /\ evicted' = evicted \ {addr[p]}
  /\ got' = [q \in Procs |-> IF q \in Served(p) THEN NoClient ELSE got[q]]
  /\ at' = [q \in Procs |-> IF q \in Served(p) THEN "got" ELSE at[q]]
  /\ UNCHANGED <<cached, closed, open, addr, closing>>

\* A request's context ends while it waits; the manager waits on the background one.
GiveUp(p) ==
  /\ p \in Callers /\ at[p] = "wait"
  /\ got' = [got EXCEPT ![p] = NoClient]
  /\ at' = [at EXCEPT ![p] = "got"]
  /\ UNCHANGED <<cached, inflight, evicted, closed, open, addr, closing>>

Discard(p) ==
  /\ at[p] = "discard"
  /\ open' = open \ {closing[p]}
  /\ closing' = [closing EXCEPT ![p] = NoClient]
  /\ at' = [at EXCEPT ![p] = "got"]
  /\ UNCHANGED <<cached, inflight, evicted, closed, addr, got>>

Get(p) ==
  \/ GetCached(p) \/ GetFromClosed(p) \/ JoinCreation(p) \/ BeginCreation(p)
  \/ Created(p) \/ CreationFails(p) \/ GiveUp(p) \/ Discard(p)

-----------------------------------------------------------------------------
(* Evict and Close *)

\* The entry goes, or the creation is marked; p then closes what was cached and
\* goes on at "next".
Evict(p, next) ==
  LET a == addr[p] IN
  /\ cached' = [cached EXCEPT ![a] = NoClient]
  /\ closing' = [closing EXCEPT ![p] = cached[a]]
  /\ evicted' = IF cached[a] = NoClient /\ a \in inflight
                  THEN evicted \union {a} ELSE evicted
  /\ at' = [at EXCEPT ![p] = IF cached[a] = NoClient THEN next ELSE "close"]
  /\ UNCHANGED <<inflight, closed, open, addr, got>>

CloseEvicted(p, next) ==
  /\ at[p] = "close"
  /\ open' = open \ {closing[p]}
  /\ closing' = [closing EXCEPT ![p] = NoClient]
  /\ at' = [at EXCEPT ![p] = next]
  /\ UNCHANGED <<cached, inflight, evicted, closed, addr, got>>

CloseCache ==
  /\ ~closed /\ closed' = TRUE
  /\ open' = open \ {cached[a] : a \in Addrs}
  /\ cached' = [a \in Addrs |-> NoClient]
  /\ UNCHANGED <<inflight, evicted, at, addr, got, closing>>
=============================================================================

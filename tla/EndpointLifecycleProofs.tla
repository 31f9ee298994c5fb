---------------------- MODULE EndpointLifecycleProofs ----------------------
(***************************************************************************)
(* What the endpoint cache and its lifecycle manager keep, for any number  *)
(* of addresses and requests: no client leaks, a managed address is        *)
(* served, and failures are held against the client that caused them.      *)
(***************************************************************************)
EXTENDS EndpointLifecycle, TLAPS

GetPlaces == {"get", "wait", "dial", "discard", "got"}
RunPlaces == GetPlaces \union {"select", "next", "probe", "drop", "evict", "close", "done"}
CallerPlaces == GetPlaces \union {"idle", "traffic", "recheck", "rearm", "recreate"}

ClientOrNone == Clients \union {NoClient}

CacheTypeOK ==
  /\ cached \in [Addrs -> ClientOrNone]
  /\ inflight \subseteq Addrs /\ evicted \subseteq Addrs /\ closed \in BOOLEAN
  /\ open \subseteq Clients
  /\ at \in [Procs -> RunPlaces \union CallerPlaces]
  /\ at[Run] \in RunPlaces /\ \A p \in Callers : at[p] \in CallerPlaces
  /\ addr \in [Procs -> Addrs]
  /\ got \in [Procs -> ClientOrNone] /\ closing \in [Procs -> ClientOrNone]

ManagerTypeOK ==
  /\ managed \subseteq Addrs /\ needs \subseteq Addrs
  /\ failures \in [Addrs -> Nat]
  /\ stopped \in BOOLEAN /\ work \in BOOLEAN
  /\ job \in {"work", "tick", "probe", "idle"} /\ list \subseteq Addrs

\* One process at most dials for an address, and only while no client is cached
\* for it: what it puts there displaces nothing.
OneDials ==
  \A p \in Procs : at[p] = "dial" =>
    /\ addr[p] \in inflight
    /\ cached[addr[p]] = NoClient
    /\ \A q \in Procs : at[q] = "dial" /\ addr[q] = addr[p] => q = p

\* A process is about to close a client exactly at these two places, and that
\* client is neither cached nor another's to close.
ClosersApart ==
  /\ \A p \in Procs : closing[p] # NoClient <=> at[p] \in {"discard", "close"}
  /\ \A p, q \in Procs : closing[p] = closing[q] => p = q \/ closing[p] = NoClient
  /\ \A p \in Procs, a \in Addrs : closing[p] = cached[a] => cached[a] = NoClient

\* The cache is closed after the goroutine has ended, and that after the stop.
ClosedAfterStop ==
  /\ closed => at[Run] = "done"
  /\ at[Run] = "done" => stopped
  /\ stopped => managed = {}

CacheInv == CacheTypeOK /\ OneDials /\ ClosersApart /\ NoClientLeaks

\* What the goroutine got is still cached: nobody else evicts.  It got nothing if it has
\* to discard what it made.  What it is about to evict, if managed again, is asked for
\* again and counts no failures.
GoroutineKnows ==
  /\ at[Run] = "discard" => got[Run] = NoClient
  /\ at[Run] = "got" /\ got[Run] # NoClient => cached[addr[Run]] # NoClient
  /\ at[Run] = "evict" /\ addr[Run] \in managed =>
       addr[Run] \in needs /\ failures[addr[Run]] = 0

\* The inductive invariant.
IInv ==
  /\ CacheInv /\ ManagerTypeOK /\ ClosedAfterStop
  /\ GoroutineKnows /\ ManagedIsServed /\ FailuresAreOfThisClient

-----------------------------------------------------------------------------
(* The cache *)

\* The client a process has made is new to everybody.
LEMMA FreshIsNew ==
  ASSUME Clients \ Known # {}
  PROVE  FreshClient \in Clients /\ FreshClient \notin Known
BY DEF FreshClient

\* A process that goes from one place to another, without a dial or a client to close
\* at either, disturbs nothing in the cache.
LEMMA MovesKeepCache ==
  ASSUME CacheInv, ClientsStay, NEW p \in Procs, NEW place,
         at[p] \notin {"dial", "discard", "close"},
         place \notin {"dial", "discard", "close"},
         IF p = Run THEN place \in RunPlaces ELSE place \in CallerPlaces,
         at' = [at EXCEPT ![p] = place],
         addr' \in [Procs -> Addrs], \A q \in Procs \ {p} : addr'[q] = addr[q],
         got' \in [Procs -> ClientOrNone]
  PROVE  CacheInv'
<1> USE DEF ClientsStay
<1>1. CacheTypeOK'
  BY LifecycleAssumption DEF CacheInv, CacheTypeOK, Procs
<1>2. OneDials'
  BY DEF CacheInv, CacheTypeOK, OneDials
<1>3. ClosersApart'
  BY DEF CacheInv, CacheTypeOK, ClosersApart
<1>4. NoClientLeaks'
  BY DEF CacheInv, NoClientLeaks
<1> QED BY <1>1, <1>2, <1>3, <1>4 DEF CacheInv

LEMMA BeginCreationKeepsCache ==
  ASSUME CacheInv, NEW p \in Procs, BeginCreation(p)
  PROVE  CacheInv'
<1> USE DEF BeginCreation
<1>1. CacheTypeOK'
  BY LifecycleAssumption DEF CacheInv, CacheTypeOK, Procs, RunPlaces, CallerPlaces, GetPlaces
<1>2. OneDials'
  BY DEF CacheInv, CacheTypeOK, OneDials
<1>3. ClosersApart'
  BY DEF CacheInv, CacheTypeOK, ClosersApart
<1>4. NoClientLeaks'
  BY DEF CacheInv, NoClientLeaks
<1> QED BY <1>1, <1>2, <1>3, <1>4 DEF CacheInv

LEMMA CreationFailsKeepsCache ==
  ASSUME CacheInv, NEW p \in Procs, CreationFails(p)
  PROVE  CacheInv'
<1> USE DEF CreationFails
<1>1. CacheTypeOK'
  BY LifecycleAssumption
     DEF CacheInv, CacheTypeOK, Procs, RunPlaces, CallerPlaces, GetPlaces, ClientOrNone
<1>2. OneDials'
  BY DEF CacheInv, CacheTypeOK, OneDials, Served
<1>3. ClosersApart'
  BY DEF CacheInv, CacheTypeOK, ClosersApart, Served
<1>4. NoClientLeaks'
  BY DEF CacheInv, NoClientLeaks
<1> QED BY <1>1, <1>2, <1>3, <1>4 DEF CacheInv

\* The new client is cached, or p is about to close it.
LEMMA CreatedKeepsCache ==
  ASSUME CacheInv, NEW p \in Procs, Created(p)
  PROVE  CacheInv'
<1> DEFINE a == addr[p]
           c == FreshClient
<1>1. /\ c \in Clients /\ c # NoClient /\ c \notin open
      /\ \A b \in Addrs : cached[b] # c
      /\ \A q \in Procs : closing[q] # c
  BY FreshIsNew, ClientAssumption DEF Created, Known, Clients, NoClient
<1>2. a \in Addrs /\ at[p] = "dial" /\ cached[a] = NoClient /\ closing[p] = NoClient
  BY DEF Created, CacheInv, CacheTypeOK, OneDials, ClosersApart
<1>3. CacheTypeOK'
  <2>1. at' \in [Procs -> RunPlaces \union CallerPlaces]
    BY DEF CacheInv, CacheTypeOK, Created, RunPlaces, CallerPlaces, GetPlaces
  <2>2. at'[Run] \in RunPlaces /\ \A q \in Callers : at'[q] \in CallerPlaces
    BY LifecycleAssumption
       DEF CacheInv, CacheTypeOK, Created, RunPlaces, CallerPlaces, GetPlaces, Procs
  <2>3. /\ cached' \in [Addrs -> ClientOrNone]
        /\ got' \in [Procs -> ClientOrNone] /\ closing' \in [Procs -> ClientOrNone]
        /\ open' \subseteq Clients
    BY <1>1 DEF CacheInv, CacheTypeOK, Created, ClientOrNone
  <2> QED BY <2>1, <2>2, <2>3 DEF CacheInv, CacheTypeOK, Created
<1>4. CASE Unwanted(a)
  <2>1. cached' = cached /\ closing' = [closing EXCEPT ![p] = c]
        /\ open' = open \union {c}
        /\ at' = [q \in Procs |-> IF q = p THEN "discard"
                                  ELSE IF q \in Served(p) THEN "got" ELSE at[q]]
        /\ inflight' = inflight \ {a} /\ addr' = addr /\ closed' = closed
    BY <1>4 DEF Created
  <2>2. OneDials'
    BY <1>2, <2>1 DEF CacheInv, CacheTypeOK, OneDials, Served
  <2>3. ClosersApart'
    BY <1>1, <1>2, <2>1 DEF CacheInv, CacheTypeOK, ClosersApart, Served
  <2>4. NoClientLeaks'
    BY <1>1, <1>2, <2>1 DEF CacheInv, CacheTypeOK, NoClientLeaks
  <2> QED BY <1>3, <2>2, <2>3, <2>4 DEF CacheInv
<1>5. CASE ~Unwanted(a)
  <2>1. cached' = [cached EXCEPT ![a] = c] /\ closing' = closing
        /\ open' = open \union {c}
        /\ at' = [q \in Procs |-> IF q \in Served(p) THEN "got" ELSE at[q]]
        /\ inflight' = inflight \ {a} /\ addr' = addr /\ closed' = closed /\ ~closed
    BY <1>5 DEF Created, Unwanted
  <2>2. OneDials'
    BY <1>2, <2>1 DEF CacheInv, CacheTypeOK, OneDials, Served
  <2>3. ClosersApart'
    BY <1>1, <1>2, <2>1 DEF CacheInv, CacheTypeOK, ClosersApart, Served
  <2>4. NoClientLeaks'
    BY <1>1, <1>2, <2>1 DEF CacheInv, CacheTypeOK, NoClientLeaks
  <2> QED BY <1>3, <2>2, <2>3, <2>4 DEF CacheInv
<1> QED BY <1>4, <1>5

\* A process closes the client it holds and goes on.
LEMMA ClosingKeepsCache ==
  ASSUME CacheInv, NEW p \in Procs, Discard(p) \/ (p = Run /\ CloseEvicted(p, "next"))
  PROVE  CacheInv'
<1>1. PICK place \in {"got", "next"} :
        /\ at' = [at EXCEPT ![p] = place]
        /\ place = "next" => p = Run
        /\ at[p] \in {"discard", "close"}
        /\ open' = open \ {closing[p]}
        /\ closing' = [closing EXCEPT ![p] = NoClient]
        /\ UNCHANGED <<cached, inflight, evicted, closed, addr, got>>
  BY DEF Discard, CloseEvicted
<1>2. CacheTypeOK'
  BY <1>1, LifecycleAssumption
     DEF CacheInv, CacheTypeOK, Procs, RunPlaces, CallerPlaces, GetPlaces, ClientOrNone
<1>3. OneDials'
  BY <1>1 DEF CacheInv, CacheTypeOK, OneDials
<1>4. ClosersApart'
  BY <1>1 DEF CacheInv, CacheTypeOK, ClosersApart
<1>5. NoClientLeaks'
  <2>1. closing[p] # NoClient /\ \A b \in Addrs : cached[b] # closing[p]
    BY <1>1 DEF CacheInv, CacheTypeOK, ClosersApart
  <2>2. \A q \in Procs : closing'[q] = IF q = p THEN NoClient ELSE closing[q]
    BY <1>1 DEF CacheInv, CacheTypeOK
  <2>3. \A q \in Procs : q # p => closing[q] # closing[p]
    BY <2>1 DEF CacheInv, ClosersApart
  <2> QED BY <1>1, <2>1, <2>2, <2>3 DEF CacheInv, NoClientLeaks
<1> QED BY <1>2, <1>3, <1>4, <1>5 DEF CacheInv

LEMMA EvictKeepsCache ==
  ASSUME CacheInv, EvictClient
  PROVE  CacheInv'
<1> USE DEF EvictClient, Evict
<1>1. CacheTypeOK'
  BY LifecycleAssumption
     DEF CacheInv, CacheTypeOK, Procs, RunPlaces, CallerPlaces, GetPlaces, ClientOrNone
<1>2. closing[Run] = NoClient /\ Run \in Procs /\ addr[Run] \in Addrs
  BY DEF CacheInv, CacheTypeOK, ClosersApart, Procs
<1>3. OneDials'
  BY <1>2 DEF CacheInv, CacheTypeOK, OneDials
<1>4. ClosersApart'
  BY <1>2 DEF CacheInv, CacheTypeOK, ClosersApart, NoClientLeaks
<1>5. NoClientLeaks'
  <2>1. /\ \A b \in Addrs : cached'[b] = IF b = addr[Run] THEN NoClient ELSE cached[b]
        /\ \A q \in Procs : closing'[q] = IF q = Run THEN cached[addr[Run]] ELSE closing[q]
    BY DEF CacheInv, CacheTypeOK
  <2> QED BY <1>2, <2>1 DEF CacheInv, NoClientLeaks
<1> QED BY <1>1, <1>3, <1>4, <1>5 DEF CacheInv

\* When the cache is closed nothing of it is left but clients others will close.
LEMMA CloseCacheKeepsCache ==
  ASSUME CacheInv, CloseCache
  PROVE  CacheInv'
<1> USE DEF CloseCache
<1>1. CacheTypeOK'
  BY DEF CacheInv, CacheTypeOK, ClientOrNone
<1>2. OneDials'
  BY DEF CacheInv, CacheTypeOK, OneDials
<1>3. ClosersApart'
  BY DEF CacheInv, CacheTypeOK, ClosersApart
<1>4. NoClientLeaks'
  BY DEF CacheInv, CacheTypeOK, NoClientLeaks, ClosersApart
<1> QED BY <1>1, <1>2, <1>3, <1>4 DEF CacheInv

LEMMA GetKeepsCache ==
  ASSUME CacheInv, NEW p \in Procs, Get(p)
  PROVE  CacheInv'
<1>1. CASE GetCached(p) \/ GetFromClosed(p) \/ JoinCreation(p) \/ GiveUp(p)
  <2>1. PICK place \in {"got", "wait"} :
          /\ at[p] \in {"get", "wait"}
          /\ at' = [at EXCEPT ![p] = place]
          /\ ClientsStay /\ addr' = addr
          /\ got' \in [Procs -> ClientOrNone]
    BY <1>1 DEF GetCached, GetFromClosed, JoinCreation, GiveUp, ClientsStay,
                CacheInv, CacheTypeOK, ClientOrNone
  <2> QED BY <2>1, MovesKeepCache DEF RunPlaces, CallerPlaces, GetPlaces, CacheInv, CacheTypeOK
<1> QED
  BY <1>1, BeginCreationKeepsCache, CreatedKeepsCache, CreationFailsKeepsCache,
     ClosingKeepsCache DEF Get

-----------------------------------------------------------------------------
(* The manager *)

\* What a call of Get by anybody does to the goroutine: it stays where it was or moves
\* on within Get, no cached client goes, and what it is given is cached.
LEMMA GetAndTheGoroutine ==
  ASSUME CacheInv, GoroutineKnows, NEW p \in Procs, Get(p)
  PROVE  /\ addr' = addr /\ closed' = closed
         /\ \A a \in Addrs : cached[a] # NoClient => cached'[a] # NoClient
         /\ at[Run] \in GetPlaces => at'[Run] \in GetPlaces
         /\ at[Run] \notin GetPlaces => at'[Run] = at[Run]
         /\ at'[Run] = "discard" => got'[Run] = NoClient
         /\ at'[Run] = "got" /\ got'[Run] # NoClient => cached'[addr[Run]] # NoClient
<1>0. Run \in Procs /\ addr[Run] \in Addrs /\ addr[p] \in Addrs
  BY DEF CacheInv, CacheTypeOK, Procs
<1>1. CASE GetCached(p) \/ GetFromClosed(p) \/ JoinCreation(p) \/ BeginCreation(p)
           \/ CreationFails(p) \/ GiveUp(p) \/ Discard(p)
  BY <1>0, <1>1, LifecycleAssumption
     DEF GetCached, GetFromClosed, JoinCreation, BeginCreation, CreationFails, GiveUp, Discard,
         Served, CacheInv, CacheTypeOK, GoroutineKnows, GetPlaces
<1>2. CASE Created(p)
  <2>1. FreshClient # NoClient
    BY <1>2, FreshIsNew, ClientAssumption DEF Created, Clients, NoClient
  <2> QED BY <1>0, <1>2, <2>1
          DEF Created, Served, CacheInv, CacheTypeOK, GoroutineKnows, GetPlaces
<1> QED BY <1>1, <1>2 DEF Get

LEMMA GetKeepsInv ==
  ASSUME IInv, NEW p \in Procs, Get(p), UNCHANGED lifeVars
  PROVE  IInv'
<1>1. CacheInv'
  BY GetKeepsCache DEF IInv
<1>2. ManagerTypeOK'
  BY DEF IInv, ManagerTypeOK, lifeVars
<1>3. /\ addr' = addr /\ closed' = closed
      /\ \A a \in Addrs : cached[a] # NoClient => cached'[a] # NoClient
      /\ at[Run] \in GetPlaces => at'[Run] \in GetPlaces
      /\ at[Run] \notin GetPlaces => at'[Run] = at[Run]
      /\ at'[Run] = "discard" => got'[Run] = NoClient
      /\ at'[Run] = "got" /\ got'[Run] # NoClient => cached'[addr[Run]] # NoClient
  BY GetAndTheGoroutine DEF IInv
<1>4. ClosedAfterStop'
  BY <1>3 DEF IInv, ClosedAfterStop, lifeVars, GetPlaces
<1>5. GoroutineKnows'
  BY <1>3 DEF IInv, GoroutineKnows, lifeVars, GetPlaces
<1>6. ManagedIsServed'
  BY <1>3 DEF IInv, ManagedIsServed, OnList, lifeVars, GetPlaces, ManagerTypeOK
<1>7. FailuresAreOfThisClient'
  BY <1>3 DEF IInv, FailuresAreOfThisClient, lifeVars, ManagerTypeOK
<1> QED BY <1>1, <1>2, <1>4, <1>5, <1>6, <1>7 DEF IInv

\* The steps of a request outside of Get: it moves, and may note an address, whose entry,
\* if new, is marked and starts without failures.
LEMMA RequestKeepsInv ==
  ASSUME IInv, NEW p \in Callers,
         \/ \E a \in Addrs : Route(p, a)
         \/ RouteByAffinity(p) \/ FindHealthy(p) \/ FindUnhealthy(p)
         \/ RequestEndpointRecreation(p) \/ RecordRealTraffic(p)
         \/ RecheckPresent(p) \/ Rearm(p)
  PROVE  IInv'
<1>0. p \in Procs /\ p # Run /\ Run \in Procs
  BY LifecycleAssumption DEF Procs
<1>1. PICK place \in {"get", "got", "idle", "traffic", "recheck", "rearm", "recreate"} :
        /\ at[p] \in {"idle", "got", "traffic", "recheck", "rearm", "recreate"}
        /\ at' = [at EXCEPT ![p] = place]
        /\ ClientsStay
        /\ addr' \in [Procs -> Addrs] /\ \A q \in Procs \ {p} : addr'[q] = addr[q]
        /\ got' \in [Procs -> ClientOrNone] /\ got'[Run] = got[Run]
  BY <1>0 DEF Route, RouteByAffinity, FindHealthy, FindUnhealthy, RequestEndpointRecreation,
     RecordRealTraffic, RecheckPresent, Rearm, Goto, ClientsStay, IInv, CacheInv, CacheTypeOK,
     ClientOrNone
<1>2. CacheInv'
  BY <1>0, <1>1, MovesKeepCache DEF IInv, CallerPlaces, GetPlaces
<1>3. /\ UNCHANGED <<stopped, job, list>> /\ work' \in BOOLEAN
      /\ managed \subseteq managed' /\ managed' \subseteq Addrs
      /\ needs \subseteq needs' /\ needs' \subseteq Addrs
      /\ \A a \in managed' \ managed : a \in needs' /\ failures'[a] = 0 /\ ~stopped
      /\ failures' \in [Addrs -> Nat] /\ \A a \in managed : failures'[a] = failures[a]
  <2>0. addr[p] \in Addrs /\ ManagerTypeOK /\ ClosedAfterStop
    BY <1>0 DEF IInv, CacheInv, CacheTypeOK
  <2>1. CASE UNCHANGED lifeVars
    BY <2>0, <2>1 DEF lifeVars, ManagerTypeOK
  <2>2. CASE /\ ~stopped /\ UNCHANGED <<stopped, job, list>>
             /\ Manage(addr[p]) /\ AskForClient(addr[p])
    BY <2>0, <2>2 DEF Manage, AskForClient, ManagerTypeOK
  <2>3. CASE Rearm(p)
    BY <2>0, <2>3 DEF Rearm, ManagerTypeOK
  <2> QED BY <2>1, <2>2, <2>3
          DEF Route, RouteByAffinity, FindHealthy, FindUnhealthy, RequestEndpointRecreation,
              RecordRealTraffic, RecheckPresent, lifeVars
<1>4. ManagerTypeOK'
  BY <1>3 DEF IInv, ManagerTypeOK
<1>5. at'[Run] = at[Run] /\ addr'[Run] = addr[Run] /\ UNCHANGED <<cached, closed>>
  BY <1>0, <1>1 DEF IInv, CacheInv, CacheTypeOK, ClientsStay
<1>6. ClosedAfterStop'
  BY <1>3, <1>5 DEF IInv, ClosedAfterStop
<1>7. GoroutineKnows'
  BY <1>1, <1>3, <1>5 DEF IInv, GoroutineKnows
<1>8. ManagedIsServed'
  BY <1>3, <1>5 DEF IInv, ManagedIsServed, OnList
<1>9. FailuresAreOfThisClient'
  BY <1>3, <1>5 DEF IInv, FailuresAreOfThisClient
<1> QED BY <1>2, <1>4, <1>6, <1>7, <1>8, <1>9 DEF IInv

-----------------------------------------------------------------------------
(* The goroutine *)

\* The steps in which it only moves, and takes, notes or forgets addresses.
LEMMA GoroutineMovesKeepCache ==
  ASSUME IInv, NEW place \in RunPlaces, Goto(Run, place), ClientsStay,
         at[Run] \notin {"dial", "discard", "close"},
         place \notin {"dial", "discard", "close"},
         addr' \in [Procs -> Addrs], \A q \in Procs \ {Run} : addr'[q] = addr[q],
         got' \in [Procs -> ClientOrNone]
  PROVE  CacheInv' /\ at'[Run] = place /\ cached' = cached /\ closed' = closed
<1>1. Run \in Procs
  BY DEF Procs
<1>2. at' = [at EXCEPT ![Run] = place] /\ CacheInv
  BY DEF Goto, IInv
<1>3. CacheInv'
  BY <1>1, <1>2, MovesKeepCache
<1> QED BY <1>1, <1>2, <1>3 DEF CacheInv, CacheTypeOK, ClientsStay

LEMMA CollectKeepsInv ==
  ASSUME IInv, NEW j \in {"work", "tick"}, Collect(j)
  PROVE  IInv'
<1>1. CacheInv' /\ at'[Run] = "next" /\ cached' = cached /\ closed' = closed
  BY GoroutineMovesKeepCache
     DEF Collect, RunStays, IInv, CacheInv, CacheTypeOK, RunPlaces, GetPlaces
<1>2. ManagerTypeOK'
  BY DEF Collect, IInv, ManagerTypeOK
<1>3. ClosedAfterStop' /\ GoroutineKnows' /\ FailuresAreOfThisClient'
  BY <1>1 DEF Collect, IInv, ClosedAfterStop, GoroutineKnows, FailuresAreOfThisClient
<1>4. ManagedIsServed'
  BY <1>1 DEF Collect, IInv, ManagedIsServed, OnList
<1> QED BY <1>1, <1>2, <1>3, <1>4 DEF IInv

LEMMA SelectKeepsInv ==
  ASSUME IInv, ReturnOnStop \/ \E S \in SUBSET managed : FindIdle(S)
  PROVE  IInv'
<1>1. PICK place \in {"next", "done"} :
        /\ at[Run] = "select" /\ Goto(Run, place) /\ RunStays
        /\ place = "done" => stopped
        /\ UNCHANGED <<managed, needs, failures, stopped, work>>
        /\ job' \in {job, "idle"} /\ list' \subseteq Addrs
  BY DEF ReturnOnStop, FindIdle, lifeVars, IInv, ManagerTypeOK
<1>2. CacheInv' /\ at'[Run] = place /\ cached' = cached /\ closed' = closed
  BY <1>1, GoroutineMovesKeepCache
     DEF RunStays, IInv, CacheInv, CacheTypeOK, RunPlaces, GetPlaces
<1>3. ManagerTypeOK'
  BY <1>1 DEF IInv, ManagerTypeOK
<1>4. ClosedAfterStop' /\ GoroutineKnows' /\ FailuresAreOfThisClient'
  BY <1>1, <1>2 DEF IInv, ClosedAfterStop, GoroutineKnows, FailuresAreOfThisClient
<1>5. ManagedIsServed'
  BY <1>1, <1>2 DEF IInv, ManagedIsServed, OnList
<1> QED BY <1>2, <1>3, <1>4, <1>5 DEF IInv

LEMMA ListDoneKeepsInv ==
  ASSUME IInv, ListDone
  PROVE  IInv'
<1>1. PICK place \in {"next", "select"} : Goto(Run, place)
  BY DEF ListDone, Goto, IInv, CacheInv, CacheTypeOK
<1>2. CacheInv' /\ at'[Run] = place /\ cached' = cached /\ closed' = closed
  BY <1>1, GoroutineMovesKeepCache
     DEF ListDone, RunStays, IInv, CacheInv, CacheTypeOK, RunPlaces, GetPlaces
<1>3. ManagerTypeOK'
  BY DEF ListDone, IInv, ManagerTypeOK
<1>4. ClosedAfterStop' /\ GoroutineKnows' /\ FailuresAreOfThisClient'
  BY <1>2 DEF ListDone, IInv, ClosedAfterStop, GoroutineKnows, FailuresAreOfThisClient
<1>5. ManagedIsServed'
  BY <1>2 DEF ListDone, IInv, ManagedIsServed, OnList
<1> QED BY <1>2, <1>3, <1>4, <1>5 DEF IInv

LEMMA TakeNextKeepsInv ==
  ASSUME IInv, NEW a \in list, TakeNext(a)
  PROVE  IInv'
<1>0. a \in Addrs /\ Run \in Procs
  BY DEF IInv, ManagerTypeOK, Procs
<1>1. PICK place \in {"probe", "drop", "get"} :
        /\ Goto(Run, place)
        /\ job \in {"work", "tick"} => place = "get"
  BY DEF TakeNext
<1>2. addr' \in [Procs -> Addrs] /\ addr'[Run] = a /\ \A q \in Procs \ {Run} : addr'[q] = addr[q]
  BY <1>0 DEF TakeNext, IInv, CacheInv, CacheTypeOK
<1>3. CacheInv' /\ at'[Run] = place /\ cached' = cached /\ closed' = closed
  BY <1>1, <1>2, GoroutineMovesKeepCache
     DEF TakeNext, IInv, CacheInv, CacheTypeOK, RunPlaces, GetPlaces
<1>4. ManagerTypeOK'
  BY DEF TakeNext, IInv, ManagerTypeOK
<1>5. ClosedAfterStop' /\ GoroutineKnows' /\ FailuresAreOfThisClient'
  BY <1>3 DEF TakeNext, IInv, ClosedAfterStop, GoroutineKnows, FailuresAreOfThisClient
<1>6. ManagedIsServed'
  BY <1>1, <1>2, <1>3 DEF TakeNext, IInv, ManagedIsServed, OnList
<1> QED BY <1>3, <1>4, <1>5, <1>6 DEF IInv

\* An address without an answer is marked again, one with an answer is cached; a client
\* whose address is no longer managed is evicted.
LEMMA SettleKeepsInv ==
  ASSUME IInv, Settle
  PROVE  IInv'
<1>1. PICK place \in {"next", "evict"} :
        /\ Goto(Run, place)
        /\ place = "evict" => addr[Run] \notin managed
  BY DEF Settle
<1>2. got' \in [Procs -> ClientOrNone] /\ addr' = addr
  BY DEF Settle, IInv, CacheInv, CacheTypeOK, ClientOrNone
<1>3. CacheInv' /\ at'[Run] = place /\ cached' = cached /\ closed' = closed
  BY <1>1, <1>2, GoroutineMovesKeepCache
     DEF Settle, IInv, CacheInv, CacheTypeOK, RunPlaces, GetPlaces
<1>4. ManagerTypeOK'
  BY DEF Settle, IInv, ManagerTypeOK
<1>5. ClosedAfterStop' /\ GoroutineKnows' /\ FailuresAreOfThisClient'
  BY <1>1, <1>3 DEF Settle, IInv, ClosedAfterStop, GoroutineKnows, FailuresAreOfThisClient
<1>6. ManagedIsServed'
  BY <1>3 DEF Settle, IInv, ManagedIsServed, OnList, GoroutineKnows
<1> QED BY <1>3, <1>4, <1>5, <1>6 DEF IInv

\* Failures are only counted of an address that has its client.
LEMMA ProbeKeepsInv ==
  ASSUME IInv, NEW s \in {"quiet", "failing"}, Probe(s)
  PROVE  IInv'
<1>0. Run \in Procs /\ addr[Run] \in Addrs
  BY DEF IInv, CacheInv, CacheTypeOK, Procs
<1>1. PICK place \in {"next", "drop"} : Goto(Run, place)
  BY DEF Probe
<1>2. /\ at[Run] = "probe" /\ RunStays /\ UNCHANGED <<managed, needs, stopped, work, job, list>>
      /\ failures' \in [Addrs -> Nat]
      /\ \A a \in Addrs : failures'[a] # failures[a] => cached[a] # NoClient
  BY <1>0 DEF Probe, IInv, ManagerTypeOK
<1>3. CacheInv' /\ at'[Run] = place /\ cached' = cached /\ closed' = closed
  BY <1>1, <1>2, GoroutineMovesKeepCache
     DEF RunStays, IInv, CacheInv, CacheTypeOK, RunPlaces, GetPlaces
<1>4. ManagerTypeOK'
  BY <1>2 DEF IInv, ManagerTypeOK
<1>5. ClosedAfterStop' /\ GoroutineKnows'
  BY <1>2, <1>3 DEF IInv, ClosedAfterStop, GoroutineKnows
<1>6. FailuresAreOfThisClient'
  BY <1>2, <1>3 DEF IInv, FailuresAreOfThisClient, ManagerTypeOK
<1>7. ManagedIsServed'
  BY <1>2, <1>3 DEF IInv, ManagedIsServed, OnList, GetPlaces
<1> QED BY <1>3, <1>4, <1>5, <1>6, <1>7 DEF IInv

LEMMA DropKeepsInv ==
  ASSUME IInv, Drop
  PROVE  IInv'
<1>1. PICK place \in {"next", "evict"} : Goto(Run, place)
  BY DEF Drop
<1>2. CacheInv' /\ at'[Run] = place /\ cached' = cached /\ closed' = closed
  BY <1>1, GoroutineMovesKeepCache
     DEF Drop, RunStays, IInv, CacheInv, CacheTypeOK, RunPlaces, GetPlaces
<1>3. ManagerTypeOK'
  BY DEF Drop, IInv, ManagerTypeOK
<1>4. ClosedAfterStop' /\ GoroutineKnows' /\ FailuresAreOfThisClient'
  BY <1>2 DEF Drop, RunStays, IInv, ClosedAfterStop, GoroutineKnows, FailuresAreOfThisClient
<1>5. ManagedIsServed'
  BY <1>2 DEF Drop, RunStays, IInv, ManagedIsServed, OnList, GetPlaces
<1> QED BY <1>2, <1>3, <1>4, <1>5 DEF IInv

\* The client of an address goes: if the address is managed again by now, it is marked
\* and counts no failures.
LEMMA EvictKeepsInv ==
  ASSUME IInv, EvictClient
  PROVE  IInv'
<1>0. Run \in Procs /\ addr[Run] \in Addrs
  BY DEF IInv, CacheInv, CacheTypeOK, Procs
<1>1. CacheInv'
  BY EvictKeepsCache DEF IInv
<1>2. /\ at'[Run] \in {"next", "close"} /\ UNCHANGED <<addr, got, closed, lifeVars>>
      /\ \A a \in Addrs \ {addr[Run]} : cached'[a] = cached[a]
  BY <1>0 DEF EvictClient, Evict, IInv, CacheInv, CacheTypeOK
<1>3. ManagerTypeOK'
  BY <1>2 DEF IInv, ManagerTypeOK, lifeVars
<1>4. at[Run] = "evict"
  BY DEF EvictClient
<1>5. ClosedAfterStop' /\ GoroutineKnows'
  BY <1>2, <1>4 DEF IInv, ClosedAfterStop, GoroutineKnows, lifeVars
<1>6. FailuresAreOfThisClient'
  BY <1>2, <1>4 DEF IInv, FailuresAreOfThisClient, GoroutineKnows, ManagerTypeOK, lifeVars
<1>7. ManagedIsServed'
  BY <1>2, <1>4 DEF IInv, ManagedIsServed, OnList, GoroutineKnows, ManagerTypeOK, lifeVars
<1> QED BY <1>1, <1>3, <1>5, <1>6, <1>7 DEF IInv

LEMMA RunCloseKeepsInv ==
  ASSUME IInv, RunClose
  PROVE  IInv'
<1>0. Run \in Procs
  BY DEF Procs
<1>1. CacheInv'
  BY <1>0, ClosingKeepsCache DEF RunClose, IInv
<1>2. /\ at[Run] = "close" /\ at'[Run] = "next"
      /\ UNCHANGED <<cached, addr, got, closed, lifeVars>>
  BY <1>0 DEF RunClose, CloseEvicted, IInv, CacheInv, CacheTypeOK
<1>3. ManagerTypeOK'
  BY <1>2 DEF IInv, ManagerTypeOK, lifeVars
<1>4. ClosedAfterStop' /\ GoroutineKnows' /\ FailuresAreOfThisClient'
  BY <1>2 DEF IInv, ClosedAfterStop, GoroutineKnows, FailuresAreOfThisClient, lifeVars
<1>5. ManagedIsServed'
  BY <1>2 DEF IInv, ManagedIsServed, OnList, lifeVars
<1> QED BY <1>1, <1>3, <1>4, <1>5 DEF IInv

-----------------------------------------------------------------------------
(* Close of the router *)

LEMMA ShutdownKeepsInv ==
  ASSUME IInv, Shutdown
  PROVE  IInv'
<1>1. CacheInv'
  BY DEF Shutdown, cacheVars, IInv, CacheInv, CacheTypeOK, OneDials, ClosersApart, NoClientLeaks
<1>2. ManagerTypeOK'
  BY DEF Shutdown, IInv, ManagerTypeOK
<1>3. ClosedAfterStop' /\ GoroutineKnows' /\ FailuresAreOfThisClient' /\ ManagedIsServed'
  BY DEF Shutdown, cacheVars, IInv, ClosedAfterStop, GoroutineKnows,
         FailuresAreOfThisClient, ManagedIsServed
<1> QED BY <1>1, <1>2, <1>3 DEF IInv

LEMMA CloseRouterKeepsInv ==
  ASSUME IInv, CloseRouter
  PROVE  IInv'
<1>1. CacheInv'
  BY CloseCacheKeepsCache DEF CloseRouter, IInv
<1>2. at[Run] = "done" /\ managed = {} /\ UNCHANGED <<at, addr, got, lifeVars>>
  BY DEF CloseRouter, CloseCache, IInv, ClosedAfterStop
<1>3. ManagerTypeOK'
  BY <1>2 DEF IInv, ManagerTypeOK, lifeVars
<1>4. ClosedAfterStop' /\ GoroutineKnows' /\ FailuresAreOfThisClient' /\ ManagedIsServed'
  BY <1>2 DEF IInv, ClosedAfterStop, GoroutineKnows, FailuresAreOfThisClient,
              ManagedIsServed, lifeVars
<1> QED BY <1>1, <1>3, <1>4 DEF IInv

-----------------------------------------------------------------------------
(* Theorems *)

LEMMA InitEstablishesInv == LifecycleInit => IInv
<1> SUFFICES ASSUME LifecycleInit PROVE IInv
  OBVIOUS
<1>1. (CHOOSE a \in Addrs : TRUE) \in Addrs
  BY ClientAssumption
<1>2. CacheInv
  BY <1>1, LifecycleAssumption
     DEF LifecycleInit, CacheInit, CacheInv, CacheTypeOK, OneDials, ClosersApart, NoClientLeaks,
         ClientOrNone, Procs, RunPlaces, CallerPlaces, GetPlaces
<1>3. ManagerTypeOK /\ ClosedAfterStop /\ GoroutineKnows /\ ManagedIsServed
      /\ FailuresAreOfThisClient
  BY LifecycleAssumption
     DEF LifecycleInit, CacheInit, ManagerTypeOK, ClosedAfterStop, GoroutineKnows, ManagedIsServed,
         FailuresAreOfThisClient, Procs
<1> QED BY <1>2, <1>3 DEF IInv

LEMMA StepKeepsInv == IInv /\ [LifecycleNext]_vars => IInv'
<1> SUFFICES ASSUME IInv, [LifecycleNext]_vars PROVE IInv'
  OBVIOUS
<1>0. Run \in Procs /\ Callers \subseteq Procs
  BY DEF Procs
<1>1. CASE RunStep
  BY <1>0, <1>1, CollectKeepsInv, SelectKeepsInv, ListDoneKeepsInv, TakeNextKeepsInv,
     GetKeepsInv, SettleKeepsInv, ProbeKeepsInv, DropKeepsInv, EvictKeepsInv, RunCloseKeepsInv
     DEF RunStep, RunGet
<1>2. CASE Shutdown \/ CloseRouter
  BY <1>2, ShutdownKeepsInv, CloseRouterKeepsInv
<1>3. ASSUME NEW p \in Callers,
             CallerStep(p) \/ RouteByAffinity(p) \/ \E a \in Addrs : Route(p, a)
      PROVE  IInv'
  BY <1>0, <1>3, GetKeepsInv, RequestKeepsInv DEF CallerStep, CallerGet
<1>4. CASE UNCHANGED vars
  BY <1>4 DEF vars, cacheVars, lifeVars, IInv, CacheInv, CacheTypeOK, OneDials, ClosersApart,
     NoClientLeaks, ManagerTypeOK, ClosedAfterStop, GoroutineKnows, ManagedIsServed, OnList,
     FailuresAreOfThisClient
<1> QED BY <1>1, <1>2, <1>3, <1>4 DEF LifecycleNext

THEOREM LifecycleInvariant == LifecycleSpec => []IInv
BY InitEstablishesInv, StepKeepsInv, PTL DEF LifecycleSpec

\* Type correctness of the cache, the manager and the places of all processes, for
\* any addresses, requests and number of clients.
THEOREM LifecycleTypeCorrect == LifecycleSpec => [](CacheTypeOK /\ ManagerTypeOK)
<1>1. IInv => CacheTypeOK /\ ManagerTypeOK
  BY DEF IInv, CacheInv
<1> QED BY <1>1, LifecycleInvariant, PTL

\* However creation, eviction and Close meet, a client that is open is cached or in the
\* hands of the process about to close it.
THEOREM ClientsAreAccountedFor == LifecycleSpec => []NoClientLeaks
<1>1. IInv => NoClientLeaks
  BY DEF IInv, CacheInv
<1> QED BY <1>1, LifecycleInvariant, PTL

\* An address in the manager's map is never forgotten: it has a client, a mark, or is
\* what the goroutine is at.
THEOREM ManagedAddressesAreServed == LifecycleSpec => []ManagedIsServed
<1>1. IInv => ManagedIsServed
  BY DEF IInv
<1> QED BY <1>1, LifecycleInvariant, PTL

\* The failures an entry counts are those of the client it has.
THEOREM FailuresFollowTheClient == LifecycleSpec => []FailuresAreOfThisClient
<1>1. IInv => FailuresAreOfThisClient
  BY DEF IInv
<1> QED BY <1>1, LifecycleInvariant, PTL
=============================================================================

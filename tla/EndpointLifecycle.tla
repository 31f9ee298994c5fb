------------------------- MODULE EndpointLifecycle -------------------------
(***************************************************************************)
(* endpoint_lifecycle_manager.go of the shipped candidate for gcloud-14418 *)
(* together with the cache of clients it manages and the requests that use *)
(* both (shouldSkipForRouting in key_range_cache.go, clientForEndpoint and *)
(* onRequestRouted in location_aware_client.go, Close in                   *)
(* location_router.go).                                                    *)
(*                                                                         *)
(* A request makes or finds a client, looks at its connection more than    *)
(* once, and reports traffic or asks for a new client.  The manager's one  *)
(* goroutine makes the clients asked for, probes the managed ones on a     *)
(* tick, evicts the failing and the idle, and ends when it is stopped.     *)
(* Locks are taken and given up in between, so every section under a lock  *)
(* is a step of its own.  Times are left out: at an eviction tick any of   *)
(* the managed addresses may have been idle for long enough.               *)
(***************************************************************************)
EXTENDS EndpointClientCache

CONSTANT MaxFailures  \* maxTransientFailureProbeCount

ASSUME LifecycleAssumption == MaxFailures \in Nat \ {0} /\ Run \notin Callers

VARIABLES
  managed,   \* endpointLifecycleManager.endpoints
  needs,     \* those with needsCreate
  failures,  \* their consecutiveTransientFailures
  stopped,
  work,      \* workCh holds a signal
  job,       \* what the goroutine is at: "work", "tick", "probe" or "idle"
  list       \* the addresses it has still to go through

lifeVars == <<managed, needs, failures, stopped, work, job, list>>
vars == <<cacheVars, lifeVars>>

LifecycleInit ==
  /\ CacheInit
  /\ at = [p \in Procs |-> IF p = Run THEN "select" ELSE "idle"]
  /\ addr = [p \in Procs |-> CHOOSE a \in Addrs : TRUE]
  /\ managed = {} /\ needs = {} /\ failures = [a \in Addrs |-> 0]
  /\ stopped = FALSE /\ work = FALSE
  /\ job = "idle" /\ list = {}

Goto(p, place) == at' = [at EXCEPT ![p] = place]

ClientsStay == UNCHANGED <<cached, inflight, evicted, closed, open, closing>>

-----------------------------------------------------------------------------
(* Requests *)

\* shouldSkipForRouting, as far as the endpoint it keeps for the tablet: one that
\* is closed, or of another address, is not used again.
Route(p, a) ==
  /\ at[p] = "idle"
  /\ addr' = [addr EXCEPT ![p] = a]
  /\ IF addr[p] = a /\ got[p] \in open
       THEN Goto(p, "got") /\ UNCHANGED got
       ELSE Goto(p, "get") /\ got' = [got EXCEPT ![p] = NoClient]
  /\ ClientsStay /\ UNCHANGED lifeVars

\* affinityEndpoint takes the transaction's endpoint as it is.
RouteByAffinity(p) ==
  /\ at[p] = "idle" /\ got[p] # NoClient
  /\ Goto(p, "got")
  /\ ClientsStay /\ UNCHANGED <<addr, got, lifeVars>>

\* IsHealthy is asked three times, here, in clientForEndpoint and in onRequestRouted,
\* and only an open client can be healthy.  Nothing is written in between, so the
\* three are one step: all of them pass and the traffic is recorded, the first fails
\* and a new client is asked for, or a later one does and the request just goes on.
FindHealthy(p) ==
  /\ at[p] = "got" /\ got[p] \in open
  /\ \E place \in {"traffic", "idle"} : Goto(p, place)
  /\ ClientsStay /\ UNCHANGED <<addr, got, lifeVars>>

FindUnhealthy(p) ==
  /\ at[p] = "got"
  /\ Goto(p, "recreate")
  /\ ClientsStay /\ UNCHANGED <<addr, got, lifeVars>>

\* Mutant of Manage: the entry starts with the failures of the one before it.
ManageAsBefore(a) ==
  /\ managed' = managed \union {a}
  /\ UNCHANGED failures

\* An address that is not managed gets a new entry.
Manage(a) ==
  /\ managed' = managed \union {a}
  /\ failures' = IF a \in managed THEN failures ELSE [failures EXCEPT ![a] = 0]

\* needsCreate under the lock and signalWork after it: the goroutine may at most be
\* woken once more for nothing in between.
AskForClient(a) ==
  /\ needs' = needs \union {a}
  /\ work' = TRUE

\* requestEndpointRecreation
RequestEndpointRecreation(p) ==
  /\ at[p] = "recreate"
  /\ IF stopped THEN UNCHANGED <<managed, failures, needs, work>>
                ELSE Manage(addr[p]) /\ AskForClient(addr[p])
  /\ Goto(p, "idle")
  /\ ClientsStay /\ UNCHANGED <<addr, got, stopped, job, list>>

\* recordRealTraffic, first section.
RecordRealTraffic(p) ==
  /\ at[p] = "traffic"
  /\ IF stopped \/ addr[p] \in managed
       THEN /\ Goto(p, IF stopped THEN "idle" ELSE "recheck")
            /\ UNCHANGED <<managed, failures, needs, work>>
       ELSE Goto(p, "idle") /\ Manage(addr[p]) /\ AskForClient(addr[p])
  /\ ClientsStay /\ UNCHANGED <<addr, got, stopped, job, list>>

\* GetIfPresent, and the last section if the client has gone.
RecheckPresent(p) ==
  /\ at[p] = "recheck"
  /\ Goto(p, IF cached[addr[p]] = NoClient THEN "rearm" ELSE "idle")
  /\ ClientsStay /\ UNCHANGED <<addr, got, lifeVars>>

Rearm(p) ==
  /\ at[p] = "rearm"
  /\ needs' = needs \union (managed \intersect {addr[p]})
  /\ work' = TRUE
  /\ Goto(p, "idle")
  /\ ClientsStay /\ UNCHANGED <<addr, got, managed, failures, stopped, job, list>>

-----------------------------------------------------------------------------
(* The goroutine *)

RunStays == UNCHANGED <<addr, got>> /\ ClientsStay

\* Mutant of Collect: the probe tick does not look for what is to be tried again.
CollectOnSignal(j) ==
  /\ at[Run] = "select"
  /\ j = "work" => work
  /\ work' = IF j = "work" THEN FALSE ELSE work
  /\ list' = (IF j = "work" THEN needs ELSE {}) /\ needs' = needs \ list'
  /\ job' = j /\ Goto(Run, "next")
  /\ RunStays /\ UNCHANGED <<managed, failures, stopped>>

\* processPendingCreations takes the addresses, on a signal or on the probe tick.
Collect(j) ==
  /\ at[Run] = "select"
  /\ j = "work" => work
  /\ work' = IF j = "work" THEN FALSE ELSE work
  /\ list' = needs /\ needs' = {}
  /\ job' = j /\ Goto(Run, "next")
  /\ RunStays /\ UNCHANGED <<managed, failures, stopped>>

\* checkIdleEviction
FindIdle(S) ==
  /\ at[Run] = "select"
  /\ list' = S /\ job' = "idle" /\ Goto(Run, "next")
  /\ RunStays /\ UNCHANGED <<managed, needs, failures, stopped, work>>

ReturnOnStop ==
  /\ at[Run] = "select" /\ stopped
  /\ Goto(Run, "done")
  /\ RunStays /\ UNCHANGED lifeVars

\* The list is done; after the creations of a tick come the probes.
ListDone ==
  /\ at[Run] = "next" /\ list = {}
  /\ IF job = "tick" THEN job' = "probe" /\ list' = managed /\ UNCHANGED at
                     ELSE job' = "idle" /\ Goto(Run, "select") /\ UNCHANGED list
  /\ RunStays /\ UNCHANGED <<managed, needs, failures, stopped, work>>

TakeNext(a) ==
  /\ at[Run] = "next" /\ a \in list
  /\ list' = list \ {a}
  /\ addr' = [addr EXCEPT ![Run] = a]
  /\ Goto(Run, IF job = "probe" THEN "probe" ELSE IF job = "idle" THEN "drop" ELSE "get")
  /\ ClientsStay /\ UNCHANGED <<got, managed, needs, failures, stopped, work, job>>

\* Mutant of Settle: an address whose client could not be made is not tried again.
SettleOnce ==
  /\ at[Run] = "got"
  /\ Goto(Run, IF got[Run] = NoClient \/ addr[Run] \in managed THEN "next" ELSE "evict")
  /\ got' = [got EXCEPT ![Run] = NoClient]
  /\ ClientsStay
  /\ UNCHANGED <<addr, managed, needs, failures, stopped, work, job, list>>

\* What processPendingCreations does with the answer.  Nobody is told of an address
\* that is to be tried again: it waits for the next signal or tick.
Settle ==
  /\ at[Run] = "got"
  /\ IF got[Run] = NoClient
       THEN needs' = needs \union (managed \intersect {addr[Run]}) /\ Goto(Run, "next")
       ELSE UNCHANGED needs
            /\ Goto(Run, IF addr[Run] \in managed THEN "next" ELSE "evict")
  /\ got' = [got EXCEPT ![Run] = NoClient]
  /\ ClientsStay
  /\ UNCHANGED <<addr, managed, failures, stopped, work, job, list>>

\* probe: what others may do between its look at the connection and its lock makes
\* no difference, only the goroutine itself takes clients away.
Probe(s) ==
  LET a == addr[Run] IN
  /\ at[Run] = "probe"
  /\ IF cached[a] = NoClient \/ a \notin managed
       THEN UNCHANGED failures /\ Goto(Run, "next")
       ELSE /\ failures' = [failures EXCEPT ![a] = IF s = "failing" THEN @ + 1 ELSE 0]
            /\ Goto(Run, IF s = "failing" /\ failures[a] + 1 >= MaxFailures
                           THEN "drop" ELSE "next")
  /\ RunStays /\ UNCHANGED <<managed, needs, stopped, work, job, list>>

\* evictEndpoint: the entry goes under the manager's lock, the client after it.
Drop ==
  LET a == addr[Run] IN
  /\ at[Run] = "drop"
  /\ managed' = managed \ {a} /\ needs' = needs \ {a}
  /\ Goto(Run, IF a \in managed THEN "evict" ELSE "next")
  /\ RunStays /\ UNCHANGED <<failures, stopped, work, job, list>>

EvictClient ==
  /\ at[Run] = "evict"
  /\ Evict(Run, "next")
  /\ UNCHANGED lifeVars

RunClose == CloseEvicted(Run, "next") /\ UNCHANGED lifeVars

RunGet == Get(Run) /\ UNCHANGED lifeVars

RunStep ==
  \/ \E j \in {"work", "tick"} : Collect(j)
  \/ \E S \in SUBSET managed : FindIdle(S)
  \/ ReturnOnStop \/ ListDone \/ \E a \in list : TakeNext(a)
  \/ RunGet \/ Settle
  \/ \E s \in {"quiet", "failing"} : Probe(s)
  \/ Drop \/ EvictClient \/ RunClose

-----------------------------------------------------------------------------
(* Close of the router: shutdown, then the cache *)

Shutdown ==
  /\ ~stopped /\ stopped' = TRUE
  /\ managed' = {} /\ needs' = {}
  /\ UNCHANGED <<cacheVars, failures, work, job, list>>

\* shutdown waits for the goroutine to return.
CloseRouter ==
  /\ at[Run] = "done"
  /\ CloseCache
  /\ UNCHANGED lifeVars

CallerGet(p) == Get(p) /\ UNCHANGED lifeVars

CallerStep(p) ==
  \/ CallerGet(p)
  \/ FindHealthy(p) \/ FindUnhealthy(p)
  \/ RequestEndpointRecreation(p)
  \/ RecordRealTraffic(p) \/ RecheckPresent(p) \/ Rearm(p)

LifecycleNext ==
  \/ RunStep \/ Shutdown \/ CloseRouter
  \/ \E p \in Callers :
       CallerStep(p) \/ RouteByAffinity(p) \/ \E a \in Addrs : Route(p, a)

\* The select takes any branch that is ready, so none of those that are ready again
\* and again is passed over for ever; a dial ends, with a client or without.
LifecycleSpec ==
  /\ LifecycleInit /\ [][LifecycleNext]_vars
  /\ WF_vars(RunStep)
  /\ SF_vars(Collect("work")) /\ SF_vars(Collect("tick")) /\ SF_vars(ReturnOnStop)
  /\ WF_vars(CloseRouter)
  /\ \A p \in Callers :
       WF_vars(CallerGet(p) /\ at[p] = "dial")

-----------------------------------------------------------------------------
(* Properties *)

\* However creation, eviction and Close meet, every open client is cached for one
\* address or in the hands of the process that is about to close it, a closed client
\* is never cached, and a closed cache keeps none.
NoClientLeaks ==
  /\ open = ({cached[a] : a \in Addrs} \union {closing[p] : p \in Procs}) \ {NoClient}
  /\ \A a, b \in Addrs : cached[a] = cached[b] => a = b \/ cached[a] = NoClient
  /\ closed => \A a \in Addrs : cached[a] = NoClient

OnList(a) ==
  \/ at[Run] # "select" /\ job \in {"work", "tick"} /\ a \in list
  \/ at[Run] \in {"get", "wait", "dial", "discard", "got"} /\ addr[Run] = a

\* A managed address has a client, or is marked, or is on the goroutine's list:
\* traffic on it can never find it managed and forgotten.
ManagedIsServed ==
  \A a \in managed : cached[a] # NoClient \/ a \in needs \/ OnList(a)

\* Failed probes are only ever held against the client that failed them: an entry
\* that counts failures still has its client.
FailuresAreOfThisClient ==
  \A a \in managed : failures[a] > 0 => cached[a] # NoClient

\* A client that is wanted is looked for, whoever asks and whatever fails.
CreationsAreTried == \A a \in Addrs : a \in needs ~> a \notin needs

\* Close of the router ends, whatever the goroutine was waiting for.
ShutdownEnds == stopped ~> closed
=============================================================================

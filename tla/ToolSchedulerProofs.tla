------------------------ MODULE ToolSchedulerProofs ------------------------
(***************************************************************************)
(* What the tool scheduler keeps for any batches, of any number of calls,  *)
(* with any number of tail calls: every call is in one place, none is left *)
(* behind, the waiting ones run alone, none starts after an abort, and     *)
(* requests are served as RequestLine promises.                            *)
(***************************************************************************)
EXTENDS ToolScheduler, FiniteSetTheorems, SequenceTheorems, TLAPS

Kinds == {"bad", "parallel", "waits"}
Outcomes == {"new", "queued", "running", "rejected", "answered"}
LoopPlaces == {"idle", "next", "validate", "execute", "end"}
CallPlaces == {"out", "checking", "confirming", "executing", "expanding"}
Statuses == {"none", "validating", "scheduled", "awaiting", "executing", "finished"}

RequestsTypeOK ==
  /\ asked \in [Batches -> Seq(Kinds)]
  /\ outcome \in [Batches -> Outcomes]
  /\ DOMAIN answer = Batches
  /\ aborted \subseteq Batches /\ running \in Batches \union {Nobody}
  /\ cancelling \in BOOLEAN /\ line \in Seq(Batches) /\ loop \in LoopPlaces

CallsTypeOK ==
  /\ queue \in Seq(Calls) /\ active \subseteq Calls
  /\ completed \in [Calls -> Nat] /\ status \in [Calls -> Statuses]
  /\ waits \in [Calls -> BOOLEAN] /\ again \in [Calls -> Nat]
  /\ at \in [Calls -> CallPlaces] /\ terminalStays \in BOOLEAN

LEMMA CallParts ==
  ASSUME NEW c \in Calls
  PROVE  c[1] \in Batches /\ c[2] \in 1..MaxCalls /\ c = <<c[1], c[2]>>
BY DEF Calls

LEMMA EarlierCalls ==
  ASSUME NEW c \in Calls, NEW i \in 1..(c[2] - 1)
  PROVE  <<c[1], i>> \in Calls
BY CallParts, SchedulerAssumption DEF Calls

\* Each element of a sequence is in it once.
IsOnce(s) == \A i, j \in 1..Len(s) : s[i] = s[j] => i = j

Elements(s) == {s[i] : i \in 1..Len(s)}

\* The outcomes tell who runs and who waits, and nobody waits while nobody runs.
RequestsInv ==
  /\ IsOnce(line)
  /\ \A b \in Batches : /\ outcome[b] = "new" <=> asked[b] = <<>>
                        /\ outcome[b] = "queued" <=> b \in Elements(line)
                        /\ outcome[b] = "running" <=> b = running
                        /\ Len(asked[b]) =< MaxCalls
  /\ running = Nobody <=> loop = "idle"
  /\ running = Nobody => line = <<>>

\* The calls of the batch that runs.
Mine == {c \in Calls : c[1] = running /\ c[2] =< Size(c[1])}

\* CallsAreInOnePlace, with the places as sets.
OnePlaceInv ==
  /\ IsOnce(queue)
  /\ Elements(queue) \subseteq Mine /\ active \subseteq Mine
  /\ Elements(queue) \intersect active = {}
  /\ \A c \in Calls :
       completed[c] = IF c \in Mine \ (active \union Elements(queue)) THEN 1 ELSE 0

\* Only active calls have a promise, one of the phase the loop waits for; whose promise
\* is done with is scheduled or finished after the first phase, and finished after the
\* second, so that the loop always ends a round with no call active.
PlacesInv ==
  /\ \A c \in Calls : at[c] # "out" =>
       /\ c \in active
       /\ \/ loop = "validate" /\ at[c] \in {"checking", "confirming"}
          \/ loop = "execute" /\ at[c] \in {"executing", "expanding"}
  /\ loop \in {"idle", "next", "end"} => active = {}
  /\ loop \in {"idle", "end"} => queue = <<>>
  /\ \A c \in Elements(queue) : status[c] \in {"validating", "finished"}
  /\ \A c \in active : at[c] = "out" =>
       \/ status[c] = "finished"
       \/ loop = "validate" /\ status[c] = "scheduled"

\* A call that waits is active alone.  The original calls are queued in the order of
\* their batch, with tail calls before them, so that those before it are completed.
WaitersInv ==
  /\ \A c \in active : waits[c] =>
       /\ active = {c}
       /\ again[c] = 0 => \A i \in 1..(c[2] - 1) : completed[<<c[1], i>>] = 1
  /\ \A i, j \in 1..Len(queue) :
       i < j /\ again[queue[i]] = 0 => queue[i][2] < queue[j][2]

\* The inductive invariant.
IInv ==
  /\ RequestsTypeOK /\ CallsTypeOK
  /\ RequestsInv /\ OnePlaceInv /\ PlacesInv /\ WaitersInv

-----------------------------------------------------------------------------
(* Sequences without repetitions *)

LEMMA ToSetIsElements ==
  ASSUME NEW S, NEW s \in Seq(S)
  PROVE  ToSet(s) = Elements(s)
BY DEF ToSet, Elements

\* What is left of a sequence when its first n elements are taken.
Rest(s, n) == SubSeq(s, n + 1, Len(s))

LEMMA TakingFirst ==
  ASSUME NEW S, NEW s \in Seq(S), IsOnce(s), NEW n \in 0..Len(s)
  PROVE  /\ Rest(s, n) \in Seq(S)
         /\ Len(Rest(s, n)) = Len(s) - n
         /\ \A i \in 1..(Len(s) - n) : Rest(s, n)[i] = s[n + i]
         /\ IsOnce(Rest(s, n))
         /\ Elements(Rest(s, n)) = Elements(s) \ {s[i] : i \in 1..n}
<1> DEFINE t == Rest(s, n)
<1>1. t \in Seq(S) /\ Len(t) = Len(s) - n
  BY DEF Rest
<1>2. \A i \in 1..(Len(s) - n) : t[i] = s[n + i]
  BY DEF Rest
<1> HIDE DEF t
<1>3. IsOnce(t)
  BY <1>1, <1>2 DEF IsOnce
<1>4. ASSUME NEW x \in Elements(t)
      PROVE  x \in Elements(s) \ {s[i] : i \in 1..n}
  <2>1. PICK i \in 1..(Len(s) - n) : x = s[n + i]
    BY <1>1, <1>2, <1>4 DEF Elements
  <2>2. n + i \in 1..Len(s)
    OBVIOUS
  <2>3. \A j \in 1..n : s[j] # x
    BY <2>1, <2>2 DEF IsOnce
  <2> QED BY <2>1, <2>2, <2>3 DEF Elements
<1>5. ASSUME NEW x \in Elements(s) \ {s[i] : i \in 1..n}
      PROVE  x \in Elements(t)
  <2>1. PICK i \in 1..Len(s) : x = s[i]
    BY <1>5 DEF Elements
  <2>2. i > n
    BY <1>5, <2>1
  <2>3. i - n \in 1..Len(t) /\ t[i - n] = x
    BY <1>1, <1>2, <2>1, <2>2
  <2> QED BY <2>3 DEF Elements
<1> QED BY <1>1, <1>2, <1>3, <1>4, <1>5 DEF t

LEMMA TakingHead ==
  ASSUME NEW S, NEW s \in Seq(S), IsOnce(s), s # <<>>
  PROVE  /\ Tail(s) \in Seq(S) /\ Head(s) \in Elements(s) /\ Head(s) \in S
         /\ Len(Tail(s)) = Len(s) - 1
         /\ \A i \in 1..(Len(s) - 1) : Tail(s)[i] = s[1 + i]
         /\ IsOnce(Tail(s))
         /\ Elements(Tail(s)) = Elements(s) \ {Head(s)}
<1>1. Len(s) \in Nat /\ Len(s) >= 1 /\ Head(s) = s[1]
  OBVIOUS
<1>2. Tail(s) = Rest(s, 1)
  BY <1>1 DEF Rest
<1>3. {s[i] : i \in 1..1} = {Head(s)} /\ Head(s) \in Elements(s) /\ Head(s) \in S
  BY <1>1 DEF Elements
<1>4. /\ Rest(s, 1) \in Seq(S) /\ Len(Rest(s, 1)) = Len(s) - 1
      /\ \A i \in 1..(Len(s) - 1) : Rest(s, 1)[i] = s[1 + i]
      /\ IsOnce(Rest(s, 1))
      /\ Elements(Rest(s, 1)) = Elements(s) \ {s[i] : i \in 1..1}
  BY <1>1, TakingFirst
<1> QED BY <1>2, <1>3, <1>4

LEMMA RemovingOne ==
  ASSUME NEW S, NEW s \in Seq(S), IsOnce(s), NEW n \in 1..Len(s)
  PROVE  /\ RemoveAt(s, n) \in Seq(S) /\ IsOnce(RemoveAt(s, n))
         /\ Elements(RemoveAt(s, n)) = Elements(s) \ {s[n]}
<1> DEFINE t == RemoveAt(s, n)
           front == SubSeq(s, 1, n - 1)
           back == SubSeq(s, n + 1, Len(s))
<1>a. front \in Seq(S) /\ Len(front) = n - 1 /\ \A i \in 1..(n - 1) : front[i] = s[i]
  OBVIOUS
<1>b. back \in Seq(S) /\ Len(back) = Len(s) - n /\ \A i \in 1..(Len(s) - n) : back[i] = s[n + i]
  OBVIOUS
<1>c. t = front \o back
  BY DEF RemoveAt
<1> HIDE DEF t, front, back
<1>1. t \in Seq(S) /\ Len(t) = Len(s) - 1
  BY <1>a, <1>b, <1>c
<1>2. ASSUME NEW i \in 1..Len(t)
      PROVE  t[i] = IF i < n THEN s[i] ELSE s[i + 1]
  <2>1. CASE i < n
    BY <1>a, <1>b, <1>c, <1>1, <2>1
  <2>2. CASE i >= n
    <3>1. t[i] = back[i - (n - 1)]
      BY <1>a, <1>b, <1>c, <1>1, <2>2
    <3>2. back[i - (n - 1)] = s[n + (i - (n - 1))] /\ n + (i - (n - 1)) = i + 1
      BY <1>b, <1>1, <2>2
    <3> QED BY <2>2, <3>1, <3>2
  <2> QED BY <2>1, <2>2
<1>3. ASSUME NEW i \in 1..Len(t), NEW j \in 1..Len(t), t[i] = t[j]
      PROVE  i = j
  <2> DEFINE k == IF i < n THEN i ELSE i + 1
             l == IF j < n THEN j ELSE j + 1
  <2>1. k \in 1..Len(s) /\ l \in 1..Len(s) /\ (k = l => i = j)
    BY <1>1
  <2>2. s[k] = s[l]
    BY <1>2, <1>3
  <2> QED BY <2>1, <2>2 DEF IsOnce
<1>4. Elements(t) \subseteq Elements(s) \ {s[n]}
  BY <1>1, <1>2 DEF Elements, IsOnce
<1>5. ASSUME NEW x \in Elements(s) \ {s[n]}
      PROVE  x \in Elements(t)
  <2>1. PICK i \in 1..Len(s) : x = s[i]
    BY <1>5 DEF Elements
  <2>2. CASE i < n
    BY <1>1, <1>2, <2>1, <2>2 DEF Elements
  <2>3. CASE i > n
    <3>1. i - 1 \in 1..Len(t) /\ t[i - 1] = x
      BY <1>1, <1>2, <2>1, <2>3
    <3> QED BY <3>1 DEF Elements
  <2> QED BY <1>5, <2>1, <2>2, <2>3
<1> QED BY <1>1, <1>3, <1>4, <1>5 DEF t, IsOnce

LEMMA PuttingFirst ==
  ASSUME NEW S, NEW s \in Seq(S), NEW x \in S, IsOnce(s), x \notin Elements(s)
  PROVE  /\ <<x>> \o s \in Seq(S)
         /\ Len(<<x>> \o s) = Len(s) + 1
         /\ (<<x>> \o s)[1] = x /\ \A i \in 1..Len(s) : (<<x>> \o s)[i + 1] = s[i]
         /\ IsOnce(<<x>> \o s)
         /\ Elements(<<x>> \o s) = Elements(s) \union {x}
<1> DEFINE t == <<x>> \o s
<1>1. t \in Seq(S) /\ Len(t) = Len(s) + 1
  OBVIOUS
<1>2. t[1] = x /\ \A i \in 1..Len(s) : t[i + 1] = s[i]
  OBVIOUS
<1>3. \A i \in 1..Len(t) : t[i] = IF i = 1 THEN x ELSE s[i - 1]
  BY <1>1, <1>2
<1>4. IsOnce(t)
  BY <1>1, <1>3 DEF IsOnce, Elements
<1>5. Elements(t) \subseteq Elements(s) \union {x}
  BY <1>1, <1>3 DEF Elements
<1>6. Elements(s) \union {x} \subseteq Elements(t)
  <2>1. x \in Elements(t)
    BY <1>1, <1>2 DEF Elements
  <2>2. ASSUME NEW i \in 1..Len(s) PROVE s[i] \in Elements(t)
    <3>1. i + 1 \in 1..Len(t) /\ t[i + 1] = s[i]
      BY <1>1, <1>2
    <3> QED BY <3>1 DEF Elements
  <2> QED BY <2>1, <2>2 DEF Elements
<1> QED BY <1>1, <1>2, <1>4, <1>5, <1>6

LEMMA PuttingLast ==
  ASSUME NEW S, NEW s \in Seq(S), NEW x \in S, IsOnce(s), x \notin Elements(s)
  PROVE  /\ Append(s, x) \in Seq(S) /\ IsOnce(Append(s, x))
         /\ Elements(Append(s, x)) = Elements(s) \union {x}
<1> DEFINE t == Append(s, x)
<1>1. t \in Seq(S) /\ Len(t) = Len(s) + 1
  OBVIOUS
<1>2. \A i \in 1..Len(t) : t[i] = IF i = Len(t) THEN x ELSE s[i]
  OBVIOUS
<1>3. IsOnce(t)
  BY <1>1, <1>2 DEF IsOnce, Elements
<1>4. Elements(t) = Elements(s) \union {x}
  BY <1>1, <1>2 DEF Elements
<1> QED BY <1>1, <1>3, <1>4

\* The state manager's count of a call in its queue.
LEMMA InQueueCounts ==
  ASSUME queue \in Seq(Calls), IsOnce(queue), NEW c \in Calls
  PROVE  InQueue(c) = IF c \in Elements(queue) THEN 1 ELSE 0
<1> DEFINE I == {i \in 1..Len(queue) : queue[i] = c}
<1>1. CASE c \in Elements(queue)
  <2>1. PICK i \in 1..Len(queue) : queue[i] = c
    BY <1>1 DEF Elements
  <2>2. I = {i}
    BY <2>1 DEF IsOnce
  <2> QED BY <1>1, <2>2, FS_Singleton DEF InQueue
<1>2. CASE c \notin Elements(queue)
  <2>1. I = {}
    BY <1>2 DEF Elements
  <2> QED BY <1>2, <2>1, FS_EmptySet DEF InQueue
<1> QED BY <1>1, <1>2

-----------------------------------------------------------------------------
(* The promise of one call *)

LEMMA UpdatedStatus ==
  ASSUME CallsTypeOK, NEW S \in SUBSET Calls, NEW s \in Statuses
  PROVE  /\ Updated(S, s) \in [Calls -> Statuses]
         /\ \A c \in Calls : c \notin S \intersect active => Updated(S, s)[c] = status[c]
         /\ \A c \in S \intersect active :
              Updated(S, s)[c] = s \/ Updated(S, s)[c] = "finished"
BY DEF Updated, CallsTypeOK

\* Requests do not notice what happens to a call, nor do other calls.
LEMMA CallStaysKeepsRequests ==
  ASSUME IInv, CallStays
  PROVE  /\ RequestsTypeOK' /\ RequestsInv' /\ Mine' = Mine
         /\ UNCHANGED <<running, loop, aborted>>
<1>1. UNCHANGED requestVars /\ UNCHANGED loop
  BY DEF CallStays, LoopStays
<1>2. RequestsTypeOK' /\ RequestsInv'
  BY <1>1 DEF requestVars, IInv, RequestsTypeOK, RequestsInv, IsOnce, Elements
<1>3. Mine' = Mine
  BY <1>1 DEF requestVars, Mine, Size
<1> QED BY <1>1, <1>2, <1>3 DEF requestVars

\* A call that stays active goes on, or its promise ends with a status that lets the
\* loop go on.
LEMMA CallMovesKeepInv ==
  ASSUME IInv, CallStays, NEW c \in Calls, at[c] # "out",
         NEW place \in CallPlaces, at' = [at EXCEPT ![c] = place],
         NEW s \in Statuses, status' = Updated({c}, s),
         UNCHANGED <<queue, active, completed, waits>>,
         again' \in [Calls -> Nat], \A d \in Calls : again'[d] = 0 => again[d] = 0,
         \A d \in Calls \ {c} : again'[d] = again[d],
         IF loop = "validate"
           THEN place = "confirming" \/ (place = "out" /\ s \in {"scheduled", "finished"})
           ELSE place \in {"executing", "expanding"} \/ (place = "out" /\ s = "finished")
  PROVE  IInv'
<1>1. /\ RequestsTypeOK' /\ RequestsInv' /\ Mine' = Mine
      /\ UNCHANGED <<running, loop, aborted>>
  BY CallStaysKeepsRequests
<1>2. /\ c \in active /\ loop \in {"validate", "execute"}
      /\ c \notin Elements(queue)
  BY DEF IInv, PlacesInv, OnePlaceInv
<1>3. /\ status' \in [Calls -> Statuses]
      /\ \A d \in Calls \ {c} : status'[d] = status[d]
      /\ status'[c] \in {s, "finished"}
  BY <1>2, UpdatedStatus DEF IInv
<1>4. CallsTypeOK'
  BY <1>3 DEF IInv, CallsTypeOK, CallStays, LoopStays
<1>5. OnePlaceInv'
  BY <1>1 DEF IInv, OnePlaceInv, IsOnce, Elements
<1>6. PlacesInv'
  <2>1. \A d \in Calls : at'[d] = IF d = c THEN place ELSE at[d]
    BY DEF IInv, CallsTypeOK
  <2>2. /\ Elements(queue)' = Elements(queue)
        /\ \A d \in Elements(queue) : d \in Calls /\ d # c
    BY <1>2 DEF Elements, IInv, OnePlaceInv, Mine
  <2>3. \A d \in Calls : at'[d] # "out" =>
          /\ d \in active'
          /\ \/ loop' = "validate" /\ at'[d] \in {"checking", "confirming"}
             \/ loop' = "execute" /\ at'[d] \in {"executing", "expanding"}
    BY <1>1, <1>2, <2>1 DEF IInv, PlacesInv
  <2>4. \A d \in active' : at'[d] = "out" =>
          \/ status'[d] = "finished"
          \/ loop' = "validate" /\ status'[d] = "scheduled"
    <3>1. at'[c] = "out" =>
            \/ status'[c] = "finished"
            \/ loop' = "validate" /\ status'[c] = "scheduled"
      BY <1>1, <1>2, <1>3, <2>1
    <3>2. \A d \in active \ {c} : d \in Calls /\ at'[d] = at[d] /\ status'[d] = status[d]
      BY <1>3, <2>1 DEF IInv, CallsTypeOK
    <3> QED BY <1>1, <3>1, <3>2 DEF IInv, PlacesInv
  <2>5. \A d \in Elements(queue)' : status'[d] \in {"validating", "finished"}
    BY <1>3, <2>2 DEF IInv, PlacesInv
  <2> QED BY <1>1, <1>2, <2>3, <2>4, <2>5 DEF PlacesInv
<1>7. WaitersInv'
  <2>1. \A i \in 1..Len(queue) : queue[i] \in Calls /\ queue[i] # c
    BY <1>2 DEF IInv, CallsTypeOK, Elements
  <2> QED BY <2>1 DEF IInv, WaitersInv, CallsTypeOK
<1> QED BY <1>1, <1>4, <1>5, <1>6, <1>7 DEF IInv

LEMMA CallStepKeepsInv ==
  ASSUME IInv, NEW c \in Calls,
         \/ Check(c) \/ Confirm(c) \/ LiveOutput(c) \/ Return(c)
         \/ AskExpansion(c) \/ DenyExpansion(c) \/ Expand(c)
  PROVE  IInv'
<1>0. /\ CallsTypeOK
      /\ at[c] # "out" => loop \in {"validate", "execute"}
      /\ at[c] \in {"checking", "confirming"} => loop = "validate"
      /\ at[c] \in {"executing", "expanding"} => loop = "execute"
  BY DEF IInv, PlacesInv
<1>1. CASE LiveOutput(c)
  <2>1. at' = [at EXCEPT ![c] = "executing"]
    BY <1>0, <1>1 DEF LiveOutput, CallsTypeOK
  <2> QED BY <1>0, <1>1, <2>1, CallMovesKeepInv
          DEF LiveOutput, CallsTypeOK, CallPlaces, Statuses
<1>2. CASE Check(c)
  BY <1>0, <1>2, CallMovesKeepInv DEF Check, Settle, CallsTypeOK, CallPlaces, Statuses
<1>3. CASE Confirm(c)
  BY <1>0, <1>3, CallMovesKeepInv DEF Confirm, Settle, CallsTypeOK, CallPlaces, Statuses
<1>4. CASE Return(c) \/ DenyExpansion(c)
  BY <1>0, <1>4, CallMovesKeepInv
     DEF Return, DenyExpansion, Settle, CallsTypeOK, CallPlaces, Statuses
<1>5. CASE AskExpansion(c)
  <2>1. /\ again' \in [Calls -> Nat]
        /\ \A d \in Calls : again'[d] = 0 => again[d] = 0
        /\ \A d \in Calls \ {c} : again'[d] = again[d]
    BY <1>0, <1>5 DEF AskExpansion, CallsTypeOK
  <2> QED BY <1>0, <1>5, <2>1, CallMovesKeepInv DEF AskExpansion, CallPlaces, Statuses
<1>6. CASE Expand(c)
  BY <1>0, <1>6, CallMovesKeepInv DEF Expand, Settle, CallsTypeOK, CallPlaces, Statuses
<1> QED BY <1>1, <1>2, <1>3, <1>4, <1>5, <1>6

\* The user denies a call: it is finished, and all that is queued is completed.
LEMMA DenyKeepsInv ==
  ASSUME IInv, NEW c \in Calls, Deny(c)
  PROVE  IInv'
<1>1. /\ RequestsTypeOK' /\ RequestsInv' /\ Mine' = Mine
      /\ UNCHANGED <<running, loop, aborted>>
  BY CallStaysKeepsRequests DEF Deny
<1>2. /\ c \in active /\ loop = "validate" /\ c \notin Elements(queue)
  BY DEF Deny, IInv, PlacesInv, OnePlaceInv
<1>3. \A d \in Calls : InQueue(d) = IF d \in Elements(queue) THEN 1 ELSE 0
  BY InQueueCounts DEF IInv, CallsTypeOK, OnePlaceInv
<1>4. /\ status' \in [Calls -> Statuses] /\ status'[c] = "finished"
      /\ \A d \in active \ {c} : status'[d] = status[d]
  <2>1. "finished" \in Statuses /\ "none" \in Statuses /\ {c} \subseteq Calls
    BY DEF Statuses
  <2>2. /\ Updated({c}, "finished") \in [Calls -> Statuses]
        /\ Updated({c}, "finished")[c] = "finished"
        /\ \A d \in Calls \ {c} : Updated({c}, "finished")[d] = status[d]
    BY <1>2, <2>1, UpdatedStatus DEF IInv
  <2>3. \A d \in active : InQueue(d) = 0
    BY <1>3 DEF IInv, OnePlaceInv, CallsTypeOK
  <2>4. \A d \in Calls :
          status'[d] = IF InQueue(d) > 0 THEN "none" ELSE Updated({c}, "finished")[d]
    BY DEF Deny
  <2>5. status' \in [Calls -> Statuses]
    BY <2>1, <2>2 DEF Deny
  <2>6. ASSUME NEW d \in active PROVE status'[d] = Updated({c}, "finished")[d]
    <3>1. d \in Calls /\ ~(InQueue(d) > 0)
      BY <2>3 DEF IInv, CallsTypeOK
    <3> QED BY <2>4, <3>1
  <2> QED BY <1>2, <2>2, <2>5, <2>6 DEF IInv, CallsTypeOK
<1>5. /\ Elements(queue)' = {} /\ Len(queue') = 0 /\ queue' \in Seq(Calls)
  BY DEF Deny, Elements
<1>6. CallsTypeOK'
  <2>1. completed' \in [Calls -> Nat]
    <3>1. ASSUME NEW d \in Calls PROVE completed[d] + InQueue(d) \in Nat
      <4>1. InQueue(d) = 0 \/ InQueue(d) = 1
        BY <1>3
      <4>2. completed[d] \in Nat
        BY DEF IInv, CallsTypeOK
      <4> QED BY <4>1, <4>2
    <3> QED BY <3>1 DEF Deny
  <2>2. at' \in [Calls -> CallPlaces]
    BY DEF Deny, IInv, CallsTypeOK, CallPlaces
  <2> QED BY <1>4, <1>5, <2>1, <2>2 DEF Deny, IInv, CallsTypeOK, CallStays, LoopStays
<1>7. OnePlaceInv'
  BY <1>1, <1>3, <1>5 DEF Deny, IInv, OnePlaceInv, IsOnce, Mine
<1>8. PlacesInv'
  BY <1>1, <1>2, <1>4, <1>5 DEF Deny, IInv, PlacesInv, CallsTypeOK
<1>9. WaitersInv'
  <2>1. \A d \in Calls : completed[d] = 1 => completed'[d] = 1
    BY <1>3 DEF Deny, IInv, OnePlaceInv, Mine
  <2>2. \A d \in active : \A i \in 1..(d[2] - 1) : <<d[1], i>> \in Calls
    BY EarlierCalls DEF IInv, CallsTypeOK
  <2> QED BY <1>5, <2>1, <2>2 DEF Deny, IInv, WaitersInv
<1> QED BY <1>1, <1>6, <1>7, <1>8, <1>9 DEF IInv

\* A tail call goes from the active calls to the front of the queue.
LEMMA ReturnTailKeepsInv ==
  ASSUME IInv, NEW c \in Calls, ReturnTail(c)
  PROVE  IInv'
<1>1. /\ RequestsTypeOK' /\ RequestsInv' /\ Mine' = Mine
      /\ UNCHANGED <<running, loop, aborted>>
  BY CallStaysKeepsRequests DEF ReturnTail
<1>2. /\ c \in active /\ loop = "execute" /\ c \notin Elements(queue) /\ c \in Mine
  BY DEF ReturnTail, IInv, PlacesInv, OnePlaceInv
<1>3. /\ queue' \in Seq(Calls) /\ Len(queue') = Len(queue) + 1
      /\ queue'[1] = c /\ \A i \in 1..Len(queue) : queue'[i + 1] = queue[i]
      /\ IsOnce(queue)' /\ Elements(queue)' = Elements(queue) \union {c}
  <2>1. queue' = <<c>> \o queue /\ queue \in Seq(Calls) /\ IsOnce(queue)
    BY DEF ReturnTail, IInv, CallsTypeOK, OnePlaceInv
  <2>2. IsOnce(queue)' = IsOnce(<<c>> \o queue) /\ Elements(queue)' = Elements(<<c>> \o queue)
    BY <2>1 DEF IsOnce, Elements
  <2> QED BY <1>2, <2>1, <2>2, PuttingFirst
<1>4. /\ active' = active \ {c} /\ completed' = completed
      /\ status' \in [Calls -> Statuses] /\ status'[c] \in {"validating", "finished"}
      /\ \A d \in Calls \ {c} : /\ status'[d] = status[d] /\ waits'[d] = waits[d]
                                /\ again'[d] = again[d] /\ at'[d] = at[d]
      /\ at' \in [Calls -> CallPlaces] /\ at'[c] = "out"
      /\ waits' \in [Calls -> BOOLEAN]
      /\ again' \in [Calls -> Nat] /\ again'[c] > 0
  BY DEF ReturnTail, IInv, CallsTypeOK, CallPlaces, Statuses
<1>5. CallsTypeOK'
  BY <1>3, <1>4 DEF ReturnTail, IInv, CallsTypeOK, CallStays, LoopStays
<1>6. OnePlaceInv'
  BY <1>1, <1>2, <1>3, <1>4 DEF IInv, OnePlaceInv
<1>7. PlacesInv'
  BY <1>1, <1>2, <1>3, <1>4 DEF IInv, PlacesInv, CallsTypeOK, OnePlaceInv, Mine
<1>8. WaitersInv'
  <2>1. \A d \in active' : waits'[d] =>
          /\ active' = {d}
          /\ again'[d] = 0 =>
               \A i \in 1..(d[2] - 1) : completed'[<<d[1], i>>] = 1
    BY <1>4 DEF IInv, WaitersInv, CallsTypeOK
  <2>2. ASSUME NEW i \in 1..Len(queue'), NEW j \in 1..Len(queue'), i < j, again'[queue'[i]] = 0
        PROVE  queue'[i][2] < queue'[j][2]
    <3>1. i # 1
      BY <1>3, <1>4, <2>2
    <3>2. i - 1 \in 1..Len(queue) /\ j - 1 \in 1..Len(queue) /\ i - 1 < j - 1
      BY <1>3, <2>2, <3>1 DEF IInv, CallsTypeOK
    <3>3. queue'[i] = queue[i - 1] /\ queue'[j] = queue[j - 1]
      BY <1>3, <3>2
    <3>4. queue[i - 1] \in Calls /\ queue[i - 1] # c
      BY <1>2, <3>2 DEF IInv, CallsTypeOK, Elements
    <3>5. again[queue[i - 1]] = 0
      BY <1>4, <2>2, <3>3, <3>4
    <3>6. queue[i - 1][2] < queue[j - 1][2]
      BY <3>2, <3>5 DEF IInv, WaitersInv
    <3> QED BY <3>3, <3>6
  <2> QED BY <2>1, <2>2 DEF WaitersInv
<1> QED BY <1>1, <1>5, <1>6, <1>7, <1>8 DEF IInv

-----------------------------------------------------------------------------
(* The loop of a batch *)

LEMMA LoopStaysKeepsRequests ==
  ASSUME IInv, LoopStays, loop # "idle", loop' \in LoopPlaces \ {"idle"}
  PROVE  RequestsTypeOK' /\ RequestsInv' /\ Mine' = Mine /\ running' = running
<1>1. UNCHANGED requestVars
  BY DEF LoopStays
<1>2. RequestsTypeOK' /\ RequestsInv'
  BY <1>1 DEF requestVars, IInv, RequestsTypeOK, RequestsInv, IsOnce, Elements
<1>3. Mine' = Mine /\ running' = running
  BY <1>1 DEF requestVars, Mine, Size
<1> QED BY <1>2, <1>3

\* All calls of S, which are queued or active, are completed.
LEMMA CompletedAre ==
  ASSUME IInv, NEW S \in SUBSET (Elements(queue) \union active), Complete(S)
  PROVE  /\ completed' \in [Calls -> Nat] /\ status' \in [Calls -> Statuses]
         /\ \A c \in Calls :
              completed'[c] = IF c \in Mine \ ((active \union Elements(queue)) \ S) THEN 1 ELSE 0
         /\ \A c \in Calls \ S : status'[c] = status[c]
<1>1. S \subseteq Mine
  BY DEF IInv, OnePlaceInv
<1>2. \A c \in Calls : completed'[c] = IF c \in S THEN completed[c] + 1 ELSE completed[c]
  BY DEF Complete
<1>3. completed' \in [Calls -> Nat] /\ status' \in [Calls -> Statuses]
  BY DEF Complete, IInv, CallsTypeOK, Statuses
<1>4. ASSUME NEW c \in Calls
      PROVE  completed'[c] = IF c \in Mine \ ((active \union Elements(queue)) \ S) THEN 1 ELSE 0
  <2>1. completed[c] = IF c \in Mine \ (active \union Elements(queue)) THEN 1 ELSE 0
    BY DEF IInv, OnePlaceInv
  <2> QED BY <1>1, <1>2, <2>1
<1> QED BY <1>3, <1>4 DEF Complete

LEMMA StopOrFinishKeepsInv ==
  ASSUME IInv, StopOrFinish
  PROVE  IInv'
<1>1. RequestsTypeOK' /\ RequestsInv' /\ Mine' = Mine /\ running' = running
  BY LoopStaysKeepsRequests DEF StopOrFinish, LoopPlaces
<1>2. active = {} /\ ToSet(queue) = Elements(queue)
  BY ToSetIsElements DEF StopOrFinish, IInv, PlacesInv, CallsTypeOK
<1>3. /\ completed' \in [Calls -> Nat] /\ status' \in [Calls -> Statuses]
      /\ \A c \in Calls : completed'[c] = IF c \in Mine THEN 1 ELSE 0
  BY <1>2, CompletedAre DEF StopOrFinish
<1>4. Elements(queue)' = {} /\ queue' = <<>> /\ Len(queue') = 0
  BY DEF StopOrFinish, Elements
<1>5. CallsTypeOK'
  BY <1>3, <1>4 DEF StopOrFinish, IInv, CallsTypeOK, LoopStays
<1>6. OnePlaceInv'
  BY <1>1, <1>2, <1>3, <1>4 DEF StopOrFinish, OnePlaceInv, IsOnce
<1>7. PlacesInv'
  BY <1>2, <1>4 DEF StopOrFinish, IInv, PlacesInv
<1>8. WaitersInv'
  BY <1>2, <1>4 DEF StopOrFinish, WaitersInv
<1> QED BY <1>1, <1>5, <1>6, <1>7, <1>8 DEF IInv

LEMMA FinalizeErroredKeepsInv ==
  ASSUME IInv, FinalizeErrored
  PROVE  IInv'
<1>1. RequestsTypeOK' /\ RequestsInv' /\ Mine' = Mine /\ running' = running
  BY LoopStaysKeepsRequests DEF FinalizeErrored, IInv, RequestsTypeOK
<1>2. active = {} /\ active' = {} /\ loop = "next" /\ loop' = "next"
  BY DEF FinalizeErrored
<1>3. /\ queue' \in Seq(Calls) /\ Len(queue') = Len(queue) - 1 /\ Len(queue) \in Nat
      /\ \A i \in 1..(Len(queue) - 1) : queue'[i] = queue[1 + i]
      /\ IsOnce(queue') /\ Elements(queue') = Elements(queue) \ {Head(queue)}
      /\ Head(queue) \in Elements(queue)
  BY TakingHead DEF FinalizeErrored, IInv, CallsTypeOK, OnePlaceInv
<1>4. /\ completed' \in [Calls -> Nat] /\ status' \in [Calls -> Statuses]
      /\ \A c \in Calls :
           completed'[c] = IF c \in Mine \ Elements(queue') THEN 1 ELSE 0
      /\ \A c \in Calls \ {Head(queue)} : status'[c] = status[c]
  BY <1>2, <1>3, CompletedAre DEF FinalizeErrored
<1>5. CallsTypeOK'
  BY <1>3, <1>4 DEF FinalizeErrored, IInv, CallsTypeOK, LoopStays
<1>6. OnePlaceInv'
  <2>1. Elements(queue)' = Elements(queue') /\ IsOnce(queue)' = IsOnce(queue')
    BY DEF Elements, IsOnce
  <2> QED BY <1>1, <1>2, <1>3, <1>4, <2>1 DEF IInv, OnePlaceInv
<1>7. PlacesInv'
  <2>1. Elements(queue)' = Elements(queue') /\ Elements(queue) \subseteq Calls
    BY DEF Elements, IInv, OnePlaceInv, Mine
  <2> QED BY <1>2, <1>3, <1>4, <2>1 DEF FinalizeErrored, IInv, PlacesInv
<1>8. WaitersInv'
  BY <1>2, <1>3 DEF FinalizeErrored, IInv, WaitersInv
<1> QED BY <1>1, <1>5, <1>6, <1>7, <1>8 DEF IInv

\* The first calls become active.  If one of them waits it is the only one, and if it is
\* an original one, those before it in the batch are neither queued behind it nor active.
LEMMA TakeCallsKeepsInv ==
  ASSUME IInv, TakeCalls
  PROVE  IInv'
<1>1. RequestsTypeOK' /\ RequestsInv' /\ Mine' = Mine /\ running' = running
  BY LoopStaysKeepsRequests DEF TakeCalls, LoopPlaces
<1>2. active = {} /\ loop = "next" /\ loop' = "validate"
  BY DEF TakeCalls, IInv, PlacesInv
<1>3. PICK n \in 1..Len(queue) :
        /\ IsTaken(n)
        /\ active' = {queue[i] : i \in 1..n}
        /\ queue' = SubSeq(queue, n + 1, Len(queue))
  BY <1>2 DEF TakeCalls
<1>4. /\ queue \in Seq(Calls) /\ Len(queue) \in Nat /\ n \in 1..Len(queue)
      /\ \A i \in 1..Len(queue) : queue[i] \in Calls
  BY DEF IInv, CallsTypeOK
<1>5. /\ queue' \in Seq(Calls) /\ Len(queue') = Len(queue) - n
      /\ \A i \in 1..(Len(queue) - n) : queue'[i] = queue[n + i]
      /\ IsOnce(queue') /\ Elements(queue') = Elements(queue) \ active'
  <2>1. queue' = Rest(queue, n)
    BY <1>3 DEF Rest
  <2>2. IsOnce(queue) /\ n \in 0..Len(queue)
    BY <1>4 DEF IInv, OnePlaceInv
  <2>3. /\ Rest(queue, n) \in Seq(Calls) /\ Len(Rest(queue, n)) = Len(queue) - n
        /\ \A i \in 1..(Len(queue) - n) : Rest(queue, n)[i] = queue[n + i]
        /\ IsOnce(Rest(queue, n))
        /\ Elements(Rest(queue, n)) = Elements(queue) \ {queue[i] : i \in 1..n}
    BY <1>4, <2>2, TakingFirst
  <2>4. Elements(Rest(queue, n)) = Elements(queue) \ active'
    BY <1>3, <2>3
  <2> QED BY <2>1, <2>3, <2>4
<1>6. active' \subseteq Elements(queue) /\ Elements(queue)' = Elements(queue')
  BY <1>3, <1>4 DEF Elements
<1>7. /\ at' \in [Calls -> CallPlaces]
      /\ \A c \in Calls : at'[c] =
           IF c \in active' /\ status[c] = "validating" THEN "checking" ELSE at[c]
  BY DEF TakeCalls, IInv, CallsTypeOK, CallPlaces
<1>8. CallsTypeOK'
  <2>1. active' \subseteq Calls
    BY <1>6 DEF IInv, OnePlaceInv, Mine
  <2>2. UNCHANGED <<completed, status, waits, again, terminalStays>>
    BY DEF TakeCalls, LoopStays
  <2> QED BY <1>5, <1>7, <2>1, <2>2 DEF IInv, CallsTypeOK
<1>9. OnePlaceInv'
  <2>1. IsOnce(queue)' = IsOnce(queue')
    BY DEF IsOnce
  <2> QED BY <1>1, <1>2, <1>5, <1>6, <2>1 DEF TakeCalls, IInv, OnePlaceInv
<1>10. PlacesInv'
  <2>1. \A c \in Calls : at[c] = "out"
    BY <1>2 DEF IInv, PlacesInv
  <2>2. status' = status
    BY DEF TakeCalls
  <2>3. \A c \in active' : c \in Calls /\ status[c] \in {"validating", "finished"}
    BY <1>6 DEF IInv, PlacesInv, OnePlaceInv, Mine
  <2> QED BY <1>2, <1>5, <1>6, <1>7, <2>1, <2>2, <2>3 DEF IInv, PlacesInv
<1>11. WaitersInv'
  <2>1. waits' = waits /\ again' = again /\ completed' = completed
    BY DEF TakeCalls
  <2>2. ASSUME NEW c \in active', waits[c]
        PROVE  active' = {c} /\ c = queue[1] /\ n = 1
    <3>1. PICK k \in 1..n : c = queue[k]
      BY <1>3
    <3>2. n = 1
      BY <1>3, <1>4, <2>2, <3>1 DEF IsTaken
    <3> QED BY <1>3, <3>1, <3>2
  <2>3. ASSUME NEW c \in active', waits[c], again[c] = 0, NEW i \in 1..(c[2] - 1)
        PROVE  completed[<<c[1], i>>] = 1
    <3> DEFINE d == <<c[1], i>>
    <3>1. c \in Mine /\ c = queue[1] /\ n = 1
      BY <1>6, <2>2, <2>3 DEF IInv, OnePlaceInv
    <3>2. c \in Calls /\ c[1] \in Batches /\ c[2] \in 1..MaxCalls
      BY <3>1, CallParts DEF Mine
    <3>3. d \in Calls /\ d[1] = c[1] /\ d[2] = i
      BY <3>2, EarlierCalls
    <3>4. d \in Mine
      <4>1. Len(asked[c[1]]) \in Nat
        BY <3>2 DEF IInv, RequestsTypeOK
      <4> QED BY <3>1, <3>2, <3>3, <4>1, SchedulerAssumption DEF Mine, Size
    <3>5. d \notin Elements(queue)
      <4>1. SUFFICES ASSUME NEW j \in 1..Len(queue), queue[j] = d PROVE FALSE
        BY DEF Elements
      <4>2. j # 1
        BY <3>1, <3>2, <3>3, <4>1, SchedulerAssumption
      <4>3. queue[1][2] < queue[j][2]
        BY <1>4, <2>3, <3>1, <4>2 DEF IInv, WaitersInv
      <4> QED BY <3>1, <3>2, <3>3, <4>1, <4>3, SchedulerAssumption
    <3> HIDE DEF d
    <3>6. completed[d] = 1
      BY <1>2, <3>3, <3>4, <3>5 DEF IInv, OnePlaceInv
    <3> QED BY <3>6 DEF d
  <2>4. ASSUME NEW i \in 1..Len(queue'), NEW j \in 1..Len(queue'), i < j, again[queue'[i]] = 0
        PROVE  queue'[i][2] < queue'[j][2]
    <3>1. /\ n + i \in 1..Len(queue) /\ n + j \in 1..Len(queue) /\ n + i < n + j
          /\ queue'[i] = queue[n + i] /\ queue'[j] = queue[n + j]
      BY <1>4, <1>5, <2>4
    <3> QED BY <2>4, <3>1 DEF IInv, WaitersInv
  <2> QED BY <2>1, <2>2, <2>3, <2>4 DEF WaitersInv
<1> QED BY <1>1, <1>8, <1>9, <1>10, <1>11 DEF IInv

\* The calls that are left active by the validations are scheduled or finished, so all
\* that are scheduled start, or are cancelled.
LEMMA ExecuteScheduledKeepsInv ==
  ASSUME IInv, ExecuteScheduled
  PROVE  IInv'
<1>1. RequestsTypeOK' /\ RequestsInv' /\ Mine' = Mine /\ running' = running
  BY LoopStaysKeepsRequests DEF ExecuteScheduled, LoopPlaces
<1>2. /\ loop = "validate" /\ loop' = "execute" /\ AllBack
      /\ UNCHANGED <<queue, active, completed, waits, again>>
  BY DEF ExecuteScheduled
<1>3. \A c \in Calls : at[c] = "out"
  BY <1>2 DEF AllBack, IInv, PlacesInv
<1>4. \A c \in active : status[c] \in {"scheduled", "finished"}
  BY <1>2, <1>3 DEF IInv, PlacesInv, CallsTypeOK
<1> DEFINE started == {c \in active : status[c] = "scheduled"}
           s == IF running \in aborted THEN "finished" ELSE "executing"
<1>5. /\ status' = Updated(started, s)
      /\ at' = [c \in Calls |->
                  IF c \in started /\ running \notin aborted THEN "executing" ELSE at[c]]
  BY <1>4 DEF ExecuteScheduled
<1>6. started \in SUBSET Calls /\ started \subseteq active /\ s \in Statuses
  BY DEF IInv, CallsTypeOK, Statuses
<1>7. /\ status' \in [Calls -> Statuses]
      /\ \A c \in Calls : c \notin started => status'[c] = status[c]
      /\ \A c \in started : status'[c] \in {s, "finished"}
  <2> HIDE DEF started, s
  <2>1. /\ Updated(started, s) \in [Calls -> Statuses]
        /\ \A c \in Calls : c \notin started \intersect active =>
             Updated(started, s)[c] = status[c]
        /\ \A c \in started \intersect active :
             Updated(started, s)[c] = s \/ Updated(started, s)[c] = "finished"
    BY <1>6, UpdatedStatus DEF IInv
  <2> QED BY <1>5, <1>6, <2>1
<1>8. CallsTypeOK'
  BY <1>2, <1>5, <1>7 DEF ExecuteScheduled, IInv, CallsTypeOK, CallPlaces, LoopStays
<1>9. OnePlaceInv'
  BY <1>1, <1>2 DEF IInv, OnePlaceInv, IsOnce, Elements
<1>10. PlacesInv'
  <2>1. \A c \in Calls : at'[c] =
          IF c \in started /\ running \notin aborted THEN "executing" ELSE "out"
    BY <1>3, <1>5
  <2>2. \A c \in Calls : at'[c] # "out" => c \in active' /\ at'[c] \in {"executing", "expanding"}
    BY <1>2, <2>1
  <2>3. \A c \in active' : at'[c] = "out" => status'[c] = "finished"
    BY <1>2, <1>4, <1>6, <1>7, <2>1 DEF IInv, CallsTypeOK
  <2>4. \A c \in Elements(queue)' : status'[c] \in {"validating", "finished"}
    BY <1>2, <1>7 DEF IInv, PlacesInv, OnePlaceInv, Mine, Elements
  <2> QED BY <1>2, <2>2, <2>3, <2>4 DEF PlacesInv
<1>11. WaitersInv'
  BY <1>2 DEF IInv, WaitersInv
<1> QED BY <1>1, <1>8, <1>9, <1>10, <1>11 DEF IInv

\* All active calls are finished, so none is left.
LEMMA FinalizeTerminalKeepsInv ==
  ASSUME IInv, FinalizeTerminal
  PROVE  IInv'
<1>1. loop = "execute" /\ AllBack /\ UNCHANGED <<queue, waits, again, at>> /\ LoopStays
  BY DEF FinalizeTerminal
<1>2. \A c \in Calls : at[c] = "out"
  BY <1>1 DEF AllBack, IInv, PlacesInv
<1>3. Finished = active
  BY <1>1, <1>2 DEF Finished, IInv, PlacesInv, CallsTypeOK
<1>4. active' = {} /\ loop' = "next" /\ Complete(active)
  BY <1>3 DEF FinalizeTerminal
<1>5. RequestsTypeOK' /\ RequestsInv' /\ Mine' = Mine /\ running' = running
  BY <1>1, <1>4, LoopStaysKeepsRequests DEF LoopPlaces
<1>6. /\ completed' \in [Calls -> Nat] /\ status' \in [Calls -> Statuses]
      /\ \A c \in Calls :
           completed'[c] = IF c \in Mine \ ((active \union Elements(queue)) \ active) THEN 1 ELSE 0
      /\ \A c \in Calls \ active : status'[c] = status[c]
  BY <1>4, CompletedAre
<1>7. /\ Elements(queue)' = Elements(queue) /\ IsOnce(queue)' = IsOnce(queue)
      /\ Elements(queue) \intersect active = {} /\ Elements(queue) \subseteq Calls
  BY <1>1 DEF Elements, IsOnce, IInv, OnePlaceInv, Mine
<1>8. CallsTypeOK'
  BY <1>1, <1>4, <1>6 DEF IInv, CallsTypeOK, LoopStays
<1>9. OnePlaceInv'
  BY <1>4, <1>5, <1>6, <1>7 DEF IInv, OnePlaceInv
<1>10. PlacesInv'
  BY <1>1, <1>2, <1>4, <1>6, <1>7 DEF IInv, PlacesInv
<1>11. WaitersInv'
  BY <1>1, <1>4 DEF IInv, WaitersInv
<1> QED BY <1>5, <1>8, <1>9, <1>10, <1>11 DEF IInv

-----------------------------------------------------------------------------
(* Requests *)

\* A batch starts when all calls of the one before it are completed.
LEMMA StartBatchKeepsCalls ==
  ASSUME CallsTypeOK, queue = <<>>, active = {}, \A c \in Calls : at[c] = "out",
         NEW b \in Batches, NEW r \in Seq(Kinds), Len(r) =< MaxCalls, NEW o,
         StartBatch(b, r, o), asked'[b] = r, again' \in [Calls -> Nat],
         UNCHANGED <<active, at, terminalStays>>
  PROVE  CallsTypeOK' /\ OnePlaceInv' /\ PlacesInv' /\ WaitersInv'
<1> DEFINE new == CallsOf(b, r)
<1>1. /\ running' = b /\ loop' = "next" /\ queue' = new /\ active' = {} /\ at' = at
  <2>1. new \in Seq(Batches \X Nat)
    BY DEF CallsOf
  <2>2. queue' = <<>> \o new
    BY DEF StartBatch
  <2> QED BY <2>1, <2>2 DEF StartBatch
<1>2. Len(r) \in Nat /\ MaxCalls \in Nat
  BY SchedulerAssumption
<1>3. /\ new \in Seq(Calls) /\ Len(new) = Len(r)
      /\ \A i \in 1..Len(r) :
           new[i] = <<b, i>> /\ new[i] \in Calls /\ new[i][1] = b /\ new[i][2] = i
  <2>1. \A i \in 1..Len(r) : <<b, i>> \in Calls
    BY <1>2 DEF Calls
  <2> QED BY <1>2, <2>1 DEF CallsOf
<1>r. 1..Len(new) = 1..Len(r)
  BY <1>3
<1> HIDE DEF new
<1>4. IsOnce(new)
  BY <1>3, <1>r DEF IsOnce
<1>5. Mine' = Elements(new)
  <2>1. ASSUME NEW c \in Mine' PROVE c \in Elements(new)
    <3>1. c \in Calls /\ c[1] = b /\ c[2] =< Len(r) /\ c[2] \in 1..MaxCalls /\ c = <<c[1], c[2]>>
      BY <1>1, <2>1, CallParts DEF Mine, Size
    <3>2. c[2] \in 1..Len(r)
      BY <1>2, <3>1
    <3>3. new[c[2]] = <<b, c[2]>>
      BY <1>3, <3>2
    <3>4. new[c[2]] = c
      BY <3>1, <3>3
    <3> QED BY <1>r, <3>2, <3>4 DEF Elements
  <2>2. ASSUME NEW i \in 1..Len(r) PROVE new[i] \in Mine'
    <3>1. new[i] \in Calls /\ new[i][1] = b /\ new[i][2] = i
      BY <1>3
    <3>2. i =< Len(r)
      BY <1>2
    <3> QED BY <1>1, <3>1, <3>2 DEF Mine, Size
  <2> QED BY <1>r, <2>1, <2>2 DEF Elements
<1>6. ToSet(CallsOf(b, r)) = Elements(new)
  BY <1>3, ToSetIsElements DEF new
<1>7. \A c \in Elements(new) : c \in Calls /\ c[2] \in 1..Len(r)
  BY <1>3, <1>r DEF Elements
<1>8. /\ \A c \in Calls : completed'[c] = 0
      /\ completed' \in [Calls -> Nat]
      /\ status' = [c \in Calls |->
                     IF c \notin Elements(new) THEN status[c]
                     ELSE IF r[c[2]] = "bad" THEN "finished" ELSE "validating"]
      /\ waits' = [c \in Calls |-> IF c \in Elements(new) THEN r[c[2]] = "waits"
                                   ELSE c \in active /\ waits[c]]
  BY <1>6 DEF StartBatch
<1>9. CallsTypeOK'
  <2>1. status' \in [Calls -> Statuses]
    BY <1>8 DEF CallsTypeOK, Statuses
  <2>2. waits' \in [Calls -> BOOLEAN]
    BY <1>8
  <2> QED BY <1>1, <1>3, <1>8, <2>1, <2>2 DEF CallsTypeOK
<1>10. OnePlaceInv'
  <2>1. IsOnce(queue)' = IsOnce(new) /\ Elements(queue)' = Elements(new)
    BY <1>1 DEF IsOnce, Elements
  <2> QED BY <1>1, <1>4, <1>5, <1>8, <2>1 DEF OnePlaceInv
<1>11. PlacesInv'
  <2>1. Elements(queue)' = Elements(new)
    BY <1>1 DEF Elements
  <2>2. \A c \in Elements(new) : status'[c] \in {"validating", "finished"}
    BY <1>7, <1>8
  <2> QED BY <1>1, <2>1, <2>2 DEF PlacesInv
<1>12. WaitersInv'
  <2>1. \A i, j \in 1..Len(new) : i < j => new[i][2] < new[j][2]
    BY <1>3, <1>r
  <2> QED BY <1>1, <2>1 DEF WaitersInv
<1> QED BY <1>9, <1>10, <1>11, <1>12

\* Between two batches the scheduler has no calls, and while none runs no requests.
LEMMA BetweenBatches ==
  ASSUME IInv, loop \in {"idle", "end"}
  PROVE  queue = <<>> /\ active = {} /\ \A c \in Calls : at[c] = "out"
BY DEF IInv, PlacesInv

LEMMA ScheduleKeepsInv ==
  ASSUME IInv, NEW b \in Batches, NEW r \in Requests[b], Schedule(b, r)
  PROVE  IInv'
<1>1. r \in Seq(Kinds) /\ Len(r) \in Nat /\ Len(r) =< MaxCalls /\ r # <<>>
  BY SchedulerAssumption DEF Kinds
<1>2. /\ outcome[b] = "new" /\ asked' \in [Batches -> Seq(Kinds)]
      /\ asked'[b] = r /\ \A a \in Batches \ {b} : asked'[a] = asked[a]
      /\ b \notin Elements(line) /\ b # running
      /\ UNCHANGED <<answer, aborted, active, again, at, terminalStays>>
  BY <1>1 DEF Schedule, IInv, RequestsTypeOK, RequestsInv
<1>3. CASE running = Nobody
  <2>1. /\ loop = "idle" /\ line = <<>> /\ queue = <<>> /\ active = {}
        /\ \A c \in Calls : at[c] = "out"
    BY <1>3, BetweenBatches DEF IInv, RequestsInv
  <2>2. StartBatch(b, r, outcome) /\ line' = line
    BY <1>3, <2>1 DEF Schedule
  <2>3. CallsTypeOK' /\ OnePlaceInv' /\ PlacesInv' /\ WaitersInv'
    BY <1>1, <1>2, <2>1, <2>2, StartBatchKeepsCalls DEF IInv, CallsTypeOK
  <2>4. /\ running' = b /\ loop' = "next" /\ cancelling' = FALSE
        /\ outcome' = [outcome EXCEPT ![b] = "running"]
    BY <2>2 DEF StartBatch
  <2>5. RequestsTypeOK'
    BY <1>2, <2>2, <2>4 DEF IInv, RequestsTypeOK, Outcomes, LoopPlaces
  <2>6. Elements(line)' = Elements(line) /\ IsOnce(line)' = IsOnce(line)
    BY <2>2 DEF Elements, IsOnce
  <2>7. RequestsInv'
    BY <1>1, <1>2, <1>3, <2>2, <2>4, <2>6, SchedulerAssumption
       DEF IInv, RequestsTypeOK, RequestsInv
  <2> QED BY <2>3, <2>5, <2>7 DEF IInv
<1>4. CASE running # Nobody
  <2>1. /\ outcome' = [outcome EXCEPT ![b] = IF b \in aborted THEN "rejected" ELSE "queued"]
        /\ line' = IF b \in aborted THEN line ELSE Append(line, b)
        /\ UNCHANGED <<running, cancelling, loop, queue, completed, status, waits>>
    BY <1>4 DEF Schedule, Joined
  <2>2. /\ line' \in Seq(Batches) /\ IsOnce(line')
        /\ Elements(line') = IF b \in aborted THEN Elements(line) ELSE Elements(line) \union {b}
    <3>1. line \in Seq(Batches) /\ IsOnce(line)
      BY DEF IInv, RequestsTypeOK, RequestsInv
    <3>2. /\ Append(line, b) \in Seq(Batches) /\ IsOnce(Append(line, b))
          /\ Elements(Append(line, b)) = Elements(line) \union {b}
      BY <1>2, <3>1, PuttingLast
    <3>3. CASE b \in aborted
      BY <2>1, <3>1, <3>3
    <3>4. CASE b \notin aborted
      BY <2>1, <3>2, <3>4
    <3> QED BY <3>3, <3>4
  <2>3. Elements(line)' = Elements(line') /\ IsOnce(line)' = IsOnce(line')
    BY DEF Elements, IsOnce
  <2>4. RequestsTypeOK'
    BY <1>2, <2>1, <2>2 DEF IInv, RequestsTypeOK, Outcomes
  <2>5. \A a \in Batches :
          outcome'[a] = IF a # b THEN outcome[a]
                        ELSE IF b \in aborted THEN "rejected" ELSE "queued"
    BY <2>1 DEF IInv, RequestsTypeOK
  <2>6. RequestsInv'
    BY <1>1, <1>2, <1>4, <2>1, <2>2, <2>3, <2>5 DEF IInv, RequestsInv
  <2>7. Mine' = Mine
    BY <1>2, <1>4, <2>1 DEF Mine, Size, IInv, RequestsTypeOK
  <2>8. CallsTypeOK' /\ OnePlaceInv' /\ PlacesInv' /\ WaitersInv'
    BY <1>2, <2>1, <2>7
       DEF IInv, CallsTypeOK, OnePlaceInv, PlacesInv, WaitersInv, IsOnce, Elements
  <2> QED BY <2>4, <2>6, <2>8 DEF IInv
<1> QED BY <1>3, <1>4

\* What only concerns requests leaves the calls where they are.
LEMMA CallsStay ==
  ASSUME IInv, UNCHANGED <<asked, running, loop, terminalStays>>,
         UNCHANGED <<queue, active, completed, status, waits, again, at>>
  PROVE  CallsTypeOK' /\ OnePlaceInv' /\ PlacesInv' /\ WaitersInv'
<1>1. Mine' = Mine /\ IsOnce(queue)' = IsOnce(queue) /\ Elements(queue)' = Elements(queue)
  BY DEF Mine, Size, IsOnce, Elements
<1>2. CallsTypeOK' /\ OnePlaceInv'
  BY <1>1 DEF IInv, CallsTypeOK, OnePlaceInv
<1>3. PlacesInv'
  BY <1>1 DEF IInv, PlacesInv
<1>4. WaitersInv'
  BY DEF IInv, WaitersInv
<1> QED BY <1>2, <1>3, <1>4

\* The line without a request whose signal is aborted.
LEMMA WithoutLeavesTheOthers ==
  ASSUME IInv, NEW b \in Batches
  PROVE  /\ Without(b) \in Seq(Batches) /\ IsOnce(Without(b))
         /\ Elements(Without(b)) = Elements(line) \ {b}
<1>1. line \in Seq(Batches) /\ IsOnce(line) /\ ToSet(line) = Elements(line)
  BY ToSetIsElements DEF IInv, RequestsTypeOK, RequestsInv
<1>2. CASE b \in Elements(line)
  <2> DEFINE n == CHOOSE i \in 1..Len(line) : line[i] = b
  <2>1. n \in 1..Len(line) /\ line[n] = b
    BY <1>2 DEF Elements
  <2>2. Without(b) = RemoveAt(line, n)
    BY <1>1, <1>2 DEF Without
  <2> HIDE DEF n
  <2> QED BY <1>1, <2>1, <2>2, RemovingOne
<1>3. CASE b \notin Elements(line)
  BY <1>1, <1>3 DEF Without
<1> QED BY <1>2, <1>3

LEMMA AbortKeepsInv ==
  ASSUME IInv, NEW b \in Batches, Abort(b)
  PROVE  IInv'
<1>1. /\ line' \in Seq(Batches) /\ IsOnce(line') /\ Elements(line') = Elements(line) \ {b}
  BY WithoutLeavesTheOthers DEF Abort
<1>2. Elements(line)' = Elements(line') /\ IsOnce(line)' = IsOnce(line')
  BY DEF Elements, IsOnce
<1>3. /\ \A a \in Batches :
           outcome'[a] = IF a = b /\ outcome[b] = "queued" THEN "rejected" ELSE outcome[a]
      /\ outcome' \in [Batches -> Outcomes]
  BY DEF Abort, IInv, RequestsTypeOK, Outcomes
<1>4. UNCHANGED <<asked, answer, running, cancelling, loop, callVars, terminalStays>>
  BY DEF Abort
<1>5. RequestsTypeOK'
  BY <1>1, <1>3, <1>4 DEF Abort, IInv, RequestsTypeOK
<1>6. running = Nobody => line' = <<>>
  <2>1. running = Nobody => Elements(line) = {}
    BY DEF IInv, RequestsInv, Elements
  <2> QED BY <2>1 DEF Abort, Without, IInv, RequestsInv, ToSet
<1>7. RequestsInv'
  BY <1>1, <1>2, <1>3, <1>4, <1>6 DEF IInv, RequestsInv
<1>8. CallsTypeOK' /\ OnePlaceInv' /\ PlacesInv' /\ WaitersInv'
  BY <1>4, CallsStay DEF callVars
<1> QED BY <1>5, <1>7, <1>8 DEF IInv

\* Cancellation completes all that is queued, and those that are active finish.
LEMMA CancelOngoingKeepsInv ==
  ASSUME IInv, CancelOngoingRequest
  PROVE  IInv'
<1>1. /\ running # Nobody /\ running \in Batches /\ aborted' = aborted \union {running}
      /\ UNCHANGED <<asked, answer, running, loop, active, waits, again, at, terminalStays>>
  BY DEF CancelOngoingRequest, IInv, RequestsTypeOK
<1>2. CASE cancelling
  <2>1. UNCHANGED <<cancelling, line, outcome, status, queue, completed>>
    BY <1>2 DEF CancelOngoingRequest
  <2>2. RequestsTypeOK' /\ RequestsInv'
    BY <1>1, <2>1 DEF IInv, RequestsTypeOK, RequestsInv, IsOnce, Elements
  <2>3. CallsTypeOK' /\ OnePlaceInv' /\ PlacesInv' /\ WaitersInv'
    BY <1>1, <2>1, CallsStay
  <2> QED BY <2>2, <2>3 DEF IInv
<1>3. CASE ~cancelling
  <2>1. /\ cancelling' = TRUE /\ line' = <<>> /\ queue' = <<>>
        /\ outcome' = [b \in Batches |-> IF b \in ToSet(line) THEN "rejected" ELSE outcome[b]]
        /\ completed' = [c \in Calls |-> completed[c] + InQueue(c)]
        /\ status' = [c \in Calls |-> IF c \in active THEN "finished" ELSE "none"]
    BY <1>3 DEF CancelOngoingRequest
  <2>2. ToSet(line) = Elements(line)
    BY ToSetIsElements DEF IInv, RequestsTypeOK
  <2>3. /\ Elements(line)' = {} /\ IsOnce(line)' /\ Elements(queue)' = {} /\ IsOnce(queue)'
        /\ Len(queue') = 0
    BY <2>1 DEF Elements, IsOnce
  <2>4. RequestsTypeOK'
    BY <1>1, <2>1 DEF IInv, RequestsTypeOK, Outcomes
  <2>5. RequestsInv'
    BY <1>1, <2>1, <2>2, <2>3 DEF IInv, RequestsInv, RequestsTypeOK
  <2>6. Mine' = Mine
    BY <1>1 DEF Mine, Size
  <2>7. \A c \in Calls : completed'[c] = IF c \in Mine \ active THEN 1 ELSE 0
    <3>1. SUFFICES ASSUME NEW c \in Calls
                   PROVE  completed'[c] = IF c \in Mine \ active THEN 1 ELSE 0
      OBVIOUS
    <3>2. completed'[c] = completed[c] + InQueue(c)
      BY <2>1
    <3>3. InQueue(c) = IF c \in Elements(queue) THEN 1 ELSE 0
      BY InQueueCounts DEF IInv, CallsTypeOK, OnePlaceInv
    <3>4. completed[c] = IF c \in Mine \ (active \union Elements(queue)) THEN 1 ELSE 0
      BY DEF IInv, OnePlaceInv
    <3>5. Elements(queue) \subseteq Mine /\ Elements(queue) \intersect active = {}
      BY DEF IInv, OnePlaceInv
    <3> QED BY <3>2, <3>3, <3>4, <3>5
  <2>8. CallsTypeOK'
    <3>1. completed' \in [Calls -> Nat]
      BY <2>1, <2>7
    <3>2. status' \in [Calls -> Statuses]
      BY <2>1 DEF Statuses
    <3> QED BY <1>1, <2>1, <3>1, <3>2 DEF IInv, CallsTypeOK
  <2>9. OnePlaceInv'
    BY <1>1, <2>3, <2>6, <2>7 DEF IInv, OnePlaceInv
  <2>10. PlacesInv'
    <3>1. \A c \in active : status'[c] = "finished"
      BY <2>1 DEF IInv, CallsTypeOK
    <3> QED BY <1>1, <2>1, <2>3, <3>1 DEF IInv, PlacesInv
  <2>11. WaitersInv'
    <3>1. ASSUME NEW c \in active, waits[c], again[c] = 0, NEW i \in 1..(c[2] - 1)
          PROVE  completed'[<<c[1], i>>] = 1
      <4>1. completed[<<c[1], i>>] = 1
        BY <3>1 DEF IInv, WaitersInv
      <4>2. <<c[1], i>> \in Calls
        BY EarlierCalls DEF IInv, CallsTypeOK
      <4>3. <<c[1], i>> \in Mine \ active
        BY <4>1, <4>2 DEF IInv, OnePlaceInv
      <4> QED BY <2>7, <4>2, <4>3
    <3> QED BY <1>1, <2>3, <3>1 DEF IInv, WaitersInv
  <2> QED BY <2>4, <2>5, <2>8, <2>9, <2>10, <2>11 DEF IInv
<1> QED BY <1>2, <1>3

LEMMA CancelIdleKeepsInv ==
  ASSUME IInv, CancelIdle
  PROVE  IInv'
<1>1. cancelling' = TRUE
  BY DEF CancelIdle
<1>2. /\ UNCHANGED <<asked, outcome, answer, aborted, running, line, loop, terminalStays>>
      /\ UNCHANGED callVars
  BY DEF CancelIdle
<1>3. RequestsTypeOK' /\ RequestsInv'
  BY <1>1, <1>2 DEF IInv, RequestsTypeOK, RequestsInv, IsOnce, Elements
<1>4. CallsTypeOK' /\ OnePlaceInv' /\ PlacesInv' /\ WaitersInv'
  BY <1>2, CallsStay DEF callVars
<1> QED BY <1>3, <1>4 DEF IInv

\* The next request of the line starts, or nothing is left at all.
LEMMA EndBatchKeepsInv ==
  ASSUME IInv, EndBatch
  PROVE  IInv'
<1> DEFINE settled == [outcome EXCEPT ![running] = "answered"]
<1>1. /\ loop = "end" /\ queue = <<>> /\ active = {} /\ \A c \in Calls : at[c] = "out"
      /\ running # Nobody /\ running \in Batches
  BY BetweenBatches DEF EndBatch, IInv, RequestsInv, RequestsTypeOK
<1>2. /\ settled \in [Batches -> Outcomes]
      /\ \A a \in Batches : settled[a] = IF a = running THEN "answered" ELSE outcome[a]
  BY <1>1 DEF IInv, RequestsTypeOK, Outcomes
<1>3. /\ UNCHANGED <<asked, aborted, active, at, terminalStays>>
      /\ DOMAIN answer' = Batches
      /\ again' \in [Calls -> Nat]
  BY <1>1 DEF EndBatch, IInv, RequestsTypeOK
<1> HIDE DEF settled
<1>4. CASE line # <<>>
  <2> DEFINE b == Head(line)
  <2>1. StartBatch(b, asked[b], settled) /\ line' = Tail(line)
    BY <1>1, <1>4 DEF EndBatch, settled
  <2>2. /\ line' \in Seq(Batches) /\ b \in Elements(line) /\ b \in Batches
        /\ IsOnce(line') /\ Elements(line') = Elements(line) \ {b}
    BY <1>4, <2>1, TakingHead DEF IInv, RequestsTypeOK, RequestsInv
  <2>3. Elements(line)' = Elements(line') /\ IsOnce(line)' = IsOnce(line')
    BY DEF Elements, IsOnce
  <2> HIDE DEF b
  <2>4. asked[b] \in Seq(Kinds) /\ Len(asked[b]) =< MaxCalls /\ asked'[b] = asked[b]
    BY <1>3, <2>2 DEF IInv, RequestsTypeOK, RequestsInv
  <2>5. CallsTypeOK' /\ OnePlaceInv' /\ PlacesInv' /\ WaitersInv'
    BY <1>1, <1>3, <2>1, <2>2, <2>4, StartBatchKeepsCalls DEF IInv
  <2>6. /\ running' = b /\ loop' = "next" /\ cancelling' = FALSE
        /\ outcome' = [settled EXCEPT ![b] = "running"]
    BY <2>1 DEF StartBatch
  <2>7. /\ outcome' \in [Batches -> Outcomes]
        /\ \A a \in Batches : outcome'[a] = IF a = b THEN "running"
                                            ELSE IF a = running THEN "answered" ELSE outcome[a]
    BY <1>2, <2>6 DEF Outcomes
  <2>8. RequestsTypeOK'
    BY <1>3, <2>2, <2>6, <2>7 DEF IInv, RequestsTypeOK, LoopPlaces
  <2>9. outcome[b] = "queued" /\ outcome[running] = "running" /\ b # running
    BY <1>1, <2>2 DEF IInv, RequestsInv
  <2>10. RequestsInv'
    BY <1>1, <1>3, <2>2, <2>3, <2>6, <2>7, <2>9, SchedulerAssumption
       DEF IInv, RequestsInv
  <2> QED BY <2>5, <2>8, <2>10 DEF IInv
<1>5. CASE line = <<>>
  <2>1. /\ running' = Nobody /\ loop' = "idle" /\ line' = line /\ outcome' = settled
        /\ completed' = [c \in Calls |-> 0]
        /\ waits' = [c \in Calls |-> c \in active /\ waits[c]]
        /\ UNCHANGED <<cancelling, queue, status>>
    BY <1>5 DEF EndBatch, settled
  <2>2. RequestsTypeOK'
    BY <1>2, <1>3, <2>1 DEF IInv, RequestsTypeOK, LoopPlaces
  <2>3. Elements(line)' = Elements(line) /\ IsOnce(line)' = IsOnce(line)
    BY <2>1 DEF Elements, IsOnce
  <2>4. RequestsInv'
    BY <1>1, <1>2, <1>3, <1>5, <2>1, <2>3, SchedulerAssumption DEF IInv, RequestsInv
  <2>5. Mine' = {}
    BY <2>1, CallParts, SchedulerAssumption DEF Mine
  <2>6. Elements(queue)' = {} /\ IsOnce(queue)' /\ Len(queue') = 0
    BY <1>1, <2>1 DEF Elements, IsOnce
  <2>7. CallsTypeOK'
    BY <1>3, <2>1 DEF IInv, CallsTypeOK
  <2>8. OnePlaceInv'
    BY <1>1, <1>3, <2>1, <2>5, <2>6 DEF OnePlaceInv
  <2>9. PlacesInv' /\ WaitersInv'
    BY <1>1, <1>3, <2>1, <2>6 DEF PlacesInv, WaitersInv
  <2> QED BY <2>2, <2>4, <2>7, <2>8, <2>9 DEF IInv
<1> QED BY <1>4, <1>5

-----------------------------------------------------------------------------
(* The invariant *)

LEMMA InitEstablishesInv ==
  ASSUME SchedulerInit
  PROVE  IInv
<1>1. /\ Elements(<<>>) = {} /\ IsOnce(<<>>) /\ Len(<<>>) = 0
  BY DEF Elements, IsOnce
<1>2. Mine = {}
  BY CallParts, SchedulerAssumption DEF SchedulerInit, Mine
<1>3. RequestsTypeOK
  <2>1. <<>> \in Seq(Kinds) /\ <<>> \in Seq(Batches)
    OBVIOUS
  <2>2. asked \in [Batches -> Seq(Kinds)] /\ outcome \in [Batches -> Outcomes]
    BY <2>1 DEF SchedulerInit, Outcomes
  <2>3. DOMAIN answer = Batches
    BY DEF SchedulerInit
  <2> QED BY <2>1, <2>2, <2>3 DEF SchedulerInit, RequestsTypeOK, LoopPlaces
<1>4. CallsTypeOK
  BY DEF SchedulerInit, CallsTypeOK, Statuses, CallPlaces
<1>5. RequestsInv
  BY <1>1, SchedulerAssumption DEF SchedulerInit, RequestsInv
<1>6. OnePlaceInv
  BY <1>1, <1>2 DEF SchedulerInit, OnePlaceInv
<1>7. PlacesInv /\ WaitersInv
  BY <1>1 DEF SchedulerInit, PlacesInv, WaitersInv
<1> QED BY <1>3, <1>4, <1>5, <1>6, <1>7 DEF IInv

LEMMA StepKeepsInv ==
  ASSUME IInv, [SchedulerNext]_vars
  PROVE  IInv'
<1>1. ASSUME NEW b \in Batches, Abort(b)
      PROVE  IInv'
  BY <1>1, AbortKeepsInv
<1>2. ASSUME NEW b \in Batches, NEW r \in Requests[b], Schedule(b, r)
      PROVE  IInv'
  BY <1>2, ScheduleKeepsInv
<1>3. CASE CancelOngoingRequest
  BY <1>3, CancelOngoingKeepsInv
<1>4. CASE CancelIdle
  BY <1>4, CancelIdleKeepsInv
<1>5. CASE LoopStep
  BY <1>5, StopOrFinishKeepsInv, FinalizeErroredKeepsInv, TakeCallsKeepsInv,
     ExecuteScheduledKeepsInv, FinalizeTerminalKeepsInv, EndBatchKeepsInv DEF LoopStep
<1>6. ASSUME NEW c \in Calls, CallStep(c) \/ LiveOutput(c)
      PROVE  IInv'
  BY <1>6, CallStepKeepsInv, DenyKeepsInv, ReturnTailKeepsInv DEF CallStep
<1>7. CASE UNCHANGED vars
  <2>1. /\ UNCHANGED <<asked, outcome, answer, aborted, running, cancelling, line>>
        /\ UNCHANGED <<queue, active, completed, status, waits, again, at>>
        /\ UNCHANGED <<loop, terminalStays>>
    BY <1>7 DEF vars, requestVars, callVars
  <2>2. RequestsTypeOK' /\ RequestsInv'
    BY <2>1 DEF IInv, RequestsTypeOK, RequestsInv, IsOnce, Elements
  <2> QED BY <2>1, <2>2, CallsStay DEF IInv
<1> QED BY <1>1, <1>2, <1>3, <1>4, <1>5, <1>6, <1>7 DEF SchedulerNext

\* IInv holds in every state of every behaviour, whoever asks, cancels, denies or aborts.
THEOREM SchedulerInvariant == SchedulerSpec => []IInv
<1>1. SchedulerInit => IInv
  BY InitEstablishesInv
<1>2. IInv /\ [SchedulerNext]_vars => IInv'
  BY StepKeepsInv
<1> QED BY <1>1, <1>2, PTL DEF SchedulerSpec

\* Every variable stays in its type; no result of a call is ever counted below zero, and
\* no index of a queue or of the line leaves it.
THEOREM SchedulerTypeCorrect == SchedulerSpec => [](RequestsTypeOK /\ CallsTypeOK)
<1>1. IInv => RequestsTypeOK /\ CallsTypeOK
  BY DEF IInv
<1> QED BY <1>1, SchedulerInvariant, PTL

\* Whatever is cancelled, denied, replaced by a tail call or aborted between two awaits,
\* each call of the batch that runs is queued, active or completed, and once.
THEOREM CallsStayInOnePlace == SchedulerSpec => []CallsAreInOnePlace
<1>1. ASSUME IInv, NEW c \in Calls
      PROVE  InQueue(c) + (IF c \in active THEN 1 ELSE 0) + completed[c] =
               IF c[1] = running /\ c[2] =< Size(c[1]) THEN 1 ELSE 0
  <2>1. InQueue(c) = IF c \in Elements(queue) THEN 1 ELSE 0
    BY <1>1, InQueueCounts DEF IInv, CallsTypeOK, OnePlaceInv
  <2>2. completed[c] = IF c \in Mine \ (active \union Elements(queue)) THEN 1 ELSE 0
    BY <1>1 DEF IInv, OnePlaceInv
  <2>3. /\ Elements(queue) \subseteq Mine /\ active \subseteq Mine
        /\ Elements(queue) \intersect active = {}
    BY <1>1 DEF IInv, OnePlaceInv
  <2>4. c \in Mine <=> c[1] = running /\ c[2] =< Size(c[1])
    BY DEF Mine
  <2> HIDE DEF Mine
  <2>5. InQueue(c) + (IF c \in active THEN 1 ELSE 0) + completed[c] = IF c \in Mine THEN 1 ELSE 0
    BY <2>1, <2>2, <2>3
  <2> QED BY <2>4, <2>5
<1>2. IInv => CallsAreInOnePlace
  BY <1>1 DEF CallsAreInOnePlace
<1> QED BY <1>2, SchedulerInvariant, PTL

\* No round of the loop begins or ends with a call still active, and when no batch runs
\* no request waits: the scheduler never refuses to serve because of a forgotten call.
THEOREM NothingStaysBehind == SchedulerSpec => []NothingIsLeftBehind
<1>1. IInv => NothingIsLeftBehind
  BY DEF IInv, RequestsInv, PlacesInv, NothingIsLeftBehind
<1> QED BY <1>1, SchedulerInvariant, PTL

\* A call that has to wait for those before it executes alone, and after them.
THEOREM WaitersAreAlone == SchedulerSpec => []WaitersRunAlone
<1>1. IInv => WaitersRunAlone
  BY DEF IInv, PlacesInv, WaitersInv, WaitersRunAlone
<1> QED BY <1>1, SchedulerInvariant, PTL

\* A tool is started, for the first time, as a tail call or with more permissions, only
\* while the signal of its batch is not aborted.
THEOREM AbortedStartNothing == SchedulerSpec => NoneStartsAfterAbort
<1>1. ASSUME IInv, SchedulerNext, NEW c \in Calls, at[c] # "executing", at'[c] = "executing"
      PROVE  c[1] \notin aborted
  <2>1. c \in active => c[1] = running
    BY <1>1 DEF IInv, OnePlaceInv, Mine
  <2>2. \A d \in Calls : at[d] # "out" => d \in active
    BY <1>1 DEF IInv, PlacesInv
  <2>3. at \in [Calls -> CallPlaces]
    BY <1>1 DEF IInv, CallsTypeOK
  <2>4. CASE ExecuteScheduled
    BY <1>1, <2>1, <2>4 DEF ExecuteScheduled
  <2>5. CASE TakeCalls
    BY <1>1, <2>5 DEF TakeCalls
  <2>6. CASE \E d \in Calls : Expand(d)
    BY <1>1, <2>1, <2>2, <2>3, <2>6 DEF Expand, Settle
  <2>7. CASE \E d \in Calls : \/ Check(d) \/ Confirm(d) \/ Deny(d) \/ Return(d)
                              \/ ReturnTail(d) \/ AskExpansion(d) \/ DenyExpansion(d)
    BY <1>1, <2>3, <2>7
       DEF Check, Confirm, Deny, Return, ReturnTail, AskExpansion, DenyExpansion, Settle
  <2>8. CASE UNCHANGED at
    BY <1>1, <2>8
  <2>9. \/ ExecuteScheduled \/ TakeCalls \/ UNCHANGED at
        \/ \E d \in Calls : CallStep(d)
    BY <1>1 DEF SchedulerNext, LoopStep, Abort, Schedule, CancelOngoingRequest, CancelIdle,
       callVars, LiveOutput, StopOrFinish, FinalizeErrored, FinalizeTerminal, EndBatch
  <2> QED BY <2>4, <2>5, <2>6, <2>7, <2>8, <2>9 DEF CallStep
<1>2. IInv /\ [SchedulerNext]_vars =>
        [\A c \in Calls : at[c] # "executing" /\ at'[c] = "executing" => c[1] \notin aborted]_vars
  BY <1>1
<1> QED BY <1>2, SchedulerInvariant, PTL DEF SchedulerSpec, NoneStartsAfterAbort

-----------------------------------------------------------------------------
(* The scheduler implements RequestLine *)

\* The sizes of all requests, and those that were rejected, as RequestLine sees them.
Sizes == [b \in Batches |-> Size(b)]
Refused == {b \in Batches : outcome[b] = "rejected"}

LEMMA InitIsLineInit ==
  ASSUME SchedulerInit
  PROVE  RL!LineInit
<1>1. Sizes = [b \in Batches |-> 0]
  BY DEF SchedulerInit, Sizes, Size
<1>2. Refused = {}
  BY DEF SchedulerInit, Refused
<1> QED BY <1>1, <1>2 DEF SchedulerInit, RL!LineInit, Sizes, Refused

\* A step that changes neither a request nor its answer is none of RequestLine.
LEMMA StuttersOnTheLine ==
  ASSUME UNCHANGED <<line, running, asked, answer>>, Refused' = Refused
  PROVE  UNCHANGED RL!lineVars
BY DEF RL!lineVars, Refused, Size

LEMMA ScheduleIsArrival ==
  ASSUME IInv, NEW b \in Batches, NEW r \in Requests[b], Schedule(b, r)
  PROVE  RL!Arrive(b)
<1>1. Len(r) \in Nat \ {0} /\ r \in Seq(Kinds)
  BY SchedulerAssumption DEF Kinds
<1>2. outcome[b] = "new" /\ asked[b] = <<>> /\ asked' = [asked EXCEPT ![b] = r]
  BY DEF Schedule, IInv, RequestsInv
<1>3. Sizes[b] = 0 /\ b \notin Refused
  BY <1>2 DEF Sizes, Size, Refused
<1>4. Sizes' = [Sizes EXCEPT ![b] = Len(r)] /\ Sizes'[b] = Len(r)
  BY <1>2 DEF Sizes, Size, IInv, RequestsTypeOK
<1>5. answer' = answer
  BY DEF Schedule
<1>6. \/ running = Nobody /\ running' = b /\ line' = line /\ Refused' = Refused
      \/ running # Nobody /\ line' = Append(line, b) /\ running' = running /\ Refused' = Refused
      \/ running # Nobody /\ Refused' = Refused \union {b} /\ line' = line /\ running' = running
  <2>0. outcome \in [Batches -> Outcomes]
    BY DEF IInv, RequestsTypeOK
  <2>1. CASE running = Nobody
    <3>1. active = {}
      BY <2>1, BetweenBatches DEF IInv, RequestsInv
    <3>2. /\ running' = b /\ line' = line /\ outcome' = [outcome EXCEPT ![b] = "running"]
      BY <2>1, <3>1 DEF Schedule, StartBatch
    <3> QED BY <1>2, <2>0, <2>1, <3>2 DEF Refused
  <2>2. CASE running # Nobody /\ b \notin aborted
    <3>1. /\ running' = running /\ line' = Append(line, b)
          /\ outcome' = [outcome EXCEPT ![b] = "queued"]
      BY <2>2 DEF Schedule, Joined
    <3> QED BY <1>2, <2>0, <2>2, <3>1 DEF Refused
  <2>3. CASE running # Nobody /\ b \in aborted
    <3>1. /\ running' = running /\ line' = line
          /\ outcome' = [outcome EXCEPT ![b] = "rejected"]
      BY <2>3 DEF Schedule
    <3> QED BY <1>2, <2>0, <2>3, <3>1 DEF Refused
  <2> QED BY <2>1, <2>2, <2>3
<1> QED BY <1>1, <1>3, <1>4, <1>5, <1>6 DEF RL!Arrive, Sizes, Refused

LEMMA AbortTurnsAway ==
  ASSUME IInv, NEW b \in Batches, Abort(b)
  PROVE  \/ \E i \in 1..Len(line) : RL!TurnAway(i)
         \/ UNCHANGED RL!lineVars
<1>1. /\ outcome' = [outcome EXCEPT ![b] = IF @ = "queued" THEN "rejected" ELSE @]
      /\ line' = Without(b) /\ UNCHANGED <<running, asked, answer>>
      /\ outcome \in [Batches -> Outcomes] /\ ToSet(line) = Elements(line)
      /\ outcome[b] = "queued" <=> b \in Elements(line)
  BY ToSetIsElements DEF Abort, IInv, RequestsTypeOK, RequestsInv
<1>2. CASE b \in Elements(line)
  <2> DEFINE n == CHOOSE i \in 1..Len(line) : line[i] = b
  <2>1. n \in 1..Len(line) /\ line[n] = b
    BY <1>2 DEF Elements
  <2>2. line' = RemoveAt(line, n)
    BY <1>1, <1>2 DEF Without
  <2> HIDE DEF n
  <2>3. Refused' = Refused \union {line[n]}
    BY <1>1, <1>2, <2>1 DEF Refused
  <2>4. Sizes' = Sizes
    BY <1>1 DEF Sizes, Size
  <2> QED BY <1>1, <2>1, <2>2, <2>3, <2>4 DEF RL!TurnAway, RL!RemoveAt, RemoveAt, Refused, Sizes
<1>3. CASE b \notin Elements(line)
  BY <1>1, <1>3, StuttersOnTheLine DEF Without, Refused
<1> QED BY <1>2, <1>3

LEMMA CancelTurnsAllAway ==
  ASSUME IInv, CancelOngoingRequest
  PROVE  RL!TurnAllAway \/ UNCHANGED RL!lineVars
<1>1. CASE cancelling
  BY <1>1, StuttersOnTheLine DEF CancelOngoingRequest, Refused
<1>2. CASE ~cancelling
  <2>1. /\ line' = <<>> /\ UNCHANGED <<asked, answer, running>>
        /\ outcome' = [b \in Batches |-> IF b \in ToSet(line) THEN "rejected" ELSE outcome[b]]
    BY <1>2 DEF CancelOngoingRequest
  <2>2. ToSet(line) \subseteq Batches
    BY DEF IInv, RequestsTypeOK, ToSet
  <2>3. Refused' = Refused \union ToSet(line)
    BY <2>1, <2>2 DEF Refused
  <2>4. Sizes' = Sizes
    BY <2>1 DEF Sizes, Size
  <2> QED BY <2>1, <2>3, <2>4 DEF RL!TurnAllAway, RL!ToSet, ToSet, Refused, Sizes
<1> QED BY <1>1, <1>2

LEMMA EndBatchIsAnswer ==
  ASSUME IInv, EndBatch
  PROVE  RL!Answer
<1>1. /\ loop = "end" /\ queue = <<>> /\ active = {}
      /\ running # Nobody /\ running \in Batches
  BY BetweenBatches DEF EndBatch, IInv, RequestsInv, RequestsTypeOK
<1>2. \A i \in 1..Size(running) : completed[<<running, i>>] = 1
  <2>1. SUFFICES ASSUME NEW i \in 1..Size(running) PROVE completed[<<running, i>>] = 1
    OBVIOUS
  <2>2. Size(running) \in Nat /\ Size(running) =< MaxCalls /\ MaxCalls \in Nat
    BY <1>1, SchedulerAssumption DEF Size, IInv, RequestsTypeOK, RequestsInv
  <2>3. i \in 1..MaxCalls /\ i =< Size(running)
    BY <2>2
  <2>4. <<running, i>> \in Mine
    BY <1>1, <2>3 DEF Mine, Calls
  <2>5. Elements(queue) = {}
    BY <1>1 DEF Elements
  <2> QED BY <1>1, <2>4, <2>5 DEF IInv, OnePlaceInv, Mine
<1>3. Sizes[running] = Size(running) /\ Sizes' = Sizes
  BY <1>1 DEF EndBatch, Sizes, Size
<1>4. answer' = [answer EXCEPT ![running] = [i \in 1..Sizes[running] |-> 1]]
  <2>1. [i \in 1..Size(running) |-> completed[<<running, i>>]] = [i \in 1..Sizes[running] |-> 1]
    BY <1>2, <1>3
  <2> QED BY <2>1 DEF EndBatch
<1>5. outcome \in [Batches -> Outcomes] /\ outcome[running] = "running"
  BY <1>1 DEF IInv, RequestsTypeOK, RequestsInv
<1>6. CASE line # <<>>
  <2>1. /\ running' = Head(line) /\ line' = Tail(line)
        /\ outcome' = [[outcome EXCEPT ![running] = "answered"] EXCEPT ![Head(line)] = "running"]
    BY <1>1, <1>6 DEF EndBatch, StartBatch
  <2>2. Head(line) \in Elements(line) /\ Head(line) \in Batches
    BY <1>6, TakingHead DEF IInv, RequestsTypeOK, RequestsInv
  <2>3. outcome[Head(line)] = "queued"
    BY <2>2 DEF IInv, RequestsInv
  <2>4. Refused' = Refused
    BY <1>1, <1>5, <2>1, <2>2, <2>3 DEF Refused
  <2> QED BY <1>1, <1>3, <1>4, <1>6, <2>1, <2>4 DEF RL!Answer, Sizes, Refused
<1>7. CASE line = <<>>
  <2>1. running' = Nobody /\ line' = line /\ outcome' = [outcome EXCEPT ![running] = "answered"]
    BY <1>1, <1>7 DEF EndBatch
  <2>2. Refused' = Refused
    BY <1>1, <1>5, <2>1 DEF Refused
  <2> QED BY <1>1, <1>3, <1>4, <1>7, <2>1, <2>2 DEF RL!Answer, Sizes, Refused
<1> QED BY <1>6, <1>7

LEMMA StepIsLineStep ==
  ASSUME IInv, [SchedulerNext]_vars
  PROVE  [RL!LineNext]_(RL!lineVars)
<1>1. ASSUME NEW b \in Batches, Abort(b) \/ \E r \in Requests[b] : Schedule(b, r)
      PROVE  RL!LineNext \/ UNCHANGED RL!lineVars
  BY <1>1, AbortTurnsAway, ScheduleIsArrival DEF RL!LineNext
<1>2. CASE CancelOngoingRequest
  BY <1>2, CancelTurnsAllAway DEF RL!LineNext
<1>3. CASE EndBatch
  BY <1>3, EndBatchIsAnswer DEF RL!LineNext
<1>4. CASE UNCHANGED <<line, running, asked, answer, outcome>>
  BY <1>4, StuttersOnTheLine DEF Refused
<1>5. \/ \E b \in Batches : Abort(b) \/ \E r \in Requests[b] : Schedule(b, r)
      \/ CancelOngoingRequest \/ EndBatch
      \/ UNCHANGED <<line, running, asked, answer, outcome>>
  <2>1. CASE \E c \in Calls : CallStep(c) \/ LiveOutput(c)
    BY <2>1 DEF CallStep, Check, Confirm, Deny, Return, ReturnTail, AskExpansion,
       DenyExpansion, Expand, LiveOutput, Settle, CallStays, LoopStays, requestVars
  <2>2. CASE LoopStep
    BY <2>2 DEF LoopStep, StopOrFinish, FinalizeErrored, TakeCalls, ExecuteScheduled,
       FinalizeTerminal, LoopStays, requestVars
  <2>3. CASE CancelIdle
    BY <2>3 DEF CancelIdle
  <2>4. CASE UNCHANGED vars
    BY <2>4 DEF vars, requestVars
  <2> QED BY <2>1, <2>2, <2>3, <2>4 DEF SchedulerNext
<1> QED BY <1>1, <1>2, <1>3, <1>4, <1>5

\* The scheduler implements RequestLine: whoever calls schedule() is served in turn, one
\* at a time, and is answered with exactly one result for each of its tool calls.
THEOREM RequestsAreServedInTurn == SchedulerSpec => ServesTheLine
<1>1. SchedulerInit => RL!LineInit
  BY InitIsLineInit
<1>2. IInv /\ [SchedulerNext]_vars => [RL!LineNext]_(RL!lineVars)
  BY StepIsLineStep
<1> QED BY <1>1, <1>2, SchedulerInvariant, PTL DEF SchedulerSpec, ServesTheLine, RL!LineSpec
=============================================================================

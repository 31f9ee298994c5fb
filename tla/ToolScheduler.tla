--------------------------- MODULE ToolScheduler ---------------------------
(***************************************************************************)
(* The tool scheduler of the candidate that the single-round pipeline      *)
(* shipped for gemini-cli 24941: scheduler.ts, with what tool-executor.ts, *)
(* policy.ts and useGeminiStream.ts contribute to it.                      *)
(*                                                                         *)
(* schedule() runs a batch of tool calls or, while one runs, queues the    *)
(* request.  The loop of a batch takes a call, or several that need not    *)
(* wait for one another, from the queue, validates them all (hook, policy, *)
(* confirmation), executes them all, and finalizes them; a tool may ask    *)
(* for a tail call, which replaces it under the same id at the front of    *)
(* the queue, or for more permissions.  JavaScript runs from one await to  *)
(* the next, so an action is what happens between two of them.  Meanwhile  *)
(* a signal may be aborted, everything cancelled, and more be scheduled.   *)
(*                                                                         *)
(* The state manager is not part of the candidate.  Its queue, the active  *)
(* calls and the completed batch are modelled from how the scheduler uses  *)
(* them; whether it lets a call that is finished change its status again   *)
(* is not to be seen there, so both are taken (terminalStays).  Success,   *)
(* error and cancellation are one status, "finished": no step tells them   *)
(* apart.  A call is a pair of its batch and its place in it after the     *)
(* sort by topic.                                                          *)
(***************************************************************************)
EXTENDS Integers, Sequences, SequencesExt, FiniteSets

CONSTANTS
  Batches,    \* calls of schedule(), each with a signal of its own
  Nobody,
  MaxCalls,   \* tool calls of a batch
  MaxAgain,   \* bound: tail calls and sandbox expansions of one tool call
  Requests    \* of a batch: the lists it may be, of "bad", "parallel" and "waits"

ASSUME SchedulerAssumption ==
  /\ Nobody \notin Batches
  /\ MaxCalls \in Nat \ {0} /\ MaxAgain \in Nat
  /\ DOMAIN Requests = Batches
  /\ \A b \in Batches : \A r \in Requests[b] :
       r \in Seq({"bad", "parallel", "waits"}) /\ Len(r) \in 1..MaxCalls

Calls == Batches \X (1..MaxCalls)

VARIABLES
  asked,       \* the requests of a batch, <<>> before schedule()
  outcome,     \* its promise: "new", "queued", "running", "rejected" or "answered"
  answer,      \* the number of results for each of its requests, once answered
  aborted,     \* the batches whose signal is aborted
  running,     \* the batch that runs; isProcessing is running # Nobody
  cancelling,  \* isCancelling
  line,        \* requestQueue
  loop,        \* where the loop of the batch is
  queue,       \* the state manager's queue
  active,      \* its active calls
  completed,   \* the number of results of a call in its completed batch
  status,      \* of a call that is queued or active, else "none"
  waits,       \* not _isParallelizable
  again,       \* tail calls and expansions so far
  at,          \* where the promise of a call is, "out" if there is none
  terminalStays

requestVars == <<asked, outcome, answer, aborted, running, cancelling, line>>
callVars == <<queue, active, completed, status, waits, again, at>>
vars == <<requestVars, loop, callVars, terminalStays>>

SchedulerInit ==
  /\ asked = [b \in Batches |-> <<>>]
  /\ outcome = [b \in Batches |-> "new"] /\ answer = [b \in Batches |-> <<>>]
  /\ aborted = {} /\ running = Nobody /\ cancelling = FALSE /\ line = <<>>
  /\ loop = "idle" /\ queue = <<>> /\ active = {}
  /\ completed = [c \in Calls |-> 0]
  /\ status = [c \in Calls |-> "none"]
  /\ waits = [c \in Calls |-> FALSE]
  /\ again = [c \in Calls |-> 0]
  /\ at = [c \in Calls |-> "out"]
  /\ terminalStays \in BOOLEAN

-----------------------------------------------------------------------------
(* The state manager *)

InQueue(c) == Cardinality({i \in 1..Len(queue) : queue[i] = c})

\* The status of calls after updateStatus(s) for those in S; a call that is not
\* active keeps its own.
Updated(S, s) ==
  [c \in Calls |->
     IF c \in S \intersect active /\ ~(terminalStays /\ status[c] = "finished")
       THEN s ELSE status[c]]

\* The calls in S go to the completed batch.
Complete(S) ==
  /\ completed' = [c \in Calls |-> IF c \in S THEN completed[c] + 1 ELSE completed[c]]
  /\ status' = [c \in Calls |-> IF c \in S THEN "none" ELSE status[c]]

-----------------------------------------------------------------------------
(* Requests *)

Size(b) == Len(asked[b])

CallsOf(b, r) == [i \in 1..Len(r) |-> <<b, i>>]

\* _startBatch up to its first await, o being the promises so far: a request without
\* a tool, or with arguments the tool does not take, is an errored call from the start.
StartBatch(b, r, o) ==
  LET new == ToSet(CallsOf(b, r)) IN
  /\ running' = b /\ cancelling' = FALSE
  /\ outcome' = [o EXCEPT ![b] = "running"]
  /\ queue' = queue \o CallsOf(b, r)
  /\ completed' = [c \in Calls |-> 0]
  /\ status' = [c \in Calls |->
       IF c \notin new THEN status[c]
       ELSE IF r[c[2]] = "bad" THEN "finished" ELSE "validating"]
  /\ waits' = [c \in Calls |-> IF c \in new THEN r[c[2]] = "waits"
                                  ELSE c \in active /\ waits[c]]
  /\ loop' = "next"

\* Mutant of Joined: a request that finds the scheduler busy goes to the front.
JoinedFirst(b) == <<b>> \o line
Joined(b) == Append(line, b)

\* Busy, a request whose signal is aborted already is rejected at once.
Schedule(b, r) ==
  /\ outcome[b] = "new"
  /\ asked' = [asked EXCEPT ![b] = r]
  /\ IF running = Nobody /\ active = {}
       THEN StartBatch(b, r, outcome) /\ UNCHANGED line
       ELSE /\ outcome' = [outcome EXCEPT ![b] = IF b \in aborted THEN "rejected" ELSE "queued"]
            /\ line' = IF b \in aborted THEN line ELSE Joined(b)
            /\ UNCHANGED <<running, cancelling, loop, queue, completed, status, waits>>
  /\ UNCHANGED <<answer, aborted, active, again, at, terminalStays>>

Without(b) ==
  IF b \in ToSet(line) THEN RemoveAt(line, CHOOSE i \in 1..Len(line) : line[i] = b) ELSE line

\* The abort handler of a queued request takes it out of the line.
Abort(b) ==
  /\ b \notin aborted /\ outcome[b] \in {"new", "queued", "running"}
  /\ aborted' = aborted \union {b}
  /\ line' = Without(b)
  /\ outcome' = [outcome EXCEPT ![b] = IF @ = "queued" THEN "rejected" ELSE @]
  /\ UNCHANGED <<asked, answer, running, cancelling, loop, callVars, terminalStays>>

\* cancelOngoingRequest: the signal of the turn, which is the one of the batch that
\* runs, then cancelAll, which does nothing before the next batch has started.
CancelOngoingRequest ==
  /\ running # Nobody
  /\ aborted' = aborted \union {running}
  /\ IF cancelling
       THEN UNCHANGED <<cancelling, line, outcome, status, queue, completed>>
       ELSE /\ cancelling' = TRUE
            /\ line' = <<>>
            /\ outcome' = [b \in Batches |->
                 IF b \in ToSet(line) THEN "rejected" ELSE outcome[b]]
            /\ queue' = <<>>
            /\ completed' = [c \in Calls |-> completed[c] + InQueue(c)]
            /\ status' = [c \in Calls |-> IF c \in active THEN "finished"
                                          ELSE "none"]
  /\ UNCHANGED <<asked, answer, running, loop, active, waits, again, at, terminalStays>>

\* cancelAll while no batch runs; the request queue is empty then.
CancelIdle ==
  /\ running = Nobody /\ ~cancelling
  /\ cancelling' = TRUE
  /\ UNCHANGED <<asked, outcome, answer, aborted, running, line, loop, callVars,
                 terminalStays>>

-----------------------------------------------------------------------------
(* The loop of a batch *)

LoopStays == UNCHANGED requestVars /\ UNCHANGED terminalStays

\* The loop takes the first n calls next: one, or with it all that follow up to one
\* that waits.
IsTaken(n) ==
  LET alone == {i \in 1..Len(queue) : waits[queue[i]]} IN
  IF 1 \in alone THEN n = 1
  ELSE /\ \A i \in 1..n : i \notin alone
       /\ n = Len(queue) \/ n + 1 \in alone

Stopped == running \in aborted \/ cancelling

\* Cancelled, or nothing left: the loop ends.
StopOrFinish ==
  /\ loop = "next"
  /\ Stopped \/ (queue = <<>> /\ active = {})
  /\ queue' = <<>> /\ Complete(ToSet(queue))
  /\ loop' = "end"
  /\ LoopStays /\ UNCHANGED <<active, waits, again, at>>

\* An errored call at the front is finalized at once.
FinalizeErrored ==
  /\ loop = "next" /\ ~Stopped /\ active = {} /\ queue # <<>>
  /\ status[Head(queue)] = "finished"
  /\ queue' = Tail(queue)
  /\ Complete({Head(queue)})
  /\ LoopStays /\ UNCHANGED <<loop, active, waits, again, at>>

\* Calls are taken, if none is active still, and the validating ones are validated.
TakeCalls ==
  /\ loop = "next" /\ ~Stopped
  /\ IF active = {}
       THEN /\ queue # <<>> /\ status[Head(queue)] # "finished"
            /\ \E n \in 1..Len(queue) :
                 /\ IsTaken(n)
                 /\ active' = {queue[i] : i \in 1..n}
                 /\ queue' = SubSeq(queue, n + 1, Len(queue))
       ELSE UNCHANGED <<queue, active>>
  /\ at' = [c \in Calls |->
       IF c \in active' /\ status[c] = "validating" THEN "checking" ELSE at[c]]
  /\ loop' = "validate"
  /\ LoopStays /\ UNCHANGED <<completed, status, waits, again>>

AllBack == \A c \in active : at[c] = "out"

\* The validations are done.  The scheduled calls are started together, if no active
\* call is in another state than scheduled or finished.
ExecuteScheduled ==
  LET scheduled == {c \in active : status[c] = "scheduled"}
      ready == \A c \in active : status[c] \in {"scheduled", "finished"}
      started == IF ready THEN scheduled ELSE {}
  IN /\ loop = "validate" /\ AllBack
     /\ status' = Updated(started, IF running \in aborted THEN "finished" ELSE "executing")
     /\ at' = [c \in Calls |->
          IF c \in started /\ running \notin aborted THEN "executing" ELSE at[c]]
     /\ loop' = "execute"
     /\ LoopStays /\ UNCHANGED <<queue, active, completed, waits, again>>

\* Mutant of Finished: a call that was cancelled while it was validated is not seen.
FinishedHere == {c \in active : status[c] = "finished" /\ c[1] \notin aborted}
Finished == {c \in active : status[c] = "finished"}

\* The executions are done.  The loop goes on if a call was finalized or replaced by
\* its tail call, or if one waits for somebody; else it is stuck.  That a call which
\* is left has changed its status also makes it go on; but none is left ever.
FinalizeTerminal ==
  LET left == active \ Finished IN
  /\ loop = "execute" /\ AllBack
  /\ active' = left
  /\ Complete(Finished)
  /\ loop' = IF \/ Finished # {} \/ left = {}
                \/ \E c \in left : status[c] \in {"awaiting", "executing"}
               THEN "next" ELSE "end"
  /\ LoopStays /\ UNCHANGED <<queue, waits, again, at>>

\* The batch is answered, and the next request is taken from the line; if calls were
\* still active it would go back to its end.
EndBatch ==
  LET b == running
      settled == [outcome EXCEPT ![b] = "answered"]
  IN
  /\ loop = "end"
  /\ answer' = [answer EXCEPT ![b] = [i \in 1..Size(b) |-> completed[<<b, i>>]]]
  /\ IF line # <<>> /\ active = {}
       THEN StartBatch(Head(line), asked[Head(line)], settled) /\ line' = Tail(line)
       ELSE /\ running' = Nobody /\ loop' = "idle"
            /\ line' = IF line = <<>> THEN line ELSE Append(Tail(line), Head(line))
            /\ outcome' = settled
            /\ completed' = [c \in Calls |-> 0]
            /\ waits' = [c \in Calls |-> c \in active /\ waits[c]]
            /\ UNCHANGED <<cancelling, queue, status>>
  /\ again' = [c \in Calls |-> IF c \in active THEN again[c] ELSE 0]
  /\ UNCHANGED <<asked, aborted, active, at, terminalStays>>

-----------------------------------------------------------------------------
(* The promise of one call *)

CallStays ==
  LoopStays /\ UNCHANGED loop

\* The promise ends with a status.
Settle(c, s) ==
  /\ status' = Updated({c}, s)
  /\ at' = [at EXCEPT ![c] = "out"]
  /\ CallStays /\ UNCHANGED <<active, waits, again>>

\* Hook and policy: an error, an exception or DENY; ALLOW; or ASK_USER.
Check(c) ==
  /\ at[c] = "checking"
  /\ UNCHANGED <<queue, completed>>
  /\ \/ \E s \in {"finished", "scheduled"} : Settle(c, s)
     \/ /\ status' = Updated({c}, "awaiting")
        /\ at' = [at EXCEPT ![c] = "confirming"]
        /\ CallStays /\ UNCHANGED <<active, waits, again>>

\* resolveConfirmation: it throws, or the user lets the tool proceed.
Confirm(c) ==
  /\ at[c] = "confirming"
  /\ \E s \in {"finished", "scheduled"} : Settle(c, s)
  /\ UNCHANGED <<queue, completed>>

\* Mutant of Deny: what is still queued stays in the queue, with a result.
DenyAndGoOn(c) ==
  /\ at[c] = "confirming"
  /\ Complete(ToSet(queue))
  /\ UNCHANGED queue
  /\ at' = [at EXCEPT ![c] = "out"]
  /\ CallStays /\ UNCHANGED <<active, waits, again>>

\* Or the user denies it, which cancels all that is still queued.
Deny(c) ==
  /\ at[c] = "confirming"
  /\ queue' = <<>>
  /\ completed' = [d \in Calls |-> completed[d] + InQueue(d)]
  /\ status' = [d \in Calls |-> IF InQueue(d) > 0 THEN "none" ELSE Updated({c}, "finished")[d]]
  /\ at' = [at EXCEPT ![c] = "out"]
  /\ CallStays /\ UNCHANGED <<active, waits, again>>

\* Output that comes while the tool runs.
LiveOutput(c) ==
  /\ at[c] = "executing"
  /\ status' = Updated({c}, "executing")
  /\ CallStays /\ UNCHANGED <<queue, active, completed, waits, again, at>>

\* Mutant of Return: the answer of an aborted tool is waited for by nobody.
ReturnUnlessAborted(c) ==
  /\ at[c] = "executing" /\ running \notin aborted
  /\ Settle(c, "finished")
  /\ UNCHANGED <<queue, completed>>

\* The tool returns or throws; the executor makes a result of either.
Return(c) ==
  /\ at[c] = "executing"
  /\ Settle(c, "finished")
  /\ UNCHANGED <<queue, completed>>

\* Mutant of ReturnTail: the tail call goes to the end of the queue.
ReturnTailLast(c) ==
  /\ at[c] = "executing" /\ again[c] < MaxAgain
  /\ \E s \in {"validating", "finished"}, w \in BOOLEAN :
       /\ status' = [status EXCEPT ![c] = s]
       /\ waits' = [waits EXCEPT ![c] = w]
  /\ again' = [again EXCEPT ![c] = @ + 1]
  /\ active' = active \ {c}
  /\ queue' = Append(queue, c)
  /\ at' = [at EXCEPT ![c] = "out"]
  /\ CallStays /\ UNCHANGED completed

\* The tool asks for a tail call, which replaces it: replaceActiveCallWithTailCall.
ReturnTail(c) ==
  /\ at[c] = "executing" /\ again[c] < MaxAgain
  /\ \E s \in {"validating", "finished"}, w \in BOOLEAN :
       /\ status' = [status EXCEPT ![c] = s]
       /\ waits' = [waits EXCEPT ![c] = w]
  /\ again' = [again EXCEPT ![c] = @ + 1]
  /\ active' = active \ {c}
  /\ queue' = <<c>> \o queue
  /\ at' = [at EXCEPT ![c] = "out"]
  /\ CallStays /\ UNCHANGED completed

\* sandbox_expansion_required: the user is asked once more.
AskExpansion(c) ==
  /\ at[c] = "executing" /\ again[c] < MaxAgain
  /\ again' = [again EXCEPT ![c] = @ + 1]
  /\ status' = Updated({c}, "awaiting")
  /\ at' = [at EXCEPT ![c] = "expanding"]
  /\ CallStays /\ UNCHANGED <<queue, active, completed, waits>>

\* Denied, or the confirmation throws: the error stands.
DenyExpansion(c) ==
  /\ at[c] = "expanding"
  /\ Settle(c, "finished")
  /\ UNCHANGED <<queue, completed>>

\* Mutant of Expand: the tool runs again without a look at the signal.
ExpandAnyway(c) ==
  /\ at[c] = "expanding"
  /\ status' = Updated({c}, "executing")
  /\ at' = [at EXCEPT ![c] = "executing"]
  /\ CallStays /\ UNCHANGED <<queue, active, completed, waits, again>>

\* Granted: _execute again, which looks at the signal first.
Expand(c) ==
  /\ at[c] = "expanding"
  /\ IF running \in aborted
       THEN Settle(c, "finished")
       ELSE /\ status' = Updated({c}, "executing")
            /\ at' = [at EXCEPT ![c] = "executing"]
            /\ CallStays /\ UNCHANGED <<active, waits, again>>
  /\ UNCHANGED <<queue, completed>>

-----------------------------------------------------------------------------
LoopStep ==
  \/ StopOrFinish \/ FinalizeErrored \/ TakeCalls
  \/ ExecuteScheduled \/ FinalizeTerminal \/ EndBatch

CallStep(c) ==
  \/ Check(c) \/ Confirm(c) \/ Deny(c) \/ Return(c) \/ ReturnTail(c)
  \/ AskExpansion(c) \/ DenyExpansion(c) \/ Expand(c)

SchedulerNext ==
  \/ \E b \in Batches : Abort(b) \/ \E r \in Requests[b] : Schedule(b, r)
  \/ CancelOngoingRequest \/ CancelIdle
  \/ LoopStep
  \/ \E c \in Calls : CallStep(c) \/ LiveOutput(c)

\* The event loop goes on; hooks, policy and tools return, and a dialog is answered
\* or ends with its signal.
SchedulerSpec ==
  /\ SchedulerInit /\ [][SchedulerNext]_vars
  /\ WF_vars(LoopStep)
  /\ \A c \in Calls : WF_vars(CallStep(c))

-----------------------------------------------------------------------------
(* Properties *)

\* Between two awaits of the loop, however calls are cancelled, denied, replaced by
\* tail calls or aborted, every call of the batch that runs is queued, active or
\* completed, in one of the three places and once; no call of another batch is.
CallsAreInOnePlace ==
  \A c \in Calls :
    InQueue(c) + (IF c \in active THEN 1 ELSE 0) + completed[c] =
      IF c[1] = running /\ c[2] =< Size(c[1]) THEN 1 ELSE 0

\* The loop never begins a round or ends with a call still active: isActive would send
\* every later request into a queue that nobody serves any more.
NothingIsLeftBehind ==
  /\ loop \in {"idle", "next", "end"} => active = {}
  /\ running = Nobody => line = <<>>

\* While a call runs that is to wait for those before it no other one runs, and for an
\* original request all that came before it in its batch are completed, their
\* tail calls included.
WaitersRunAlone ==
  \A c \in Calls :
    at[c] \in {"executing", "expanding"} /\ waits[c] =>
      /\ \A d \in Calls \ {c} : at[d] = "out"
      /\ again[c] = 0 => \A i \in 1..(c[2] - 1) : completed[<<c[1], i>>] = 1

\* No tool starts once the signal of its batch is aborted, be it for the first time,
\* as a tail call or with more permissions.
NoneStartsAfterAbort ==
  [][\A c \in Calls :
       at[c] # "executing" /\ at'[c] = "executing" => c[1] \notin aborted]_vars

\* Whoever called schedule() hears of it, also from the queue and after cancellations.
EveryRequestSettles ==
  \A b \in Batches :
    outcome[b] \in {"queued", "running"} ~> outcome[b] \in {"answered", "rejected"}

RL == INSTANCE RequestLine WITH
  served  <- running,
  size    <- [b \in Batches |-> Size(b)],
  refused <- {b \in Batches : outcome[b] = "rejected"}

\* Requests are served one at a time and in their order, and each is answered with one
\* result for each of its tool calls.
ServesTheLine == RL!LineSpec
=============================================================================

---------------------------- MODULE RequestLine ----------------------------
(***************************************************************************)
(* What the tool scheduler of the shipped candidate for gemini-cli 24941   *)
(* promises to those who call schedule(): requests are served one at a     *)
(* time and in the order in which they came, each is answered with exactly *)
(* one result for each of its tool calls, and one that still waits may be  *)
(* turned away.                                                            *)
(***************************************************************************)
EXTENDS Integers, Sequences, SequencesExt

CONSTANTS Batches, Nobody

VARIABLES
  line,     \* the requests that wait, first come first
  served,   \* the request that is being served
  size,     \* the tool calls of a request, 0 before it came
  answer,   \* for each of them the results its answer holds, <<>> before
  refused   \* the requests that were turned away

lineVars == <<line, served, size, answer, refused>>

LineInit ==
  /\ line = <<>> /\ served = Nobody
  /\ size = [b \in Batches |-> 0]
  /\ answer = [b \in Batches |-> <<>>]
  /\ refused = {}

Arrive(b) ==
  /\ size[b] = 0 /\ b \notin refused
  /\ size'[b] \in Nat \ {0} /\ size' = [size EXCEPT ![b] = size'[b]]
  /\ \/ served = Nobody /\ served' = b /\ UNCHANGED <<line, refused>>
     \/ served # Nobody /\ line' = Append(line, b) /\ UNCHANGED <<served, refused>>
     \/ served # Nobody /\ refused' = refused \union {b} /\ UNCHANGED <<line, served>>
  /\ UNCHANGED answer

\* One of those that wait is turned away; the others keep their order.
TurnAway(i) ==
  /\ line' = RemoveAt(line, i)
  /\ refused' = refused \union {line[i]}
  /\ UNCHANGED <<served, size, answer>>

TurnAllAway ==
  /\ line' = <<>>
  /\ refused' = refused \union ToSet(line)
  /\ UNCHANGED <<served, size, answer>>

Answer ==
  /\ served # Nobody
  /\ answer' = [answer EXCEPT ![served] = [i \in 1..size[served] |-> 1]]
  /\ IF line = <<>> THEN served' = Nobody /\ UNCHANGED line
                    ELSE served' = Head(line) /\ line' = Tail(line)
  /\ UNCHANGED <<size, refused>>

LineNext ==
  \/ \E b \in Batches : Arrive(b)
  \/ TurnAllAway \/ \E i \in 1..Len(line) : TurnAway(i)
  \/ Answer

LineSpec == LineInit /\ [][LineNext]_lineVars
=============================================================================

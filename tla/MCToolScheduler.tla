--------------------------- MODULE MCToolScheduler ---------------------------
(* The requests of the TLC run of the tool scheduler. *)
EXTENDS ToolScheduler

CONSTANTS Rich, Plain

\* One batch of any kinds of calls; the others are short, so as to be scheduled at any
\* time of the first, and to wait for it in either order.
MCRequests ==
  [b \in Batches |->
     IF b = Rich THEN {<<"bad", "parallel">>, <<"parallel", "waits">>, <<"parallel", "parallel">>}
     ELSE IF b = Plain THEN {<<"parallel">>} ELSE {<<"bad">>}]
=============================================================================

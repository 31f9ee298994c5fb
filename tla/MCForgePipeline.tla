--------------------------- MODULE MCForgePipeline ---------------------------
(* The outputs of the implementers for TLC: idle, and honest. *)
EXTENDS ForgePipeline

\* One implementer's honest edit.
InScope == [Untouched EXCEPT !.told = TRUE, !.in = 1, !.hunks = 1]
IdleOrEdited == {Untouched, InScope}
=============================================================================

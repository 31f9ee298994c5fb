---------------------------- MODULE MCSingleRound ----------------------------
(* The outputs of the implementers for TLC. *)
EXTENDS SingleRound

\* Nothing; an honest edit, and the same without a summary; one that strays
\* out of the scope; one that only touches package.json.
Honest == [Untouched EXCEPT !.told = TRUE, !.in = 1, !.hunks = 1]
FewOutputs == {Untouched, Honest, [Honest EXCEPT !.told = FALSE],
               [Honest EXCEPT !.out = 1, !.hunks = 2], [Honest EXCEPT !.pkg = "in"]}
=============================================================================

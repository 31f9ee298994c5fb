-------------------------- MODULE MCResumeIterative --------------------------
(* Leftovers of the reviewer's files for TLC. *)
EXTENDS ResumeIterative

NoLeftovers == {Blank}
=============================================================================

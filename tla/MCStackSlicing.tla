--------------------------- MODULE MCStackSlicing ---------------------------
(* StackSlicing on a stack of few cells; the .cfg names the greenlets. *)
EXTENDS StackSlicing
=============================================================================

---------------------------- MODULE MCSwitching ----------------------------
(***************************************************************************)
(* Switching with one or two threads and two or three greenlets of theirs. *)
(***************************************************************************)
EXTENDS Switching, TLC

CONSTANTS t1, t2, m1, m2, a, b, c

OneThread == (t1 :> m1)
TwoThreads == (t1 :> m1) @@ (t2 :> m2)
=============================================================================

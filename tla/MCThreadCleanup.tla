--------------------------- MODULE MCThreadCleanup ---------------------------
(* ThreadCleanup with few threads; the .cfg files name them. *)
EXTENDS ThreadCleanup, FiniteSets, TLC

CONSTANTS t1, t2, g1, g2, g3

\* Two greenlets of one thread, and one of the other.
Owners3 == g1 :> t1 @@ g2 :> t1 @@ g3 :> t2

\* One greenlet each.
Owners2 == g1 :> t1 @@ g2 :> t2
=============================================================================

--------------------------- MODULE MCDeallocation ---------------------------
(***************************************************************************)
(* Two greenlets beside the main ones.  MayHold bounds which references    *)
(* the frames keep, and so how many of the interleavings there are.        *)
(***************************************************************************)
EXTENDS Deallocation, TLC

CONSTANTS t1, t2, m1, m2, a, b

OneThread == (t1 :> m1)
TwoThreads == (t1 :> m1) @@ (t2 :> m2)

\* f where it is defined, and the empty set elsewhere
On(S, f) == [x \in S |-> IF x \in DOMAIN f THEN f[x] ELSE {}]

\* t2 starts a and b, which anybody may drop; a can switch back.
Shared == On(Holders, (m1 :> {m1}) @@ (m2 :> {a, b}) @@ (a :> {m2}) @@ (Globals :> {a, b}))
StartedByT2 == On(Greenlets, (a :> {t2}) @@ (b :> {t2}))
Itself == On(Greenlets, (a :> {a}))
Nothing == On(Greenlets, <<>>)

\* t2 starts a and b, t1 may drop a while b runs.
Dropped == On(Holders, (m2 :> {a, b}) @@ (a :> {m2}) @@ (b :> {m2}) @@ (Globals :> {a}))

\* One thread: a refers to b, which is its parent, and to itself.
Parents == On(Holders, (m1 :> {a, b}) @@ (a :> {a, b, m1}))
StartedByT1 == On(Greenlets, (a :> {t1}) @@ (b :> {t1}))

\* a is started by t2, and once more by t1.
Restarted == On(Holders, (m1 :> {a, m1}) @@ (m2 :> {a}) @@ (a :> {m1, m2}) @@ (Globals :> {a}))
StartedByBoth == On(Greenlets, (a :> {t1, t2}))
=============================================================================

------------------------- MODULE MCInterpreterState -------------------------
(***************************************************************************)
(* InterpreterState with two threads.  The second one runs two greenlets   *)
(* and may exit; the first one sets contexts, kills and deletes what is    *)
(* left, and may start again a greenlet that was killed.                   *)
(***************************************************************************)
EXTENDS InterpreterState, TLC

CONSTANTS t1, t2, main1, main2, a, b

MCMainOf == (t1 :> main1) @@ (t2 :> main2)
MCStartedIn == [g \in Greenlets |-> IF g = a THEN {t1, t2} ELSE {t2}]
\* C code runs in main1 and b, Python code in a and main2.
MCFrames == [g \in Greenlets |-> IF g = a THEN 4 ELSE IF g = main2 THEN 2 ELSE 0]

\* States that differ only in what nobody reads before it is written again are
\* one: the depth, frame and chunk of the greenlet that runs, the links that
\* unexpose_frames() has put back, and where a greenlet ran that is dead.
Read(g) == IF IsCurrent(g) THEN <<saved[g].context, saved[g].exc_info, saved[g].exc_value>>
                           ELSE saved[g]
Home(g) == IF life[g] \in {"new", "active"} \/ IsCurrent(g) THEN home[g] ELSE NoThread
View == <<life, current, alive, ts, stale, top, chunks,
          [g \in Greenlets |-> Home(g)], [g \in Greenlets |-> Read(g)],
          [g \in Greenlets |-> IF top[g] # Null THEN frames[g]
              ELSE [k \in DOMAIN frames[g] |-> [frames[g][k] EXCEPT !.stash = Null]]]>>
=============================================================================

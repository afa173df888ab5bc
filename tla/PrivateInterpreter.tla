------------------------- MODULE PrivateInterpreter -------------------------
(***************************************************************************)
(* What greenlet promises about the state of the interpreter: each         *)
(* greenlet has a context, handled exceptions, a recursion depth and a     *)
(* chain of Python frames of its own.  Only the code that runs in it and   *)
(* assignments to its gr_context change them, whichever greenlets run in   *)
(* between.                                                                *)
(***************************************************************************)
CONSTANTS Threads, Greenlets,
          MainOf,   \* the main greenlet of each thread
          Nowhere,  \* the home of a greenlet that has not been started
          Fresh     \* the state of an interpreter that has run nothing

VARIABLES mine,     \* the interpreter state of each greenlet
          stage,    \* "new", "live", "dead" or "gone"
          running,  \* the greenlet that each thread runs
          home      \* the thread in which each greenlet runs

absVars == <<mine, stage, running, home>>

AbsInit ==
    /\ running = MainOf
    /\ stage = [g \in Greenlets |-> IF \E t \in Threads : MainOf[t] = g THEN "live" ELSE "new"]
    /\ \A t \in Threads : home[MainOf[t]] = t
    /\ \A g \in Greenlets : stage[g] = "new" => home[g] = Nowhere
    /\ mine = [g \in Greenlets |-> Fresh]

\* The greenlet that a thread runs does as it likes with its own state.
Run(t) ==
    /\ UNCHANGED <<running, home, stage>>
    /\ \A g \in Greenlets \ {running[t]} : mine'[g] = mine[g]

\* Somebody sets the context of a greenlet, and nothing else of it.
SetContext(g) ==
    /\ UNCHANGED <<running, home, stage>>
    /\ mine' = [mine EXCEPT ![g].context = mine'[g].context]

\* A greenlet runs for the first time since it was made or killed, in any thread:
\* as deep as the one that starts it, with the context that was set, handling no
\* exception and on what frames it has, which are none unless it was killed.
Start(t, g) ==
    /\ stage[g] = "new"
    /\ stage' = [stage EXCEPT ![g] = "live"]
    /\ home' = [home EXCEPT ![g] = t]
    /\ running' = [running EXCEPT ![t] = g]
    /\ mine' = [mine EXCEPT ![g] = [@ EXCEPT !.depth = mine[running[t]].depth,
                                             !.handled = Fresh.handled]]

\* A thread turns to another greenlet: everybody keeps what they have.
Resume(t, g) ==
    /\ stage[g] = "live"
    /\ home[g] = t
    /\ running' = [running EXCEPT ![t] = g]
    /\ UNCHANGED <<mine, stage, home>>

\* The greenlet that a thread runs ends; it stays until the thread turns away.
End(t) ==
    /\ stage[running[t]] = "live"
    /\ stage' = [stage EXCEPT ![running[t]] = "dead"]
    /\ UNCHANGED <<mine, running, home>>

\* A greenlet that nobody runs is killed and can be started again.  It loses its
\* context, and its frames are linked anew.
Kill(g) ==
    /\ stage[g] = "live"
    /\ \A t \in Threads : running[t] # g
    /\ stage' = [stage EXCEPT ![g] = "new"]
    /\ home' = [home EXCEPT ![g] = Nowhere]
    /\ mine' = [mine EXCEPT ![g] = [@ EXCEPT !.context = Fresh.context, !.frames = mine'[g].frames]]
    /\ UNCHANGED running

\* A greenlet that nobody runs, and that has nothing left to run, is deleted.
Delete(g) ==
    /\ stage[g] \in {"new", "dead"}
    /\ \A t \in Threads : running[t] # g
    /\ stage' = [stage EXCEPT ![g] = "gone"]
    /\ \A h \in Greenlets \ {g} : mine'[h] = mine[h]
    /\ UNCHANGED <<running, home>>

AbsNext ==
    \/ \E t \in Threads : Run(t) \/ End(t) \/ \E g \in Greenlets : Start(t, g) \/ Resume(t, g)
    \/ \E g \in Greenlets : SetContext(g) \/ Kill(g) \/ Delete(g)

AbsSpec == AbsInit /\ [][AbsNext]_absVars
=============================================================================

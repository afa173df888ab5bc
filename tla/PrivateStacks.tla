--------------------------- MODULE PrivateStacks ---------------------------
(***************************************************************************)
(* What the stack slicing of greenlet promises: every greenlet has a call  *)
(* stack of its own, only the running greenlet changes it, a greenlet that *)
(* is resumed finds its stack as it left it, and one that has finished is  *)
(* not resumed.                                                            *)
(***************************************************************************)
EXTENDS Sequences, SequencesExt

CONSTANTS Greenlets,  \* the greenlets of one thread
          Main,       \* the main greenlet, which runs first and never ends
          Frames      \* what a frame may hold

VARIABLES frames,     \* the call stack of each greenlet, outermost frame first
          life,       \* "new", "live" or "dead"
          running

absVars == <<frames, life, running>>

AbsInit ==
    /\ running = Main
    /\ life = [g \in Greenlets |-> IF g = Main THEN "live" ELSE "new"]
    /\ \E f \in Frames : frames = [g \in Greenlets |-> IF g = Main THEN <<f>> ELSE <<>>]

\* The running greenlet calls a function.
Call ==
    /\ life[running] = "live"
    /\ \E f \in Frames : frames' = [frames EXCEPT ![running] = Append(@, f)]
    /\ UNCHANGED <<life, running>>

\* The running greenlet returns from a function, never from its outermost one.
Return ==
    /\ Len(frames[running]) > 1
    /\ frames' = [frames EXCEPT ![running] = Front(@)]
    /\ UNCHANGED <<life, running>>

\* A new greenlet starts on a copy of the frame that starts it.
Start(g) ==
    /\ life[g] = "new"
    /\ \E f \in Frames :
          /\ life[running] = "live" => f = Last(frames[running])
          /\ frames' = [frames EXCEPT ![g] = <<f>>]
    /\ life' = [life EXCEPT ![g] = "live"]
    /\ running' = g

\* Control passes to a greenlet that has a stack.  No stack changes.
Transfer(g) ==
    /\ life[g] = "live"
    /\ running' = g
    /\ UNCHANGED <<frames, life>>

\* The running greenlet finishes: its stack is gone.
Finish ==
    /\ running # Main
    /\ life[running] = "live"
    /\ frames' = [frames EXCEPT ![running] = <<>>]
    /\ life' = [life EXCEPT ![running] = "dead"]
    /\ UNCHANGED running

\* The memory of a finished greenlet serves a new one.
Reuse(g) ==
    /\ life[g] = "dead"
    /\ g # running
    /\ life' = [life EXCEPT ![g] = "new"]
    /\ UNCHANGED <<frames, running>>

AbsNext ==
    \/ Call \/ Return \/ Finish
    \/ \E g \in Greenlets : Start(g) \/ Transfer(g) \/ Reuse(g)

AbsSpec == AbsInit /\ [][AbsNext]_absVars
=============================================================================

---------------------------- MODULE ThreadCleanup ----------------------------
(***************************************************************************)
(* What happens to the greenlets of a thread that exits.                   *)
(*                                                                         *)
(* The destructor of a thread-local object runs in the dying thread, after *)
(* its Python thread state is gone and without the GIL.  It unlinks the    *)
(* main greenlet from the ThreadState, puts the state on a queue guarded   *)
(* by a lock, and has the main Python thread empty the queue in a pending  *)
(* call (TThreadStateDestroy.cpp).  Meanwhile other threads may drop the   *)
(* last reference to a greenlet of the dying thread: they park it in the   *)
(* deleteme list of its ThreadState if that still exists                   *)
(* (deallocing_greenlet_in_thread), and whoever empties the list frees it. *)
(*                                                                         *)
(* Steps of Python code hold the GIL; a drop that has read the thread      *)
(* state pointer keeps it until it is done, so that only dying threads run *)
(* in between.  The pending calls of CPython are modelled from how greenlet*)
(* uses them: a bounded number of slots, one runner, in the main thread.   *)
(***************************************************************************)
EXTENDS Integers, Sequences, SequencesExt

CONSTANTS Threads,       \* Python threads
          MainThread,    \* the one that runs pending calls and finalizes
          Greenlets,     \* greenlets other than the main greenlets
          OwnerOf,       \* the thread that each one is started in
          NPendingCalls, \* slots for pending calls
          NoOne

ASSUME ThreadsAssumption == MainThread \in Threads /\ NoOne \notin Threads
ASSUME OwnerAssumption == OwnerOf \in [Greenlets -> Threads] /\ NoOne \notin Greenlets
ASSUME PendingAssumption == NPendingCalls \in Nat \ {0}

VARIABLES
    pc,         \* where each thread is: running Python, in its destructor, exited
    tstate,     \* ThreadStateCreator::_state: "unset", "live" or "deleted"
    linked,     \* MainGreenlet::_thread_state of the thread is not null
    deleteme,   \* ThreadState::deleteme
    batch,      \* what clear_deleteme_list() took out and is working through
    fate,       \* what has become of each greenlet
    drop,       \* the greenlet being deallocated by another thread, ...
    dropper,    \* ... that thread, which holds the GIL until it is done, ...
    seen,       \* ... and whether it saw a thread state pointer
    to_destroy, \* GreenletGlobals::thread_states_to_destroy
    lock,       \* the holder of thread_states_to_destroy_lock
    scheduled,  \* pending calls of PendingCallback_DestroyQueue
    foreign,    \* pending calls of others
    runner,     \* PendingCallback_DestroyQueue: "idle", "loop" or "destroy"
    taken,      \* its to_destroy
    warned,     \* Py_AddPendingCall() has failed, and stderr says so
    interp      \* the interpreter: "running", "finalizing" or "gone"

threadVars == <<pc, tstate, linked>>
greenletVars == <<deleteme, batch, fate, drop, dropper, seen>>
queueVars == <<to_destroy, lock, scheduled, foreign, runner, taken, warned>>
vars == <<pc, tstate, linked, deleteme, batch, fate, drop, dropper, seen, to_destroy, lock,
          scheduled, foreign, runner, taken, warned, interp>>

Init ==
    /\ pc = [t \in Threads |-> "running"]
    /\ tstate = [t \in Threads |-> "unset"]
    /\ linked = [t \in Threads |-> FALSE]
    /\ deleteme = [t \in Threads |-> {}]
    /\ batch = [t \in Threads |-> {}]
    /\ fate = [g \in Greenlets |-> "new"]
    /\ drop = NoOne /\ dropper = NoOne /\ seen = FALSE
    /\ to_destroy = <<>> /\ lock = NoOne
    /\ scheduled = 0 /\ foreign = 0
    /\ runner = "idle" /\ taken = NoOne
    /\ warned = FALSE
    /\ interp = "running"

\* Thread t can run Python code: once the interpreter finalizes, only the
\* main thread is given the GIL.
RunsPython(t) ==
    /\ pc[t] = "running"
    /\ drop = NoOne
    /\ \/ interp = "running"
       \/ interp = "finalizing" /\ t = MainThread

\* ThreadStateCreator::state() of thread t, which creates the state if need be.
AccessState(t) ==
    /\ tstate' = [tstate EXCEPT ![t] = "live"]
    /\ linked' = [linked EXCEPT ![t] = TRUE]

-----------------------------------------------------------------------------
(* Python code *)

\* A greenlet is started in its thread, and suspends.
StartGreenlet(g) ==
    /\ RunsPython(OwnerOf[g])
    /\ fate[g] = "new"
    /\ fate' = [fate EXCEPT ![g] = "suspended"]
    /\ AccessState(OwnerOf[g])
    /\ UNCHANGED <<pc, deleteme, batch, drop, dropper, seen, queueVars, interp>>

\* Its own thread drops the last reference: GreenletExit is thrown into it.
DropInThread(g) ==
    /\ RunsPython(OwnerOf[g])
    /\ fate[g] = "suspended"
    /\ interp = "running"
    /\ fate' = [fate EXCEPT ![g] = "killed"]
    /\ UNCHANGED <<threadVars, deleteme, batch, drop, dropper, seen, queueVars, interp>>

\* The last reference goes while the interpreter finalizes: no exception can
\* be thrown.
DropFinalizing(g) ==
    /\ RunsPython(MainThread)
    /\ fate[g] = "suspended"
    /\ interp = "finalizing"
    /\ fate' = [fate EXCEPT ![g] = "murdered"]
    /\ UNCHANGED <<threadVars, deleteme, batch, drop, dropper, seen, queueVars, interp>>

\* Thread t drops the last reference to a greenlet of another thread, and
\* reads the thread state that it belongs to.
DropElsewhere(t, g) ==
    /\ RunsPython(t)
    /\ interp = "running"
    /\ t # OwnerOf[g]
    /\ fate[g] = "suspended"
    /\ drop' = g
    /\ dropper' = t
    /\ seen' = linked[OwnerOf[g]]
    /\ IF linked[OwnerOf[g]] THEN AccessState(t) ELSE UNCHANGED <<tstate, linked>>
    /\ UNCHANGED <<pc, deleteme, batch, fate, queueVars, interp>>

\* Mutant of Park: on the list of the thread that drops it.
ParkHere(g) ==
    \E t \in Threads \ {OwnerOf[g]} :
        deleteme' = [deleteme EXCEPT ![t] = @ \cup {g}]

\* delete_when_thread_running().
Park(g) == deleteme' = [deleteme EXCEPT ![OwnerOf[g]] = @ \cup {g}]

\* ... and goes on with what it read.
FinishDrop ==
    /\ drop # NoOne
    /\ IF seen THEN /\ Park(drop)
                    /\ fate' = [fate EXCEPT ![drop] = "parked"]
               ELSE /\ fate' = [fate EXCEPT ![drop] = "murdered"]
                    /\ UNCHANGED deleteme
    /\ drop' = NoOne
    /\ dropper' = NoOne
    /\ seen' = FALSE
    /\ UNCHANGED <<threadVars, batch, queueVars, interp>>

\* Mutant of SwapOut: the list is emptied and nobody works through it.
SwapOutForgotten(t) ==
    /\ deleteme' = [deleteme EXCEPT ![t] = {}]
    /\ UNCHANGED <<batch, fate>>

\* clear_deleteme_list() takes the list out of the state.  While the
\* interpreter finalizes what is on it is leaked.
SwapOut(t) ==
    /\ deleteme' = [deleteme EXCEPT ![t] = {}]
    /\ IF interp = "running"
       THEN /\ batch' = [batch EXCEPT ![t] = @ \cup deleteme[t]]
            /\ UNCHANGED fate
       ELSE /\ fate' = [g \in Greenlets |-> IF g \in deleteme[t] THEN "leaked" ELSE fate[g]]
            /\ UNCHANGED batch

\* get_current() or borrow_current() in thread t.
ClearBegin(t) ==
    /\ RunsPython(t)
    /\ deleteme[t] # {}
    /\ SwapOut(t)
    /\ UNCHANGED <<threadVars, drop, dropper, seen, queueVars, interp>>

\* One DECREF of the list, in the thread of the greenlet.  It runs Python
\* code, so that other threads run before the next one.
ClearOne(t, g) ==
    /\ RunsPython(t)
    /\ g \in batch[t]
    /\ batch' = [batch EXCEPT ![t] = @ \ {g}]
    /\ fate' = [fate EXCEPT ![g] = IF interp = "running" THEN "killed" ELSE "murdered"]
    /\ UNCHANGED <<threadVars, deleteme, drop, dropper, seen, queueVars, interp>>

-----------------------------------------------------------------------------
(* The destructor of ThreadStateCreator, without the GIL. *)

\* The thread ends.  The main thread does when there is no interpreter left.
\* A thread that waits for the GIL while the interpreter finalizes ends in the
\* middle of whatever it did.
Exit(t) ==
    /\ pc[t] = "running"
    /\ t = MainThread => interp = "gone"
    /\ t # dropper
    /\ batch[t] = {} \/ interp # "running"
    /\ pc' = [pc EXCEPT ![t] = IF tstate[t] = "live" THEN "mark" ELSE "exited"]
    /\ fate' = [g \in Greenlets |-> IF g \in batch[t] THEN "leaked" ELSE fate[g]]
    /\ batch' = [batch EXCEPT ![t] = {}]
    /\ UNCHANGED <<tstate, linked, deleteme, drop, dropper, seen, queueVars, interp>>

\* Mutant of Mark: the main greenlet keeps its pointer.
MarkNothing(t) ==
    /\ pc[t] = "mark"
    /\ lock = NoOne
    /\ pc' = [pc EXCEPT ![t] = "check"]
    /\ UNCHANGED <<tstate, linked, greenletVars, queueVars, interp>>

\* MarkGreenletDeadIfNeeded(), all of it under the lock.
Mark(t) ==
    /\ pc[t] = "mark"
    /\ lock = NoOne
    /\ linked' = [linked EXCEPT ![t] = FALSE]
    /\ pc' = [pc EXCEPT ![t] = "check"]
    /\ UNCHANGED <<tstate, greenletVars, queueVars, interp>>

\* Without an interpreter the state is leaked.
CheckInterpreter(t) ==
    /\ pc[t] = "check"
    /\ pc' = [pc EXCEPT ![t] = IF interp = "gone" THEN "exited" ELSE "queue"]
    /\ UNCHANGED <<tstate, linked, greenletVars, queueVars, interp>>

\* Mutant of Enqueue: the size is compared before the push.
EnqueueSizeBefore(t) ==
    /\ pc[t] = "queue"
    /\ lock = NoOne
    /\ to_destroy' = Append(to_destroy, t)
    /\ IF Len(to_destroy) = 1
       THEN pc' = [pc EXCEPT ![t] = "schedule"] /\ lock' = t
       ELSE pc' = [pc EXCEPT ![t] = "exited"] /\ UNCHANGED lock
    /\ UNCHANGED <<tstate, linked, greenletVars, scheduled, foreign, runner, taken, warned, interp>>

\* AddToCleanupQueue(): whoever makes the queue non-empty schedules the
\* cleanup before it drops the lock.
Enqueue(t) ==
    /\ pc[t] = "queue"
    /\ lock = NoOne
    /\ to_destroy' = Append(to_destroy, t)
    /\ IF Len(to_destroy) = 0
       THEN pc' = [pc EXCEPT ![t] = "schedule"] /\ lock' = t
       ELSE pc' = [pc EXCEPT ![t] = "exited"] /\ UNCHANGED lock
    /\ UNCHANGED <<tstate, linked, greenletVars, scheduled, foreign, runner, taken, warned, interp>>

\* AddPendingCall() while the interpreter finalizes: nothing is scheduled, and
\* success is reported.
SkipShuttingDown(t) ==
    /\ pc[t] = "schedule"
    /\ interp # "running"
    /\ pc' = [pc EXCEPT ![t] = "exited"]
    /\ lock' = NoOne
    /\ UNCHANGED <<tstate, linked, greenletVars, to_destroy, scheduled, foreign, runner,
                   taken, warned, interp>>

\* AddPendingCall() has seen that the interpreter does not finalize.
SeeRunning(t) ==
    /\ pc[t] = "schedule"
    /\ interp = "running"
    /\ pc' = [pc EXCEPT ![t] = "pend"]
    /\ UNCHANGED <<tstate, linked, greenletVars, queueVars, interp>>

\* Py_AddPendingCall(), and the LockGuard goes out of scope.
AddPending(t) ==
    /\ pc[t] = "pend"
    /\ IF scheduled + foreign < NPendingCalls
       THEN scheduled' = scheduled + 1 /\ UNCHANGED warned
       ELSE warned' = TRUE /\ UNCHANGED scheduled
    /\ pc' = [pc EXCEPT ![t] = "exited"]
    /\ lock' = NoOne
    /\ UNCHANGED <<tstate, linked, greenletVars, to_destroy, foreign, runner, taken, interp>>

-----------------------------------------------------------------------------
(* Pending calls, run by the main thread. *)

\* Others use the same slots.
ForeignPending ==
    /\ interp = "running"
    /\ \/ scheduled + foreign < NPendingCalls /\ foreign' = foreign + 1
       \/ foreign > 0 /\ foreign' = foreign - 1
    /\ UNCHANGED <<threadVars, greenletVars, to_destroy, lock, scheduled, runner, taken,
                   warned, interp>>

RunPending ==
    /\ RunsPython(MainThread)
    /\ runner = "idle"
    /\ scheduled > 0
    /\ scheduled' = scheduled - 1
    /\ runner' = "loop"
    /\ UNCHANGED <<threadVars, greenletVars, to_destroy, lock, foreign, taken, warned, interp>>

\* Mutant of TakeNext: back() without pop_back().
TakeNextKept ==
    /\ to_destroy # <<>>
    /\ taken' = Last(to_destroy)
    /\ UNCHANGED to_destroy

\* take_next_to_destroy().
TakeNext ==
    /\ to_destroy # <<>>
    /\ taken' = Last(to_destroy)
    /\ to_destroy' = Front(to_destroy)

\* The loop of PendingCallback_DestroyQueue() takes a state under the lock,
\* and ~ThreadState() takes out its deleteme list.
TakeOne ==
    /\ RunsPython(MainThread)
    /\ runner = "loop"
    /\ lock = NoOne
    /\ TakeNext
    /\ SwapOut(Last(to_destroy))
    /\ runner' = "destroy"
    /\ UNCHANGED <<threadVars, drop, dropper, seen, lock, scheduled, foreign, warned, interp>>

LoopEnds ==
    /\ RunsPython(MainThread)
    /\ runner = "loop"
    /\ lock = NoOne
    /\ to_destroy = <<>>
    /\ runner' = "idle"
    /\ UNCHANGED <<threadVars, greenletVars, to_destroy, lock, scheduled, foreign, taken,
                   warned, interp>>

\* clear_deleteme_list(true): a greenlet of the list is made to look dead and
\* its reference dropped, which may let other Python threads run.
ReapOne(g) ==
    /\ RunsPython(MainThread)
    /\ runner = "destroy"
    /\ interp = "running"
    /\ g \in batch[taken]
    /\ batch' = [batch EXCEPT ![taken] = @ \ {g}]
    /\ fate' = [fate EXCEPT ![g] = "murdered"]
    /\ UNCHANGED <<threadVars, deleteme, drop, dropper, seen, queueVars, interp>>

\* Mutant of DestroyEnd: the callback destroys one state only.
DestroyEndReturns ==
    /\ RunsPython(MainThread)
    /\ runner = "destroy"
    /\ batch[taken] = {}
    /\ tstate' = [tstate EXCEPT ![taken] = "deleted"]
    /\ taken' = NoOne
    /\ runner' = "idle"
    /\ UNCHANGED <<pc, linked, greenletVars, to_destroy, lock, scheduled, foreign, warned, interp>>

\* The ThreadState is gone, and the loop goes on.
DestroyEnd ==
    /\ RunsPython(MainThread)
    /\ runner = "destroy"
    /\ batch[taken] = {}
    /\ tstate' = [tstate EXCEPT ![taken] = "deleted"]
    /\ taken' = NoOne
    /\ runner' = "loop"
    /\ UNCHANGED <<pc, linked, greenletVars, to_destroy, lock, scheduled, foreign, warned, interp>>

-----------------------------------------------------------------------------
\* Py_FinalizeEx() in the main thread, outside of any pending call.
Finalize ==
    /\ RunsPython(MainThread)
    /\ runner = "idle"
    /\ interp' = IF interp = "running" THEN "finalizing" ELSE "gone"
    /\ UNCHANGED <<threadVars, greenletVars, queueVars>>

\* Everything has ended.
Ended ==
    /\ \A t \in Threads : pc[t] = "exited"
    /\ UNCHANGED vars

Destructor(t) ==
    \/ Mark(t) \/ CheckInterpreter(t) \/ Enqueue(t)
    \/ SkipShuttingDown(t) \/ SeeRunning(t) \/ AddPending(t)

DestroyQueue ==
    \/ RunPending \/ TakeOne \/ LoopEnds \/ DestroyEnd
    \/ \E g \in Greenlets : ReapOne(g)

Next ==
    \/ \E g \in Greenlets : StartGreenlet(g) \/ DropInThread(g) \/ DropFinalizing(g)
    \/ \E t \in Threads, g \in Greenlets : DropElsewhere(t, g) \/ ClearOne(t, g)
    \/ FinishDrop
    \/ \E t \in Threads : ClearBegin(t) \/ Exit(t) \/ Destructor(t)
    \/ ForeignPending
    \/ DestroyQueue
    \/ Finalize \/ Ended

Spec == Init /\ [][Next]_vars

\* A destructor is straight C++ code; a drop that has begun ends; and as long
\* as the main thread runs Python code, CPython runs its pending calls.
FairSpec ==
    /\ Spec
    /\ \A t \in Threads : WF_vars(Destructor(t))
    /\ WF_vars(FinishDrop)
    /\ WF_vars(DestroyQueue)

-----------------------------------------------------------------------------
(* Properties *)

\* Greenlets are parked on the list of their own thread, and no more calls
\* are pending than there are slots.
TypeOK ==
    /\ pc \in [Threads -> {"running", "mark", "check", "queue", "schedule", "pend", "exited"}]
    /\ tstate \in [Threads -> {"unset", "live", "deleted"}]
    /\ linked \in [Threads -> BOOLEAN]
    /\ deleteme \in [Threads -> SUBSET Greenlets]
    /\ batch \in [Threads -> SUBSET Greenlets]
    /\ \A t \in Threads : \A g \in deleteme[t] \cup batch[t] : OwnerOf[g] = t
    /\ fate \in [Greenlets -> {"new", "suspended", "parked", "killed", "murdered", "leaked"}]
    /\ drop \in Greenlets \cup {NoOne}
    /\ dropper \in Threads \cup {NoOne} /\ (dropper = NoOne <=> drop = NoOne)
    /\ seen \in BOOLEAN
    /\ to_destroy \in Seq(Threads)
    /\ lock \in Threads \cup {NoOne}
    /\ scheduled \in Nat /\ foreign \in Nat /\ scheduled + foreign <= NPendingCalls
    /\ runner \in {"idle", "loop", "destroy"}
    /\ taken \in Threads \cup {NoOne}
    /\ warned \in BOOLEAN
    /\ interp \in {"running", "finalizing", "gone"}

\* The states that wait for their destruction, or are being destroyed.
Doomed == ToSet(to_destroy) \cup ({taken} \ {NoOne})

\* A ThreadState is destroyed once, and only after its thread has unlinked it
\* (assert(main->pimpl->thread_state() == nullptr) in DestroyOne, and the
\* search for duplicates in queue_to_destroy).
DestroyedOnce ==
    /\ \A i, j \in DOMAIN to_destroy : to_destroy[i] = to_destroy[j] => i = j
    /\ taken \notin ToSet(to_destroy)
    /\ \A t \in Doomed : /\ tstate[t] = "live"
                         /\ ~linked[t]
                         /\ pc[t] \in {"schedule", "pend", "exited"}

\* Whoever finds a thread state through a main greenlet finds one that exists,
\* even if the thread has exited since it looked.
NoDanglingState ==
    /\ \A t \in Threads : linked[t] => tstate[t] = "live"
    /\ drop # NoOne /\ seen => tstate[OwnerOf[drop]] = "live"

\* The argument of the long comment in AddToCleanupQueue: a state on the queue
\* is seen by a pending call, one that runs or one that is still to run.
NothingStranded ==
    to_destroy # <<>> /\ interp = "running" /\ ~warned =>
        \/ scheduled > 0
        \/ runner # "idle"
        \/ \E t \in Threads : pc[t] \in {"schedule", "pend"}

\* A parked greenlet stays in reach of someone who will free it: the owning
\* reference of the deleteme list is never lost, whichever thread exits when.
ParkedHasReaper ==
    \A g \in Greenlets : fate[g] = "parked" =>
        /\ g \in deleteme[OwnerOf[g]] \cup batch[OwnerOf[g]]
        /\ tstate[OwnerOf[g]] = "live"

\* What the comment in AddToCleanupQueue says: with more than one state on the
\* queue, "we have already added the pending call, and in fact, it may be
\* executing now".
CallAddedBefore ==
    Len(to_destroy) > 1 /\ interp = "running" => scheduled > 0 \/ runner # "idle" \/ lock # NoOne

\* The state of a thread that exits is destroyed, and with it every greenlet
\* parked there is freed, unless the pending call could not be added or the
\* interpreter goes first.
ExitedIsCleaned ==
    \A t \in Threads :
        pc[t] = "mark" ~>
            \/ tstate[t] = "deleted" /\ \A g \in Greenlets : OwnerOf[g] = t => fate[g] # "parked"
            \/ warned
            \/ interp # "running"

-----------------------------------------------------------------------------
(* The inductive invariant behind DestroyedOnce, NoDanglingState and         *)
(* ParkedHasReaper.                                                          *)

\* A thread is linked from the creation of its state until its destructor unlinks it,
\* and a state that does not exist has no lists.
StateInv ==
    \A t \in Threads :
        /\ linked[t] <=> tstate[t] = "live" /\ pc[t] \in {"running", "mark"}
        /\ tstate[t] # "live" => /\ pc[t] \in {"running", "exited"}
                                /\ deleteme[t] = {} /\ batch[t] = {}
        /\ tstate[t] = "deleted" => pc[t] = "exited"
        /\ t \in Doomed => tstate[t] = "live" /\ pc[t] \in {"schedule", "pend", "exited"}

\* A thread that schedules the pending call holds the lock.
LockInv == \A t \in Threads : pc[t] \in {"schedule", "pend"} => lock = t

\* The queue names a state once, and the one being destroyed is not on it; its thread
\* is done with it, and nobody parks a greenlet there any more.
QueueInv ==
    /\ \A i, j \in DOMAIN to_destroy : to_destroy[i] = to_destroy[j] => i = j
    /\ taken \notin ToSet(to_destroy)
    /\ runner = "destroy" <=> taken # NoOne
    /\ taken # NoOne => deleteme[taken] = {} /\ pc[taken] = "exited"

\* A drop that has seen a thread state holds the GIL, without which no state is taken
\* from the queue and deleted.
DropInv ==
    drop # NoOne /\ seen => tstate[OwnerOf[drop]] = "live" /\ OwnerOf[drop] # taken

\* Who may still reach a thread state, at every step of a thread's exit and of the
\* pending call: its thread, a drop with the GIL, the queue, or the callback, of which
\* no two free it and none forgets the greenlets parked there.
CleanupInv == StateInv /\ LockInv /\ QueueInv /\ DropInv /\ ParkedHasReaper
=============================================================================

----------------------------- MODULE Switching -----------------------------
(***************************************************************************)
(* How control and values move between greenlets: green_switch(),          *)
(* green_throw(), UserGreenlet::g_switch(), g_initialstub() and            *)
(* inner_bootstrap().                                                      *)
(*                                                                         *)
(* The GIL is held from the call of switch() to the moment some Python     *)
(* code runs again, so the threads interleave only while pc is "python";   *)
(* sw names the thread that is inside g_switch().  Python code also runs   *)
(* in the middle of g_initialstub(), where looking up `run` may call a     *)
(* __getattribute__ that switches, throws and re-parents: greenlets whose  *)
(* class does that are in Callbacks, and frames[g] holds the g_switch()    *)
(* calls that wait in g for such a lookup to return.  The trace function   *)
(* of settrace() is Python code too: it runs in the greenlet that was      *)
(* switched to, before that greenlet is given what was sent, and traced[g] *)
(* holds what waits in g for such a call to return.  A greenlet that is    *)
(* current in another thread is not switched to at all: g_switch() calls   *)
(* the trace function of that thread and gives the caller back what it     *)
(* sent, so that this call too waits in frames[g].                         *)
(***************************************************************************)
EXTENDS Integers, Sequences, SequencesExt, FiniteSets

CONSTANTS Threads,    \* the threads
          Greenlets,  \* every greenlet, the main ones included
          MainOf,     \* the main greenlet of each thread
          NoOne,      \* the null greenlet
          Callbacks,  \* the greenlets whose `run` lookup may run Python code
          Tracing,    \* the threads that use settrace()
          MaxSends,   \* bounds the values passed by switch() and returned by run()
          MaxThrows,  \* bounds the calls of throw()
          MaxDepth    \* bounds the calls among which a lookup may wait in one greenlet

ASSUME ThreadsAssumption ==
    /\ Threads # {} /\ NoOne \notin Greenlets
    /\ Tracing \subseteq Threads
ASSUME MainOfAssumption ==
    /\ MainOf \in [Threads -> Greenlets]
    /\ \A t, u \in Threads : MainOf[t] = MainOf[u] => t = u
ASSUME BoundsAssumption == {MaxSends, MaxThrows, MaxDepth} \subseteq Nat

VARIABLES
    life,     \* "new", "active" or "dead": what stack_start and stack_stop say
    home,     \* _main_greenlet
    parent,   \* _parent
    args,     \* switch_args: a value, Exit or None
    current,  \* each thread's current greenlet
    frames,   \* the suspended g_switch() calls of each greenlet
    tracer,   \* the threads whose ThreadState::tracefunc is set
    traced,   \* the calls of a trace function in progress in each greenlet
    err,      \* PyErr_Occurred(): "none", "error" or "exit" (GreenletExit)
    pc,       \* "python", or where g_switch() and its callers are
    sw,       \* the g_switch() call in progress
    sent,     \* auxiliary: the number of values sent
    thrown,   \* auxiliary: the number of exceptions thrown
    got,      \* auxiliary: how often each value was received
    told,     \* auxiliary: the values instead of which an exception was raised
    runs,     \* auxiliary: how often each run() was entered
    seen      \* auxiliary: the greenlet that the trace function knows to be current

greenlets == <<life, home, parent>>
ghosts == <<sent, thrown, got, told, runs>>
tracing == <<tracer, traced, seen>>
vars == <<life, home, parent, args, current, frames, err, pc, sw,
          sent, thrown, got, told, runs, tracer, traced, seen>>

None == 0
Values == 1..MaxSends
Exit == MaxSends + 1   \* a GreenletExit object that is passed as a value
Things == 0..MaxSends + 1
Mains == {MainOf[t] : t \in Threads}

\* The locals of g_switch() and g_initialstub(): target_was_me is this = target,
\* back says who called g_switch(), the saved two are what g_initialstub() keeps
\* across the lookup of `run`, or g_switch_finish() across a call of the trace
\* function of another thread, and waits says which of these it is.
Calls == [thread : Threads, this : Greenlets, target : Greenlets,
          back : {"switch", "die"}, value : Things, savedArgs : Things,
          savedErr : {"none", "error", "exit"}, waits : {"run", "trace"}]
Idle == [this |-> NoOne]

Call(t, g, back, v) == [thread |-> t, this |-> g, target |-> g, back |-> back, value |-> v,
                        savedArgs |-> None, savedErr |-> "none", waits |-> "run"]

\* What g_switch_finish() and inner_bootstrap() capture before they call the trace
\* function; first says which of the two, depth how many lookups are further out.
Captures == [value : Things, err : {"none", "error", "exit"}, first : BOOLEAN, depth : Nat]

Capture(v, e, first, g) == [value |-> v, err |-> e, first |-> first, depth |-> Len(frames[g])]

\* The innermost call that waits in g is one of the trace function.
InTrace(g) == traced[g] # <<>> /\ Last(traced[g]).depth = Len(frames[g])

Started(g) == life[g] # "new"

\* The greenlets met on the way up from g, g included.
Up(g) == LET up[n \in 0..Cardinality(Greenlets)] ==
                 IF n = 0 THEN g ELSE IF up[n - 1] = NoOne THEN NoOne ELSE parent[up[n - 1]]
         IN  up
Lineage(g) == {Up(g)[n] : n \in DOMAIN Up(g)} \ {NoOne}

\* The main greenlet of the last greenlet of g's lineage.
TopMain(g) == LET tops == {x \in Lineage(g) : parent[x] = NoOne}
              IN  IF tops = {} THEN NoOne ELSE home[CHOOSE x \in tops : TRUE]

\* find_main_greenlet_in_lineage(): that of the first started one.
MainInLineage(g) ==
    IF Started(g) THEN home[g]
    ELSE LET started == {n \in DOMAIN Up(g) : Up(g)[n] # NoOne /\ Started(Up(g)[n])}
         IN  IF started = {} THEN NoOne
             ELSE home[Up(g)[CHOOSE n \in started : \A m \in started : n <= m]]

\* check_switch_allowed(), called in thread t.
SwitchAllowed(t, g) == MainInLineage(g) = MainOf[t]

\* Mutant of Move: the arguments stay with the dead greenlet.
MoveNothing(from, to) == args

\* target->args() <<= this->args()
Move(from, to) == IF from = to THEN args
                  ELSE [args EXCEPT ![to] = args[from], ![from] = None]

\* Whoever reads the arguments v gets that value.
Received(v) == [w \in Values |-> IF w = v THEN got[w] + 1 ELSE got[w]]

-----------------------------------------------------------------------------
Init ==
    /\ life = [g \in Greenlets |-> IF g \in Mains THEN "active" ELSE "new"]
    /\ home = [g \in Greenlets |-> IF g \in Mains THEN g ELSE NoOne]
    /\ parent \in {p \in [Greenlets -> Mains \cup {NoOne}] :
                     \A g \in Greenlets : (p[g] = NoOne) <=> (g \in Mains)}
    /\ args = [g \in Greenlets |-> None]
    /\ current = MainOf
    /\ frames = [g \in Greenlets |-> <<>>]
    /\ err = "none"
    /\ pc = "python"
    /\ sw = Idle
    /\ sent = 0
    /\ thrown = 0
    /\ got = [v \in Values |-> 0]
    /\ told = {}
    /\ runs = [g \in Greenlets |-> 0]
    /\ tracer = {}
    /\ traced = [g \in Greenlets |-> <<>>]
    /\ seen = MainOf

\* green_switch(): the caller's value becomes the target's arguments.
Switch(t, g) ==
    /\ pc = "python"
    /\ sent < MaxSends
    /\ sent' = sent + 1
    /\ args' = [args EXCEPT ![g] = sent + 1]
    /\ sw' = Call(t, g, "switch", sent + 1)
    /\ pc' = "check"
    /\ UNCHANGED <<greenlets, current, frames, err, thrown, got, told, runs, tracing>>

\* green_throw() of e: GreenletExit thrown into a dead greenlet is a value.
Throw(t, g, e) ==
    /\ pc = "python"
    /\ thrown < MaxThrows
    /\ thrown' = thrown + 1
    /\ LET v == IF life[g] = "dead" /\ e = "exit" THEN Exit ELSE None
       IN  /\ args' = [args EXCEPT ![g] = v]
           /\ err' = IF v = None THEN e ELSE "none"
           /\ sw' = Call(t, g, "switch", v)
    /\ pc' = "check"
    /\ UNCHANGED <<greenlets, current, frames, sent, got, told, runs, tracing>>

\* Mutant of SetParent: no check for cycles.
SetParentCyclic(g, p) ==
    /\ pc = "python"
    /\ g \notin Mains
    /\ Started(g) => home[g] = TopMain(p)
    /\ parent' = [parent EXCEPT ![g] = p]
    /\ UNCHANGED <<life, home, args, current, frames, err, pc, sw, ghosts, tracing>>

\* The parent setter, called by some thread; its refusals change nothing.
SetParent(g, p) ==
    /\ pc = "python"
    /\ g \notin Mains
    /\ g \notin Lineage(p)
    /\ Started(g) => home[g] = TopMain(p)
    /\ parent' = [parent EXCEPT ![g] = p]
    /\ UNCHANGED <<life, home, args, current, frames, err, pc, sw, ghosts, tracing>>

-----------------------------------------------------------------------------
\* Mutant of Fail: no release_args().
FailKeepsArgs(call) ==
    /\ told' = told \cup ({call.value} \cap Values)
    /\ UNCHANGED args
    /\ IF call.back = "switch"
       THEN pc' = "python" /\ err' = "none" /\ sw' = Idle
       ELSE pc' = "die" /\ err' = "error" /\ sw' = call

\* Mutant of Fail: inner_bootstrap() does not go on to the next parent.
FailReturns(call) ==
    /\ args' = [args EXCEPT ![call.this] = None]
    /\ told' = told \cup ({call.value} \cap Values)
    /\ pc' = "python" /\ err' = "none" /\ sw' = Idle

\* A PyErrOccurred leaves g_switch(): release_args(), then the exception is
\* raised in the Python code that called switch(), or a dying greenlet turns to
\* its next parent.
Fail(call) ==
    /\ args' = [args EXCEPT ![call.this] = None]
    /\ told' = told \cup ({call.value} \cap Values)
    /\ IF call.back = "switch"
       THEN pc' = "python" /\ err' = "none" /\ sw' = Idle
       ELSE pc' = "die" /\ err' = "error" /\ sw' = call

\* g_switch() refuses.  The main greenlet's g_switch() does not ask for arguments.
Refuse ==
    /\ pc = "check"
    /\ \/ sw.this \notin Mains /\ args[sw.this] = None /\ err = "none"
       \/ ~SwitchAllowed(sw.thread, sw.this)
    /\ Fail(sw)
    /\ UNCHANGED <<greenlets, current, frames, sent, thrown, got, runs, tracing>>

Allow ==
    /\ pc = "check"
    /\ sw.this \in Mains \/ args[sw.this] # None \/ err # "none"
    /\ SwitchAllowed(sw.thread, sw.this)
    /\ pc' = "walk"
    /\ UNCHANGED <<greenlets, args, current, frames, err, sw, ghosts, tracing>>

\* The loop of g_switch() passes over a dead target.
SkipDead ==
    /\ pc = "walk"
    /\ life[sw.target] = "dead"
    /\ sw' = [sw EXCEPT !.target = parent[sw.target]]
    /\ UNCHANGED <<greenlets, args, current, frames, err, pc, ghosts, tracing>>

\* The stack of the thread's current greenlet is left; a dead one is left for good.
Leave(g) == IF life[g] = "dead" THEN [frames EXCEPT ![g] = <<>>] ELSE frames

\* g_calltrace() is called in g, which is current by now.
Trace(t, g, captured) ==
    /\ traced' = [traced EXCEPT ![g] = Append(@, captured)]
    /\ seen' = [seen EXCEPT ![t] = g]

\* switch() returns the value v in its caller, or raises the exception e.
Arrive(v, e) == got' = IF e = "none" THEN Received(v) ELSE got

\* g_switchstack() to an active target, and g_switch_finish() in it.
SwitchStack ==
    /\ pc = "walk"
    /\ life[sw.target] = "active"
    /\ home[sw.target] = MainOf[sw.thread]
    /\ LET moved == Move(sw.this, sw.target)
           v == moved[sw.target]
       IN  /\ IF sw.thread \in tracer
              THEN /\ Trace(sw.thread, sw.target, Capture(v, err, FALSE, sw.target))
                   /\ UNCHANGED got
              ELSE /\ Arrive(v, err)
                   /\ UNCHANGED <<traced, seen>>
           /\ args' = [moved EXCEPT ![sw.target] = None]
    /\ frames' = Leave(current[sw.thread])
    /\ current' = [current EXCEPT ![sw.thread] = sw.target]
    /\ err' = "none"
    /\ pc' = "python"
    /\ sw' = Idle
    /\ UNCHANGED <<greenlets, sent, thrown, told, runs, tracer>>

\* g_switch() returns v or raises e, without a switch: in Python code, or in a dying
\* greenlet, which takes it on to its next parent.
ComeBack(call, v, e) ==
    IF call.back = "switch"
    THEN Arrive(v, e) /\ pc' = "python" /\ err' = "none" /\ sw' = Idle
    ELSE /\ pc' = "die" /\ err' = e /\ sw' = Call(call.thread, call.this, "die", v)
         /\ UNCHANGED got

\* Mutant of SwitchNowhere: the trace function is told of the caller.
SwitchNowhereMistold ==
    /\ pc = "walk"
    /\ life[sw.target] = "active"
    /\ \E u \in Threads \ {sw.thread} :
          /\ current[u] = sw.target
          /\ u \in tracer
          /\ seen' = [seen EXCEPT ![u] = sw.this]
          /\ args' = [args EXCEPT ![sw.this] = None, ![sw.target] = None]
          /\ pc' = "python" /\ err' = "none" /\ sw' = Idle
    /\ UNCHANGED <<greenlets, current, frames, ghosts, tracer, traced>>

\* g_switchstack() finds the target current in the target's own thread u, which is not
\* the caller's, and g_switch_finish() gives the arguments back to the caller, once
\* the trace function of u has been told of a switch from the target to itself.
SwitchNowhere ==
    /\ pc = "walk"
    /\ life[sw.target] = "active"
    /\ \E u \in Threads \ {sw.thread} :
          /\ current[u] = sw.target
          /\ LET moved == Move(sw.this, sw.target)
                 v == moved[sw.target]
                 waiting == [sw EXCEPT !.savedArgs = v, !.savedErr = err, !.waits = "trace"]
             IN  /\ args' = [moved EXCEPT ![sw.target] = None]
                 /\ IF u \in tracer
                    THEN /\ frames' = [frames EXCEPT ![current[sw.thread]] = Append(@, waiting)]
                         /\ seen' = [seen EXCEPT ![u] = sw.target]
                         /\ pc' = "python" /\ err' = "none" /\ sw' = Idle
                         /\ UNCHANGED got
                    ELSE ComeBack(sw, v, err) /\ UNCHANGED <<frames, seen>>
    /\ UNCHANGED <<greenlets, current, sent, thrown, told, runs, tracer, traced>>

\* The target is suspended in another thread: slp_switch() moves this thread to a
\* stack that is not its own, which destroys the process.
SwitchForeign ==
    /\ pc = "walk"
    /\ life[sw.target] = "active"
    /\ home[sw.target] # MainOf[sw.thread]
    /\ \A u \in Threads : current[u] # sw.target
    /\ pc' = "crash"
    /\ UNCHANGED <<greenlets, args, current, frames, err, sw, ghosts, tracing>>

\* Mutant of LookUpRun: the pending exception is not put aside.
LookUpRunPending ==
    /\ pc = "walk"
    /\ life[sw.target] = "new"
    /\ args' = Move(sw.this, sw.target)
    /\ sw' = [sw EXCEPT !.savedArgs = args'[sw.target], !.savedErr = err]
    /\ pc' = "lookup"
    /\ UNCHANGED <<greenlets, current, frames, err, ghosts, tracing>>

\* g_initialstub() saves the arguments and the error, and looks `run` up.
LookUpRun ==
    /\ pc = "walk"
    /\ life[sw.target] = "new"
    /\ args' = Move(sw.this, sw.target)
    /\ sw' = [sw EXCEPT !.savedArgs = args'[sw.target], !.savedErr = err]
    /\ err' = "none"
    /\ pc' = "lookup"
    /\ UNCHANGED <<greenlets, current, frames, ghosts, tracing>>

\* The lookup finds a run attribute without running Python code, or finds none.
Found ==
    /\ pc = "lookup"
    /\ pc' = "start"
    /\ UNCHANGED <<greenlets, args, current, frames, err, sw, ghosts, tracing>>

NotFound ==
    /\ pc = "lookup"
    /\ Fail(sw)
    /\ UNCHANGED <<greenlets, current, frames, sent, thrown, got, runs, tracing>>

\* The lookup runs Python code, in the greenlet that called g_switch().
EnterCallback ==
    /\ pc = "lookup"
    /\ sw.target \in Callbacks
    /\ LET g == current[sw.thread]
       IN  /\ Len(frames[g]) < MaxDepth
           /\ frames' = [frames EXCEPT ![g] = Append(@, sw)]
    /\ pc' = "python"
    /\ sw' = Idle
    /\ UNCHANGED <<greenlets, args, current, err, ghosts, tracing>>

\* That code returns a callable, or raises.
LeaveCallback(t) ==
    /\ pc = "python"
    /\ frames[current[t]] # <<>> /\ ~InTrace(current[t])
    /\ Last(frames[current[t]]).waits = "run"
    /\ frames' = [frames EXCEPT ![current[t]] = Front(@)]
    /\ \/ /\ sw' = Last(frames[current[t]])
          /\ pc' = "start"
          /\ UNCHANGED <<args, err, told>>
       \/ Fail(Last(frames[current[t]]))
    /\ UNCHANGED <<greenlets, current, sent, thrown, got, runs, tracing>>

-----------------------------------------------------------------------------
\* The greenlet may no longer be switched to.
RefuseStart ==
    /\ pc = "start"
    /\ ~SwitchAllowed(sw.thread, sw.target)
    /\ Fail(sw)
    /\ UNCHANGED <<greenlets, current, frames, sent, thrown, got, runs, tracing>>

\* Mutant of Retry: it is not checked whether the target may still be switched to.
RetryUnchecked ==
    /\ pc = "start"
    /\ Started(sw.target)
    /\ args' = [args EXCEPT ![sw.target] = sw.savedArgs]
    /\ err' = sw.savedErr
    /\ pc' = "walk"
    /\ UNCHANGED <<greenlets, current, frames, sw, ghosts, tracing>>

\* Python code started the target during the lookup: the target gets the saved
\* arguments back and g_switch() looks at it again.
Retry ==
    /\ pc = "start"
    /\ SwitchAllowed(sw.thread, sw.target)
    /\ Started(sw.target)
    /\ args' = [args EXCEPT ![sw.target] = sw.savedArgs]
    /\ err' = sw.savedErr
    /\ pc' = "walk"
    /\ UNCHANGED <<greenlets, current, frames, sw, ghosts, tracing>>

\* Mutant of StartRun: started() is not read again after the lookup.
StartRunAgain ==
    /\ pc = "start"
    /\ SwitchAllowed(sw.thread, sw.target)
    /\ life' = [life EXCEPT ![sw.target] = "active"]
    /\ home' = [home EXCEPT ![sw.target] = MainOf[sw.thread]]
    /\ frames' = Leave(current[sw.thread])
    /\ current' = [current EXCEPT ![sw.thread] = sw.target]
    /\ got' = Received(args[sw.target])
    /\ args' = [args EXCEPT ![sw.target] = None]
    /\ runs' = [runs EXCEPT ![sw.target] = @ + 1]
    /\ pc' = "python"
    /\ sw' = Idle
    /\ UNCHANGED <<parent, err, sent, thrown, told, tracing>>

\* inner_bootstrap() calls run(), which an exception thrown in replaces.
Bootstrap(t, g, v, e) ==
    /\ got' = Received(v)
    /\ IF v # None
       THEN /\ runs' = [runs EXCEPT ![g] = @ + 1]
            /\ pc' = "python"
            /\ sw' = Idle
            /\ UNCHANGED err
       ELSE /\ err' = e
            /\ pc' = "end"
            /\ sw' = Call(t, g, "die", None)
            /\ UNCHANGED runs

\* inner_bootstrap() in thread t, where g has become current.
FirstSwitch(t, g, v, e) ==
    IF t \in tracer
    THEN /\ Trace(t, g, Capture(v, e, TRUE, g))
         /\ pc' = "python"
         /\ sw' = Idle
         /\ UNCHANGED <<err, got, runs>>
    ELSE /\ Bootstrap(t, g, v, e)
         /\ UNCHANGED <<traced, seen>>

\* The first switch
StartRun ==
    /\ pc = "start"
    /\ SwitchAllowed(sw.thread, sw.target)
    /\ ~Started(sw.target)
    /\ life' = [life EXCEPT ![sw.target] = "active"]
    /\ home' = [home EXCEPT ![sw.target] = MainOf[sw.thread]]
    /\ frames' = Leave(current[sw.thread])
    /\ current' = [current EXCEPT ![sw.thread] = sw.target]
    /\ args' = [args EXCEPT ![sw.target] = None]
    /\ FirstSwitch(sw.thread, sw.target, args[sw.target], sw.savedErr)
    /\ UNCHANGED <<parent, sent, thrown, told, tracer>>

-----------------------------------------------------------------------------
\* settrace(), with a function or with None
SetTrace(t) ==
    /\ pc = "python"
    /\ t \in Tracing
    /\ tracer' \in {tracer \cup {t}, tracer \ {t}}
    /\ seen' = [seen EXCEPT ![t] = current[t]]
    /\ UNCHANGED <<greenlets, args, current, frames, err, pc, sw, ghosts, traced>>

\* Mutant of TraceReturn: the arguments are not captured before the call.
TraceReturnLate(t) ==
    LET g == current[t]
        captured == Last(traced[g])
    IN  /\ pc = "python"
        /\ InTrace(g)
        /\ traced' = [traced EXCEPT ![g] = Front(@)]
        /\ IF captured.first
           THEN Bootstrap(t, g, captured.value, captured.err)
           ELSE /\ Arrive(args[g], captured.err)
                /\ UNCHANGED <<err, pc, sw, runs>>
        /\ UNCHANGED <<greenlets, args, current, frames, tracer, seen, sent, thrown, told>>

\* The trace function returns: the greenlet gets what was captured before the call.
TraceReturn(t) ==
    LET g == current[t]
        captured == Last(traced[g])
    IN  /\ pc = "python"
        /\ InTrace(g)
        /\ traced' = [traced EXCEPT ![g] = Front(@)]
        /\ IF captured.first
           THEN Bootstrap(t, g, captured.value, captured.err)
           ELSE /\ Arrive(captured.value, captured.err)
                /\ UNCHANGED <<err, pc, sw, runs>>
        /\ UNCHANGED <<greenlets, args, current, frames, tracer, seen, sent, thrown, told>>

\* It raises e: it is removed, and e takes the place of what was captured.
TraceRaise(t, e) ==
    LET g == current[t]
        captured == Last(traced[g])
    IN  /\ pc = "python"
        /\ InTrace(g)
        /\ traced' = [traced EXCEPT ![g] = Front(@)]
        /\ tracer' = tracer \ {t}
        /\ told' = told \cup ({captured.value} \cap Values)
        /\ IF captured.first
           THEN Bootstrap(t, g, None, e)
           ELSE UNCHANGED <<err, pc, sw, runs, got>>
        /\ UNCHANGED <<greenlets, args, current, frames, seen, sent, thrown>>

\* The trace function of another thread returns in thread t, or raises e, which takes
\* the place of what was captured: it is t whose trace function is removed.
ForeignReturn(t) ==
    LET call == Last(frames[current[t]])
    IN  /\ pc = "python"
        /\ frames[current[t]] # <<>> /\ ~InTrace(current[t])
        /\ call.waits = "trace"
        /\ frames' = [frames EXCEPT ![current[t]] = Front(@)]
        /\ args' = IF call.savedErr = "none" THEN args ELSE [args EXCEPT ![call.target] = None]
        /\ ComeBack(call, call.savedArgs, call.savedErr)
        /\ UNCHANGED <<greenlets, current, sent, thrown, told, runs, tracing>>

ForeignRaise(t, e) ==
    LET call == Last(frames[current[t]])
    IN  /\ pc = "python"
        /\ frames[current[t]] # <<>> /\ ~InTrace(current[t])
        /\ call.waits = "trace"
        /\ frames' = [frames EXCEPT ![current[t]] = Front(@)]
        /\ args' = [args EXCEPT ![call.target] = None]
        /\ tracer' = tracer \ {t}
        /\ told' = told \cup ({call.savedArgs} \cap Values)
        /\ ComeBack(call, None, e)
        /\ UNCHANGED <<greenlets, current, sent, thrown, runs, traced, seen>>

\* run() returns or raises.
Finish(t) ==
    LET g == current[t]
    IN  /\ pc = "python"
        /\ g \notin Mains
        /\ frames[g] = <<>> /\ traced[g] = <<>>
        /\ \/ /\ sent < MaxSends
              /\ sent' = sent + 1
              /\ sw' = Call(t, g, "die", sent + 1)
              /\ UNCHANGED err
           \/ /\ err' \in {"error", "exit"}
              /\ sw' = Call(t, g, "die", None)
              /\ UNCHANGED sent
        /\ pc' = "end"
        /\ UNCHANGED <<greenlets, args, current, frames, thrown, got, told, runs, tracing>>

\* Mutant of Result: g_handle_exit() is not called.
ResultUnhandled(g, v) == v

\* The value a dying greenlet g passes on: what run() returned, or for a
\* GreenletExit the arguments g got since, or the exception itself.
Result(g, v) ==
    CASE v # None -> v
      [] err = "exit" /\ args[g] # None -> args[g]
      [] err = "exit" /\ args[g] = None -> Exit
      [] OTHER -> None

\* The end of inner_bootstrap(): the greenlet is dead, its parent is next.
Die ==
    /\ pc = "end"
    /\ LET g == sw.this
           r == Result(g, sw.value)
       IN  /\ life' = [life EXCEPT ![g] = "dead"]
           /\ args' = [args EXCEPT ![g] = None, ![parent[g]] = r]
           /\ err' = IF err = "exit" THEN "none" ELSE err
           /\ sw' = Call(sw.thread, parent[g], "die", r)
    /\ pc' = "check"
    /\ UNCHANGED <<home, parent, current, frames, ghosts, tracing>>

\* The switch to a parent failed: the exception, or what came back instead, goes to
\* the next one.
NextParent ==
    /\ pc = "die"
    /\ LET p == parent[sw.this]
           r == IF err = "none" THEN sw.value ELSE None
       IN  IF p = NoOne
           THEN pc' = "fatal" /\ UNCHANGED <<args, sw>>
           ELSE /\ args' = [args EXCEPT ![p] = r]
                /\ sw' = Call(sw.thread, p, "die", r)
                /\ pc' = "check"
    /\ UNCHANGED <<greenlets, current, frames, err, ghosts, tracing>>

\* What the code does without Python code running in between.
Inside ==
    \/ Refuse \/ Allow \/ SkipDead \/ SwitchStack \/ SwitchNowhere \/ SwitchForeign
    \/ LookUpRun \/ Found \/ NotFound
    \/ RefuseStart \/ Retry \/ StartRun
    \/ Die \/ NextParent

Next ==
    \/ Inside
    \/ EnterCallback
    \/ \E t \in Threads :
         \/ \E g \in Greenlets : Switch(t, g) \/ \E e \in {"error", "exit"} : Throw(t, g, e)
         \/ LeaveCallback(t)
         \/ Finish(t)
         \/ SetTrace(t) \/ TraceReturn(t) \/ ForeignReturn(t)
         \/ \E e \in {"error", "exit"} : TraceRaise(t, e) \/ ForeignRaise(t, e)
    \/ \E g, p \in Greenlets : SetParent(g, p)

Spec == Init /\ [][Next]_vars

\* Nothing is assumed of Python code; a call of g_switch() goes on by itself.
FairSpec == Spec /\ WF_vars(Inside)

-----------------------------------------------------------------------------
\* Every variable has its type.  A main greenlet is always active in its own
\* thread and has no parent, a greenlet has a home once it was started, and a
\* g_switch() call is in progress exactly while no Python code runs.
TypeOK ==
    /\ life \in [Greenlets -> {"new", "active", "dead"}]
    /\ home \in [Greenlets -> Mains \cup {NoOne}]
    /\ parent \in [Greenlets -> Greenlets \cup {NoOne}]
    /\ args \in [Greenlets -> Things]
    /\ current \in [Threads -> Greenlets]
    /\ frames \in [Greenlets -> Seq(Calls)]
    /\ \A g \in Greenlets : /\ Started(g) <=> home[g] # NoOne
                            /\ g \in Mains <=> parent[g] = NoOne
    /\ \A g \in Mains : life[g] = "active" /\ home[g] = g
    /\ err \in {"none", "error", "exit"}
    /\ pc \in {"python", "check", "walk", "lookup", "start", "end", "die", "fatal", "crash"}
    /\ IF pc = "python" THEN sw = Idle /\ err = "none" ELSE sw \in Calls
    /\ sent \in 0..MaxSends /\ thrown \in 0..MaxThrows
    /\ got \in [Values -> Nat]
    /\ told \subseteq Values
    /\ runs \in [Greenlets -> Nat]
    /\ tracer \subseteq Tracing
    /\ traced \in [Greenlets -> Seq(Captures)]
    /\ seen \in [Threads -> Greenlets]

\* However many switches race for an unstarted greenlet while its `run` is being
\* looked up, in whatever threads, its run() is entered at most once.
RunsOnce == \A g \in Greenlets : runs[g] <= 1

\* Each thread's current greenlet was started in that thread and, if it is dead,
\* waits in a lookup of a parent's `run`, or for the trace function of a thread in
\* which a parent of it is current; no greenlet is current in two threads.
CurrentInThread ==
    \A t \in Threads :
        /\ home[current[t]] = MainOf[t]
        /\ pc = "python" /\ life[current[t]] = "dead" => frames[current[t]] # <<>>

\* A greenlet that is switched to itself, not for a dead one, is in its own
\* thread, though it may have been started elsewhere during the lookup of `run`.
DirectInThread ==
    pc = "walk" /\ life[sw.target] = "active" /\ home[sw.target] # MainOf[sw.thread] =>
        sw.this # sw.target

\* green_switch() asserts when it returns that the current greenlet has no
\* arguments waiting: nothing that another greenlet left there is received later.
CurrentArgsClean ==
    pc = "python" => \A t \in Threads : args[current[t]] = None

\* The calls of the trace function that v waits for.
Waiting(v) ==
    UNION {{<<g, i>> : i \in {j \in DOMAIN traced[g] : traced[g][j].value = v}} : g \in Greenlets}

\* What Python code has seen sent was received once, or its sender or receiver got an
\* exception instead, or the trace function has not returned yet: no value is lost with
\* a dead greenlet, in a trace function that switches, or received twice.  This is of
\* one thread, or of several that do not trace: a dying greenlet that is left from the
\* trace function of another thread takes its result with it.
ValuesArrive ==
    pc = "python" => \A v \in 1..sent :
        got[v] + (IF v \in told THEN 1 ELSE 0) + Cardinality(Waiting(v)) = 1

\* A trace function learns of every transfer of control between the greenlets of its
\* thread, the first switch, the death of a greenlet and its own switches included: the
\* last target it was told of is the current greenlet (docs/tracing.rst).
TracerFollows == pc = "python" => \A t \in tracer : seen[t] = current[t]

\* A value passed to one call of switch() is received by one greenlet, once: it is
\* not put back into switch_args for a second switch (TUserGreenlet.cpp, 232-235).
ReceivedOnce == \A v \in Values : got[v] <= 1

\* g_switchstack() asserts, first thing, that the greenlet switched to has been
\* given arguments or that an exception is pending for it.
ArgsPending ==
    /\ pc = "walk" /\ life[sw.target] = "active" =>
          Move(sw.this, sw.target)[sw.target] # None \/ err # "none"
    /\ pc = "start" /\ ~Started(sw.target) /\ SwitchAllowed(sw.thread, sw.target) =>
          args[sw.target] # None \/ sw.savedErr # "none"

\* Switching into another thread is refused, whatever dead greenlets and parents
\* are on the way (docs/python_threads.rst).
InThread == pc # "crash"

\* "The final parent is the main greenlet, which is never dead": a dying
\* greenlet always finds a parent that takes its result (docs/switching.rst).
NeverOutOfParents == pc # "fatal"

\* Once started, a greenlet never becomes startable again or changes its thread,
\* and once dead it stays dead.
StartedForGood ==
    [][\A g \in Greenlets : Started(g) => /\ home'[g] = home[g]
                                          /\ life'[g] # "new"
                                          /\ life[g] = "dead" => life'[g] = "dead"]_vars

\* Every switch ends: the walk over dead greenlets, the retries after a lookup and
\* the search for a parent come to Python code again or abort the process.
SwitchReturns == pc \notin {"python", "fatal", "crash"} ~> pc \in {"python", "fatal", "crash"}

-----------------------------------------------------------------------------
(* The inductive invariant behind RunsOnce, CurrentInThread, DirectInThread  *)
(* and CurrentArgsClean.                                                     *)

\* What holds of a call c that has begun to look `run` up in greenlet g, or waits for
\* a trace function of another thread there: the dead greenlets it has passed are of
\* its thread, its target is not g, and g is dead if c comes from the search for a parent.
LookUpOK(c, g) ==
    /\ home[g] = MainOf[c.thread]
    /\ c.this # c.target => Started(c.this) /\ home[c.this] = MainOf[c.thread]
    /\ c.target # g
    /\ c.back = "die" => life[g] = "dead"

\* The suspended calls: none in a greenlet that has not started, and in a dead
\* one the first of them is for a parent.
FramesInv ==
    \A g \in Greenlets :
        /\ ~Started(g) => frames[g] = <<>>
        /\ \A i \in DOMAIN frames[g] : LookUpOK(frames[g][i], g)
        /\ life[g] = "dead" /\ frames[g] # <<>> => frames[g][1].back = "die"

\* Each thread's current greenlet; a dead one is searching for a parent.
CurrentInv ==
    \A t \in Threads :
        /\ home[current[t]] = MainOf[t]
        /\ life[current[t]] = "dead" /\ frames[current[t]] = <<>> =>
              pc \notin {"python", "end"} /\ sw.thread = t /\ sw.back = "die"

\* The call in progress.
CallInv ==
    /\ pc = "end" => /\ sw.this = current[sw.thread]
                     /\ sw.this \notin Mains
                     /\ life[sw.this] = "active"
                     /\ frames[sw.this] = <<>> /\ traced[sw.this] = <<>>
    /\ pc \notin {"python", "end"} /\ sw.back = "die" => life[current[sw.thread]] = "dead"
    /\ pc = "check" => sw.this = sw.target
    /\ pc = "die" => sw.back = "die"
    /\ pc = "walk" => /\ Started(sw.this) => home[sw.this] = MainOf[sw.thread]
                      /\ sw.this # sw.target => Started(sw.this)
    /\ pc \in {"lookup", "start"} => LookUpOK(sw, current[sw.thread]) /\ err = "none"

\* Only a switch that has just begun can have left arguments with a current
\* greenlet, the one it was called on.
ArgsInv ==
    \A t \in Threads : args[current[t]] # None =>
        \/ pc \in {"check", "walk"} /\ current[t] = sw.this
        \/ pc \in {"fatal", "crash"}

\* A greenlet that has not started has not run, and none runs twice.
RunsInv == \A g \in Greenlets : runs[g] <= (IF Started(g) THEN 1 ELSE 0)

\* Only an active greenlet waits for a trace function.  The call before run() is the
\* outermost one, and run() has not been entered.
TraceInv ==
    \A g \in Greenlets :
        /\ traced[g] # <<>> => life[g] = "active"
        /\ \A i \in DOMAIN traced[g] : traced[g][i].first =>
               i = 1 /\ g \notin Mains /\ runs[g] = 0 /\ traced[g][i].depth = 0

ControlInv == FramesInv /\ CurrentInv /\ CallInv /\ ArgsInv /\ RunsInv /\ TraceInv
=============================================================================

-------------------------- MODULE InterpreterState --------------------------
(***************************************************************************)
(* PythonState and ExceptionState: what a switch moves between the         *)
(* PyThreadState of a thread and its greenlets (TPythonState.cpp,          *)
(* TExceptionState.cpp), with the fields of CPython 3.13.                  *)
(*                                                                         *)
(* Python frames live in the data stack, a list of chunks that hangs from  *)
(* the PyThreadState.  Every greenlet grows a list of its own, whose root  *)
(* CPython never frees.  A call from C to Python puts an incomplete entry  *)
(* frame on the C stack.  Those cannot be read while a greenlet is         *)
(* suspended, so expose_frames() relinks the complete frames around them   *)
(* and unexpose_frames() puts the links back.                              *)
(*                                                                         *)
(* Each action runs with the GIL held; which greenlet is switched to, and  *)
(* what its stack does, is in Switching and StackSlicing.                  *)
(***************************************************************************)
EXTENDS Integers, Sequences, FiniteSets, FiniteSetsExt

CONSTANTS Threads,   \* the threads
          Greenlets, \* every greenlet, the main ones included
          MainOf,    \* the main greenlet of each thread
          NoThread,  \* the home of a greenlet that has not been started
          StartedIn, \* bounds the threads that each greenlet is started in
          Contexts,  \* contextvars.Context objects
          Empty,     \* the null context
          NChunks,   \* bounds the chunks of data stack
          MaxFrames, \* bounds the frames of each greenlet
          Limit      \* the recursion limit

ASSUME HomeAssumption ==
    /\ MainOf \in [Threads -> Greenlets] /\ NoThread \notin Threads
    /\ \A t, u \in Threads : MainOf[t] = MainOf[u] => t = u
    /\ StartedIn \in [Greenlets -> SUBSET Threads]
ASSUME ContextAssumption == Empty \notin Contexts
ASSUME BoundsAssumption == NChunks \in Nat /\ MaxFrames \in [Greenlets -> Nat] /\ Limit \in Nat

VARIABLES
    life,     \* "new", "active", "dead", or "gone" when deleted
    current,  \* each thread's current greenlet
    home,     \* the thread that each greenlet was started in, or NoThread
    alive,    \* the threads that have not exited
    ts,       \* each thread's PyThreadState
    saved,    \* each greenlet's PythonState and ExceptionState
    top,      \* its _top_frame: the number of a frame, or Null
    frames,   \* its frames, outermost first; a link is the number of a frame
    stale,    \* how many of them, the outermost, are left of a run that was killed
    chunks    \* each chunk's link to the one below, Null at a root, or Free

vars == <<life, current, home, alive, ts, saved, top, frames, stale, chunks>>

Null == 0
Free == -1
Mains == {MainOf[t] : t \in Threads}
Users == Greenlets \ Mains

\* What PythonState() and ExceptionState() initialize.
Blank == [context |-> Empty, depth |-> 0, exc_info |-> "null", exc_value |-> "none",
          frame |-> Null, chunk |-> Null]

\* Some thread has g as its current greenlet.
IsCurrent(g) == \E t \in Threads : current[t] = g

\* is_currently_running_in_some_thread()
IsRunning(g) == life[g] = "active" /\ top[g] = Null

\* The frames of g in memory that did_finish() has freed: those of a killed run,
\* once the next one is over.
Freed(g) == IF life[g] = "dead" THEN 1..stale[g] ELSE {}

\* A chunk and all below it.
Linked(links, c) ==
    LET upTo[n \in 0..NChunks] ==
            IF n = 0 THEN {c} ELSE LET S == upTo[n - 1] IN S \cup {links[k] : k \in S \cap 1..NChunks}
    IN  upTo[NChunks] \cap 1..NChunks

ChunksFrom(c) == Linked(chunks, c)

\* The loop of did_finish() over a list of chunks.
FreeFrom(c) == chunks' = [k \in 1..NChunks |-> IF k \in ChunksFrom(c) THEN Free ELSE chunks[k]]

\* The frames that following previous from frame i of fs meets.
Walk(fs, i) ==
    LET met[k \in 0..Len(fs)] == IF k = Null THEN {} ELSE {k} \cup met[fs[k].previous]
    IN  met[i]

\* The highest frame of S, or Null.
Highest(S) == Max(S \cup {Null})

\* PyThreadState_GetFrame(): the innermost complete frame.
TopFrame(fs, i) == Highest({k \in Walk(fs, i) : fs[k].complete})

-----------------------------------------------------------------------------
Init ==
    /\ life = [g \in Greenlets |-> IF g \in Mains THEN "active" ELSE "new"]
    /\ current = MainOf
    /\ home \in [Greenlets -> Threads \cup {NoThread}]
    /\ \A t \in Threads : home[MainOf[t]] = t
    /\ \A g \in Users : home[g] = NoThread
    /\ alive = Threads
    /\ ts = [t \in Threads |-> [Blank EXCEPT !.exc_info = "base"]]
    /\ saved = [g \in Greenlets |-> Blank]
    /\ top = [g \in Greenlets |-> Null]
    /\ frames = [g \in Greenlets |-> <<>>]
    /\ stale = [g \in Greenlets |-> 0]
    /\ chunks = [c \in 1..NChunks |-> Free]

(* What CPython does in the current greenlet. *)

\* The new frame starts a chunk: the first one, or the next when this is full.
\* The allocator hands out again the memory that was freed.
NewChunk(t, c) ==
    /\ chunks[c] = Free
    /\ \A k \in 1..(c - 1) : chunks[k] # Free
    /\ chunks' = [chunks EXCEPT ![c] = ts[t].chunk]

\* The frame of a Python function goes into chunk c, that of a call from C to
\* Python onto the C stack.
Link(complete, c, below) ==
    [complete |-> complete, chunk |-> IF complete THEN c ELSE Null, previous |-> below, stash |-> Null]

PushedFrames(n, entry, c, below) ==
    IF entry THEN <<Link(FALSE, c, below), Link(TRUE, c, n + 1)>> ELSE <<Link(TRUE, c, below)>>

PushFrame(t, entry, c) ==
    LET g == current[t]
        fs == frames[g] \o PushedFrames(Len(frames[g]), entry, c, ts[t].frame)
    IN  /\ Len(fs) <= MaxFrames[g]
        /\ frames' = [frames EXCEPT ![g] = fs]
        /\ ts' = [ts EXCEPT ![t] = [ts[t] EXCEPT !.frame = Len(fs), !.depth = @ + 1, !.chunk = c]]

\* A Python function is called, by C code through an entry frame or by Python.
Call(t, entry, c) ==
    /\ t \in alive
    /\ ts[t].depth < Limit
    /\ entry \/ ts[t].frame > stale[current[t]]
    /\ PushFrame(t, entry, c)
    /\ IF c = ts[t].chunk THEN UNCHANGED chunks ELSE NewChunk(t, c)
    /\ UNCHANGED <<life, current, home, alive, saved, top, stale>>

\* It returns, leaving its entry frame too if C code called it.  A chunk
\* goes with the frame that it was started for, unless it is a root.
Return(t) ==
    LET g == current[t]
        fs == frames[g]
        f == ts[t].frame
        p == fs[f].previous
        back == IF p # Null /\ ~fs[p].complete THEN fs[p].previous ELSE p
        pops == /\ chunks[ts[t].chunk] # Null
                /\ \A k \in 1..back \ Freed(g) : fs[k].chunk # ts[t].chunk
    IN  /\ t \in alive
        /\ f > stale[g]
        /\ back = stale[g] => ts[t].exc_info = "base" /\ ts[t].exc_value = "none"
        /\ frames' = [frames EXCEPT ![g] = SubSeq(@, 1, back)]
        /\ ts' = [ts EXCEPT ![t] = [ts[t] EXCEPT !.frame = back, !.depth = @ - 1,
                                                 !.chunk = IF pops THEN chunks[@] ELSE @]]
        /\ chunks' = IF pops THEN [chunks EXCEPT ![ts[t].chunk] = Free] ELSE chunks
        /\ UNCHANGED <<life, current, home, alive, saved, top, stale>>

\* Python code enters an exception handler inside a generator, or leaves both.
Handle(t) ==
    /\ t \in alive
    /\ ts[t].frame > stale[current[t]]
    /\ ts' = [ts EXCEPT ![t] =
                IF @.exc_info = "base" THEN [@ EXCEPT !.exc_info = "generator", !.exc_value = "error"]
                                       ELSE [@ EXCEPT !.exc_info = "base", !.exc_value = "none"]]
    /\ UNCHANGED <<life, current, home, alive, saved, top, frames, stale, chunks>>

\* Context.run() enters or leaves a context.
ContextRun(t, c) ==
    /\ t \in alive
    /\ ts[t].frame > stale[current[t]]
    /\ ts' = [ts EXCEPT ![t].context = c]
    /\ UNCHANGED <<life, current, home, alive, saved, top, frames, stale, chunks>>

-----------------------------------------------------------------------------
(* Switches *)

\* Mutant of Exposed: the outermost complete frame keeps its link.
ExposedNoEnd(fs, i) ==
    [k \in DOMAIN fs |->
        LET below == {j \in Walk(fs, i) : j < k /\ fs[j].complete}
        IN  IF k \in Walk(fs, i) /\ fs[k].complete
            THEN [fs[k] EXCEPT !.stash = fs[k].previous,
                               !.previous = IF below = {} THEN @ ELSE Highest(below)]
            ELSE fs[k]]

\* expose_frames() from the top frame i.
Exposed(fs, i) ==
    [k \in DOMAIN fs |->
        IF k \in Walk(fs, i) /\ fs[k].complete
        THEN [fs[k] EXCEPT !.stash = fs[k].previous,
                           !.previous = Highest({j \in Walk(fs, i) : j < k /\ fs[j].complete})]
        ELSE fs[k]]

\* Mutant of Unexposed: only the innermost link is put back.
UnexposedFirst(fs, i) ==
    [k \in DOMAIN fs |-> IF k = i THEN [fs[k] EXCEPT !.previous = fs[k].stash] ELSE fs[k]]

\* unexpose_frames() from the top frame i.
Unexposed(fs, i) ==
    [k \in DOMAIN fs |->
        IF k \in Walk(fs, i) THEN [fs[k] EXCEPT !.previous = fs[k].stash] ELSE fs[k]]

\* Mutant of Restored: no fallback for a greenlet that handles nothing.
RestoredNull(s) == s

\* What both operators >> put into the PyThreadState.
Restored(s) == IF s.exc_info = "null" THEN [s EXCEPT !.exc_info = "base"] ELSE s

\* Mutant of Left: the context is copied, not moved.
LeftContext(s) == [s EXCEPT !.exc_info = "null", !.exc_value = "none"]

\* What they leave: the context and the exceptions are moved, the rest is stale.
Left(s) == [s EXCEPT !.context = Empty, !.exc_info = "null", !.exc_value = "none"]

\* Mutant of Saved: the recursion depth is not saved.
SavedNoDepth(t) == [ts[t] EXCEPT !.depth = 0]

\* What both operators << keep of the PyThreadState.
Saved(t) == ts[t]

\* g_switchstack() from the current greenlet to g, which has saved s.
SwitchStack(t, g, s) ==
    LET h == current[t]
        fs == frames[h]
        newTop == TopFrame(fs, ts[t].frame)
    IN  /\ saved' = [saved EXCEPT ![h] = Saved(t), ![g] = Left(s)]
        /\ top' = [top EXCEPT ![h] = newTop, ![g] = Null]
        /\ frames' = [frames EXCEPT ![h] = Exposed(fs, newTop), ![g] = Unexposed(frames[g], top[g])]
        /\ ts' = [ts EXCEPT ![t] = Restored(s)]
        /\ current' = [current EXCEPT ![t] = g]

\* A switch to a suspended greenlet, also by one that has died.
SwitchTo(t, g) ==
    /\ t \in alive
    /\ home[g] = t
    /\ life[g] = "active"
    /\ current[t] # g
    /\ SwitchStack(t, g, saved[g])
    /\ UNCHANGED <<life, home, alive, stale, chunks>>

\* Mutant of InitialState: the new greenlet goes on in the starter's data stack.
InitialStateShared(t, g) ==
    [saved[g] EXCEPT !.depth = ts[t].depth, !.chunk = ts[t].chunk,
                     !.exc_info = "null", !.exc_value = "none"]

\* set_initial_state(), and the exception state cleared.  The frame and the chunk
\* stay: null, but for what deactivate_and_free() left of an earlier run.
InitialState(t, g) ==
    [saved[g] EXCEPT !.depth = ts[t].depth, !.exc_info = "null", !.exc_value = "none"]

\* g_initialstub(): the first switch to a greenlet.
Start(t, g) ==
    /\ t \in alive
    /\ t \in StartedIn[g]
    /\ life[g] = "new"
    /\ life' = [life EXCEPT ![g] = "active"]
    /\ home' = [home EXCEPT ![g] = t]
    /\ SwitchStack(t, g, InitialState(t, g))
    /\ UNCHANGED <<alive, stale, chunks>>

\* Mutant of DidFinish: the chunks are forgotten, not freed.
DidFinishForgets(t) ==
    /\ ts' = [ts EXCEPT ![t].chunk = Null]
    /\ saved' = [saved EXCEPT ![current[t]].chunk = Null]
    /\ UNCHANGED chunks

\* did_finish(PyThreadState_GET())
DidFinish(t) ==
    /\ FreeFrom(ts[t].chunk)
    /\ ts' = [ts EXCEPT ![t].chunk = Null]
    /\ saved' = [saved EXCEPT ![current[t]].chunk = Null]

\* The end of inner_bootstrap(): run() is over.  The greenlet stays current until
\* it has found a parent, whose `run` may be looked up by Python code.  If it was
\* killed and started again, current_frame now points to a frame in the memory
\* that did_finish() frees, and the next switch reads it: undefined behaviour, of
\* which the model has the outcome that the memory still holds the frame.
Die(t) ==
    /\ t \in alive
    /\ current[t] \in Users
    /\ life[current[t]] = "active"
    /\ ts[t].frame = stale[current[t]]
    /\ DidFinish(t)
    /\ life' = [life EXCEPT ![current[t]] = "dead"]
    /\ UNCHANGED <<current, home, alive, top, frames, stale>>

-----------------------------------------------------------------------------
(* Assignments to gr_context, deletion, the exit of a thread *)

\* Thread t sets the context of g.  It is refused, with a ValueError, when g
\* runs and is not current here.
GrContextSet(t, g, c) ==
    /\ t \in alive
    /\ life[g] # "gone"
    /\ IF IsRunning(g)
       THEN /\ current[t] = g
            /\ ts' = [ts EXCEPT ![t].context = c]
            /\ UNCHANGED saved
       ELSE /\ saved' = [saved EXCEPT ![g].context = c]
            /\ UNCHANGED ts
    /\ UNCHANGED <<life, current, home, alive, top, frames, stale, chunks>>

\* deactivate_and_free() of a suspended greenlet whose thread has exited.  It is as
\* if it had not been started, and may be started in any thread.  tp_clear() drops
\* its context and the frame object of its top frame, but not current_frame, the
\* data stack and the frames in it, with the links of expose_frames().  When nobody
\* else holds that object it is freed, and once the greenlet has been started again
\* expose_frames() writes into it; in the model this harms nobody.
Murder(g) ==
    /\ g \in Users
    /\ life[g] = "active" /\ home[g] \notin alive
    /\ ~IsCurrent(g)
    /\ life' = [life EXCEPT ![g] = "new"]
    /\ home' = [home EXCEPT ![g] = NoThread]
    /\ saved' = [saved EXCEPT ![g].context = Empty]
    /\ top' = [top EXCEPT ![g] = Null]
    /\ stale' = [stale EXCEPT ![g] = Len(frames[g])]
    /\ UNCHANGED <<current, alive, ts, frames, chunks>>

\* ~UserGreenlet() of one that was not started or is dead, with did_finish(nullptr).
Destroy(g) ==
    /\ g \in Users
    /\ life[g] \in {"new", "dead"}
    /\ ~IsCurrent(g)
    /\ FreeFrom(saved[g].chunk)
    /\ life' = [life EXCEPT ![g] = "gone"]
    /\ saved' = [saved EXCEPT ![g] = Blank]
    /\ top' = [top EXCEPT ![g] = Null]
    /\ frames' = [frames EXCEPT ![g] = <<>>]
    /\ stale' = [stale EXCEPT ![g] = 0]
    /\ UNCHANGED <<current, home, alive, ts>>

\* A thread other than the last one ends, in its main greenlet: CPython clears
\* its PyThreadState.
Exit(t) ==
    /\ t \in alive /\ alive # {t}
    /\ current[t] = MainOf[t]
    /\ ts[t].frame = Null
    /\ FreeFrom(ts[t].chunk)
    /\ alive' = alive \ {t}
    /\ ts' = [ts EXCEPT ![t] = Blank]
    /\ UNCHANGED <<life, current, home, saved, top, frames, stale>>

Next ==
    \/ \E t \in Threads :
          \/ \E entry \in BOOLEAN, c \in 1..NChunks : Call(t, entry, c)
          \/ Return(t)
          \/ Handle(t)
          \/ \E c \in Contexts \cup {Empty} : ContextRun(t, c)
          \/ \E g \in Greenlets : SwitchTo(t, g) \/ Start(t, g)
          \/ Die(t)
          \/ \E g \in Greenlets, c \in Contexts \cup {Empty} : GrContextSet(t, g, c)
          \/ Exit(t)
    \/ \E g \in Greenlets : Murder(g) \/ Destroy(g)

Spec == Init /\ [][Next]_vars

-----------------------------------------------------------------------------
(* Properties *)

\* What a PyThreadState or a PythonState with ExceptionState may hold.
State(infos) == [context : Contexts \cup {Empty}, depth : 0..Limit, exc_info : infos,
                 exc_value : {"none", "error"}, frame : Nat, chunk : 0..NChunks]

\* The types.  exc_info of a PyThreadState in use is never null, as CPython follows
\* it without a check.
TypeOK ==
    /\ life \in [Greenlets -> {"new", "active", "dead", "gone"}]
    /\ current \in [Threads -> Greenlets]
    /\ home \in [Greenlets -> Threads \cup {NoThread}]
    /\ alive \in SUBSET Threads
    /\ DOMAIN ts = Threads
    /\ \A t \in alive : ts[t] \in State({"base", "generator"})
    /\ saved \in [Greenlets -> State({"null", "base", "generator"})]
    /\ top \in [Greenlets -> Nat]
    /\ stale \in [Greenlets -> Nat]
    /\ DOMAIN frames = Greenlets
    /\ \A g \in Greenlets :
          /\ Len(frames[g]) <= MaxFrames[g]
          /\ \A k \in DOMAIN frames[g] :
                frames[g][k] \in [complete : BOOLEAN, chunk : 0..NChunks, previous : 0..k, stash : 0..k]
    /\ chunks \in [1..NChunks -> Free..NChunks]

\* The data stack of g: that of its thread while g is current.
Chunks(g) ==
    IF life[g] = "gone" THEN {}
    ELSE IF IsCurrent(g) THEN ChunksFrom(ts[home[g]].chunk)
    ELSE ChunksFrom(saved[g].chunk)

\* No memory of a data stack is lost, used by two greenlets, or used after it
\* was freed, by a list that ends with a thread, a run() or a greenlet: what the
\* comments in did_finish() reason about.
ChunksOwned ==
    \A c \in 1..NChunks :
        IF chunks[c] = Free THEN \A g \in Greenlets : c \notin Chunks(g)
        ELSE \E g \in Greenlets : \A h \in Greenlets : c \in Chunks(h) <=> h = g

\* Every frame that may be run again, or met on the way down from one, is in the
\* data stack of its own greenlet.
FramesInChunks ==
    \A g \in Greenlets : \A k \in DOMAIN frames[g] \ Freed(g) :
        LET c == frames[g][k].chunk
        IN  frames[g][k].complete => c \in Chunks(g) /\ chunks[c] # Free

\* Whoever inspects a suspended greenlet through gr_frame meets no frame that
\* is on a C stack, and meets all the others.
ExposedAreComplete ==
    \A g \in Greenlets :
        Walk(frames[g], top[g]) = IF top[g] = Null THEN {}
                                  ELSE {k \in DOMAIN frames[g] : frames[g][k].complete}

\* assert(this->p == nullptr) in OwnedReference::steal(), of the context and the
\* top frame: what the next switch saves overwrites nothing.  Of dead greenlets
\* it does not hold: their context may be set while they are still current.
SavedIntoEmpty ==
    \A t \in alive : life[current[t]] = "active" =>
        saved[current[t]].context = Empty /\ top[current[t]] = Null

\* TPythonState.cpp, in did_finish(), of the data stack: "When we initially switch to a
\* greenlet, we set those to NULL.  That causes the frame management code to treat
\* this like a brand new thread and start a fresh list of chunks".  Not so for one
\* that deactivate_and_free() has made new again: it goes on in its old chunks, on
\* top of the frames that were killed.
FreshStart ==
    [][\A g \in Greenlets : life[g] = "new" /\ life'[g] = "active" =>
            ts'[home'[g]].frame = Null /\ ts'[home'[g]].chunk = Null]_vars

\* docs/contextvars.rst: "You can access and change a greenlet's context almost no
\* matter what state the greenlet is in.  It can be dead, not yet started, or
\* suspended".  GrContextSet refuses only greenlets that do run in some thread.
OnlyRunningRefused == \A g \in Greenlets : IsRunning(g) => IsCurrent(g)

-----------------------------------------------------------------------------
(* The refinement of PrivateInterpreter. *)

\* The frames with the links that g will have when it runs.
TrueFrames(g) ==
    [k \in DOMAIN frames[g] |->
        IF top[g] # Null /\ frames[g][k].complete THEN frames[g][k].stash
                                                  ELSE frames[g][k].previous]

Mine(g) ==
    LET s == Restored(IF IsCurrent(g) THEN ts[home[g]] ELSE saved[g])
    IN  [context |-> s.context, depth |-> s.depth, handled |-> <<s.exc_info, s.exc_value>>,
         frame |-> s.frame, frames |-> TrueFrames(g)]

Private == INSTANCE PrivateInterpreter WITH
    mine <- [g \in Greenlets |-> Mine(g)],
    stage <- [g \in Greenlets |-> IF life[g] = "active" THEN "live" ELSE life[g]],
    running <- current,
    Nowhere <- NoThread,
    Fresh <- [context |-> Empty, depth |-> 0, handled |-> <<"base", "none">>,
              frame |-> Null, frames |-> <<>>]

\* Each greenlet has an interpreter state of its own: the context, exceptions,
\* depth and frames that a switch restores are those that were saved, with
\* nothing of the greenlets that ran in between.  A greenlet that is killed and
\* started again begins with what was left of it, and with nothing of the others.
PrivateInterpreterSpec == Private!AbsSpec

-----------------------------------------------------------------------------
(* The inductive invariant behind all of this. *)

\* Where the state of g is
StateOf(g) == IF IsCurrent(g) THEN ts[home[g]] ELSE saved[g]

\* A thread runs a greenlet of its own that has been started, in its innermost frame;
\* the state of a suspended one ends there too.  One that has not been started has no
\* frame but those of a run that was killed, and its state points to the innermost of
\* them; one that is deleted has nothing.
StateInv ==
    /\ \A t \in Threads : /\ home[current[t]] = t /\ life[current[t]] \in {"active", "dead"}
                          /\ top[current[t]] = Null
                          /\ ts[t].frame = Len(frames[current[t]])
                          /\ t \notin alive => ts[t] = Blank
    /\ \A g \in Greenlets :
          /\ stale[g] <= Len(frames[g])
          /\ life[g] = "new" => top[g] = Null /\ stale[g] = Len(frames[g]) /\ saved[g].frame = stale[g]
          /\ life[g] = "gone" => saved[g] = Blank /\ frames[g] = <<>>
          /\ life[g] = "active" /\ ~IsCurrent(g) =>
                top[g] = Len(frames[g]) /\ saved[g].frame = Len(frames[g])

\* The complete frames of fs
CompleteOf(fs) == {k \in DOMAIN fs : fs[k].complete}

\* The complete frame of fs next below frame k
NextComplete(fs, k) == Highest({j \in CompleteOf(fs) : j < k})

\* The frame that frame k was called from: for complete ones of a run that was killed,
\* n of them, as expose_frames() linked them
CalledFrom(fs, n, k) == IF k <= n /\ fs[k].complete THEN NextComplete(fs, k) ELSE k - 1

\* Above an entry frame is the frame it was made for, in the same run, which alone
\* uses a chunk.  The frames of a greenlet are linked one to the next, and in a
\* suspended one with a frame the complete ones are linked around the others.
FramesInv ==
    \A g \in Greenlets :
        LET fs == frames[g]
        IN  /\ top[g] \in {Null, Len(fs)}
            /\ \A k \in DOMAIN fs :
                  /\ fs[k].complete <=> fs[k].chunk # Null
                  /\ ~fs[k].complete => k # stale[g] /\ k < Len(fs) /\ fs[k + 1].complete
                  /\ IF top[g] # Null /\ fs[k].complete
                     THEN /\ fs[k].stash = CalledFrom(fs, stale[g], k)
                          /\ fs[k].previous = NextComplete(fs, k)
                     ELSE fs[k].previous = CalledFrom(fs, stale[g], k)

\* The recursion depth counts every complete frame of a run that was not killed.
DepthInv ==
    \A g \in Greenlets :
        Cardinality({k \in CompleteOf(frames[g]) : k > stale[g]}) <= StateOf(g).depth

\* The lists of chunks end: none comes back to where it began.
ChunksEnd == \A c \in 1..NChunks : c \notin ChunksFrom(chunks[c])

InterpreterInv ==
    StateInv /\ FramesInv /\ DepthInv /\ ChunksEnd /\ ChunksOwned /\ FramesInChunks
=============================================================================

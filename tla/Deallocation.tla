---------------------------- MODULE Deallocation ----------------------------
(***************************************************************************)
(* Who refers to a greenlet, and what happens when nobody does any more:   *)
(* green_dealloc(), the deleteme list of a thread and ~ThreadState().      *)
(*                                                                         *)
(* Dropping the last reference to a suspended greenlet throws GreenletExit *)
(* into it, which runs Python code in the middle of whatever C code did    *)
(* the DECREF; if another thread drops it, it is parked on the deleteme    *)
(* list of its own thread, and freed the next time that thread asks for    *)
(* its current greenlet.  calls[g] is the C code in progress on the stack  *)
(* of g, innermost last.  Python code runs in a thread when the innermost  *)
(* call of its current greenlet is a callback or there is none; C code     *)
(* holds the GIL until it gets there.                                      *)
(*                                                                         *)
(* References are counted as the code counts them, in rc.  A reference     *)
(* that is about to be dropped belongs to a "drop" call: that is the local *)
(* variable of Py_CLEAR() and of the assignment operators, which store     *)
(* before they DECREF.                                                     *)
(***************************************************************************)
EXTENDS Integers, Sequences, SequencesExt, FiniteSets, FiniteSetsExt

CONSTANTS Threads,         \* the threads
          MainThread,      \* the one that destroys the states of the others
          Greenlets,       \* every greenlet, the main ones included
          MainOf,          \* the main greenlet of each thread
          NoOne,           \* the null greenlet
          Globals,         \* stands for everything that outlives the frames
          StartedIn,       \* bounds where each greenlet is started
          MayHold,         \* bounds what the frames of each greenlet refer to
          MayName,         \* bounds what the __dict__ of each greenlet refers to
          Weak,            \* greenlets that have a weak reference
          Callbacks,       \* greenlets whose deallocation runs Python code
          OptionalCleanup, \* enable_optional_cleanup()
          MaxStarts        \* bounds how often run() is entered

ASSUME ThreadsAssumption == MainThread \in Threads /\ NoOne \notin Greenlets
ASSUME FiniteAssumption == IsFiniteSet(Threads) /\ IsFiniteSet(Greenlets)
ASSUME MainOfAssumption ==
    /\ MainOf \in [Threads -> Greenlets]
    /\ \A t, u \in Threads : MainOf[t] = MainOf[u] => t = u
ASSUME HoldersAssumption ==
    /\ Globals \notin Greenlets
    /\ MayHold \in [Greenlets \cup {Globals} -> SUBSET Greenlets]
    /\ MayName \in [Greenlets -> SUBSET Greenlets]
ASSUME BoundsAssumption ==
    /\ StartedIn \in [Greenlets -> SUBSET Threads]
    /\ OptionalCleanup \in BOOLEAN
    /\ MaxStarts \in Nat

VARIABLES
    life,     \* "none", what the stack state says: "new", "active", "dead", or "freed"
    parent,   \* _parent
    home,     \* _main_greenlet
    attr,     \* what __dict__ refers to
    held,     \* what the Python frames of each greenlet, and the globals, refer to
    rc,       \* Py_REFCNT
    current,  \* ThreadState::current_greenlet
    thread,   \* "running", "exited" or "destroyed": its ThreadState
    deleteme, \* ThreadState::deleteme
    calls,    \* the C code in progress in each greenlet
    fault,    \* "none", or what has happened to the process
    lost,     \* auxiliary: the references that nobody will ever drop
    asked,    \* auxiliary: the parent that Python code has given a greenlet
    runs      \* auxiliary: how often run() was entered

vars == <<life, parent, home, attr, held, rc, current, thread, deleteme, calls, fault,
          lost, asked, runs>>

Mains == {MainOf[t] : t \in Threads}
Holders == Greenlets \cup {Globals}

\* g has a pimpl.
Exists(g) == life[g] \in {"new", "active", "dead"}

\* main_greenlet(): that of a main greenlet is itself.
MainFor(g) == IF g \in Mains THEN g ELSE home[g]

\* Mutant of Linked: the main greenlet is not marked dead when its thread exits.
LinkedForever(g) == \E t \in Threads : MainOf[t] = MainFor(g)

\* The greenlet's thread_state() is not null.
Linked(g) == \E t \in Threads : thread[t] = "running" /\ MainOf[t] = MainFor(g)

\* belongs_to_thread(), and its mutant that forgets to compare the threads
BelongsToAny(g, t) == Linked(g)
BelongsTo(g, t) == Linked(g) /\ home[g] = MainOf[t]

\* was_running_in_dead_thread(), and its mutant that does not ask for the thread state
RanSomewhere(g) == g \in Mains \/ home[g] # NoOne
InDeadThread(g) == ~Linked(g) /\ (g \in Mains \/ home[g] # NoOne)

\* From g up, the first greenlet that is not dead: who is entered by a switch to g.
Live == LET up[g \in Greenlets] ==
                IF life[g] = "dead" /\ parent[g] # NoOne THEN up[parent[g]] ELSE g
        IN  up

\* find_main_greenlet_in_lineage()
MainInLineage == LET up[g \in Greenlets \cup {NoOne}] ==
                         IF g \in Mains \cup {NoOne} THEN g
                         ELSE IF life[g] # "new" THEN home[g] ELSE up[parent[g]]
                 IN  up

\* check_switch_allowed(), in thread t
SwitchAllowed(t, g) == MainInLineage[g] = MainOf[t]

\* Nobody is among its own ancestors.
Acyclic(par) == LET Up(S) == {par[g] : g \in S} \ {NoOne}
                    n == Cardinality(Greenlets)
                    up[i \in 0..n] == IF i = 0 THEN Greenlets ELSE Up(up[i - 1])
                IN  up[n] = {}

-----------------------------------------------------------------------------
(* The C code in progress. *)

SwitchTo(g, dying) == [op |-> "switch", of |-> g, dying |-> dying]
Entering(op, g, first) == [op |-> op, of |-> g, first |-> first]
Killing(g, p) == [op |-> "kill", of |-> g, old |-> p]
Doing(op, g) == [op |-> op, of |-> g]
Destroying(t) == [op |-> "destroy", state |-> t]
Python == [op |-> "python"]

Calls == [op : {"drop"}, todo : Seq(Greenlets) \ {<<>>}]
         \cup [op : {"clear"}, todo : (SUBSET Greenlets) \ {{}}, murder : BOOLEAN]
         \cup [op : {"kill"}, of : Greenlets, old : Greenlets \cup {NoOne}]
         \cup [op : {"switch"}, of : Greenlets, dying : BOOLEAN]
         \cup [op : {"start", "stack"}, of : Greenlets, first : {TRUE}]
         \cup [op : {"jump"}, of : Greenlets, first : BOOLEAN]
         \cup [op : {"new", "current", "dealloc", "undo", "free", "delete", "finish"},
               of : Greenlets]
         \cup [op : {"destroy"}, state : Threads]
         \cup {Python}

\* clear_deleteme_list(), which has swapped the list S out
Clearing(S, murder) ==
    IF S = {} THEN <<>> ELSE <<[op |-> "clear", todo |-> S, murder |-> murder]>>

\* A reference that may be null
Present(g) == IF g = NoOne THEN <<>> ELSE <<g>>

\* The references s are dropped one after the other.
Dropping(s) == IF s = <<>> THEN <<>> ELSE <<[op |-> "drop", todo |-> s]>>

\* The references that green_clear() drops in the greenlets S: __dict__, the parent
\* and the main greenlet.
Fields(S) == {r \in S \X {"dict", "parent", "main"} \X Greenlets :
                  CASE r[2] = "dict" -> r[3] \in attr[r[1]]
                    [] r[2] = "parent" -> r[3] = parent[r[1]]
                    [] r[2] = "main" -> r[3] = home[r[1]]}

\* The references that a call owns, numbered: clear_deleteme_list() those of its list,
\* and _green_dealloc_kill_started_non_main_greenlet() the one it has set to 1 and
\* that of ParentIsCurrentGuard.
Owned(call) ==
    CASE call.op = "drop" -> {<<i, call.todo[i]>> : i \in DOMAIN call.todo}
      [] call.op = "clear" -> {0} \X call.todo
      [] call.op = "kill" -> {<<1, call.of>>, <<2, call.old>>}
      [] call.op = "undo" -> {<<1, call.of>>}
      [] OTHER -> {}

\* Those of the calls s, and of the calls cs in the greenlets S, that are to g
Tokens(s, g) == UNION {{i} \X {o \in Owned(s[i]) : o[2] = g} : i \in DOMAIN s}
TokensIn(cs, S, g) == UNION {{h} \X Tokens(cs[h], g) : h \in S}
OwnedBy(s, g) == Cardinality(Tokens(s, g))
OwnedIn(cs, S, g) == Cardinality(TokensIn(cs, S, g))

\* The greenlets on whose stacks such a call for g is in progress
InProgress(ops, g) ==
    {h \in Greenlets : \E i \in DOMAIN calls[h] : calls[h][i].op \in ops /\ calls[h][i].of = g}

Top(t) == Last(calls[current[t]])
InC(t) == /\ thread[t] = "running"
          /\ calls[current[t]] # <<>>
          /\ Top(t).op # "python"

\* The thread executes this call.
Executes(t, op) == fault = "none" /\ InC(t) /\ Top(t).op = op

\* The thread executes Python code: nobody holds the GIL in C code.
PythonRuns(t) == fault = "none" /\ thread[t] = "running" /\ \A u \in Threads : ~InC(u)

Called(g, s) == [calls EXCEPT ![g] = @ \o s]
Replaced(g, s) == [calls EXCEPT ![g] = Front(@) \o s]

\* The frames of g will never run again, and nobody clears them or the stack.
Abandon(g) ==
    /\ lost' = [x \in Greenlets |-> lost[x] + (IF x \in held[g] THEN 1 ELSE 0)
                                            + OwnedBy(calls[g], x)]
    /\ held' = [held EXCEPT ![g] = {}]

Init ==
    /\ life = [g \in Greenlets |-> IF g \in Mains THEN "active" ELSE "none"]
    /\ parent = [g \in Greenlets |-> NoOne]
    /\ home = [g \in Greenlets |-> NoOne]
    /\ attr = [g \in Greenlets |-> {}]
    /\ held = [h \in Holders |-> {}]
    /\ rc = [g \in Greenlets |-> IF g \in Mains THEN 2 ELSE 0]
    /\ current = MainOf
    /\ thread = [t \in Threads |-> "running"]
    /\ deleteme = [t \in Threads |-> {}]
    /\ calls = [g \in Greenlets |-> <<>>]
    /\ fault = "none"
    /\ lost = [g \in Greenlets |-> 0]
    /\ asked = [g \in Greenlets |-> NoOne]
    /\ runs = [g \in Greenlets |-> 0]

-----------------------------------------------------------------------------
(* Python code. *)

\* A weak reference to g yields g as long as it is not cleared.
Loadable(g) == /\ g \in Weak /\ Exists(g) /\ rc[g] > 0
               /\ g \in Mains \/ parent[g] # NoOne

\* What the Python code of t can get hold of.
Names(t) ==
    LET direct == held[current[t]] \cup held[Globals] \cup {g \in Greenlets : Loadable(g)}
    IN  direct \cup ({parent[current[t]]} \ {NoOne}) \cup UNION {attr[g] : g \in direct}

\* greenlet(): green_new() looks up the current greenlet before the new one has a
\* pimpl.
New(t, g) ==
    /\ PythonRuns(t)
    /\ life[g] = "none" /\ InProgress({"new"}, g) = {}
    /\ g \in MayHold[current[t]] \ Mains
    /\ calls' = Called(current[t], <<Doing("new", g)>> \o Clearing(deleteme[t], FALSE))
    /\ deleteme' = [deleteme EXCEPT ![t] = {}]
    /\ UNCHANGED <<life, parent, home, attr, held, rc, current, thread, fault, lost, asked, runs>>

\* getcurrent(), whose result is kept if there is room for it
GetCurrent(t) ==
    /\ PythonRuns(t)
    /\ deleteme[t] # {} \/ current[t] \in MayHold[current[t]] \ held[current[t]]
    /\ calls' = Called(current[t], <<Doing("current", current[t])>>
                                       \o Clearing(deleteme[t], FALSE))
    /\ deleteme' = [deleteme EXCEPT ![t] = {}]
    /\ UNCHANGED <<life, parent, home, attr, held, rc, current, thread, fault, lost, asked, runs>>

\* A variable of the current frames, or a global one, is assigned.
Keep(t, h, g) ==
    /\ PythonRuns(t)
    /\ h \in {current[t], Globals} /\ g \in (Names(t) \cap MayHold[h]) \ held[h]
    /\ held' = [held EXCEPT ![h] = @ \cup {g}]
    /\ rc' = [rc EXCEPT ![g] = @ + 1]
    /\ UNCHANGED <<life, parent, home, attr, current, thread, deleteme, calls, fault,
                   lost, asked, runs>>

Forget(t, h, g) ==
    /\ PythonRuns(t)
    /\ h \in {current[t], Globals} /\ g \in held[h]
    /\ held' = [held EXCEPT ![h] = @ \ {g}]
    /\ calls' = Called(current[t], Dropping(<<g>>))
    /\ UNCHANGED <<life, parent, home, attr, rc, current, thread, deleteme, fault,
                   lost, asked, runs>>

\* g.name = x
Name(t, g, x) ==
    /\ PythonRuns(t)
    /\ g \in Names(t) /\ x \in (Names(t) \cap MayName[g]) \ attr[g]
    /\ attr' = [attr EXCEPT ![g] = @ \cup {x}]
    /\ rc' = [rc EXCEPT ![x] = @ + 1]
    /\ UNCHANGED <<life, parent, home, held, current, thread, deleteme, calls, fault,
                   lost, asked, runs>>

\* del g.name
Unname(t, g, x) ==
    /\ PythonRuns(t)
    /\ g \in Names(t) /\ x \in attr[g]
    /\ attr' = [attr EXCEPT ![g] = @ \ {x}]
    /\ calls' = Called(current[t], Dropping(<<x>>))
    /\ UNCHANGED <<life, parent, home, held, rc, current, thread, deleteme, fault,
                   lost, asked, runs>>

\* g.parent = p.  The chain of p must not reach g; it ends in the main greenlet
\* of the thread of p.  A cycle would keep the walk from ending.
SetParent(t, g, p) ==
    LET above == LET up[x \in Greenlets] ==
                         {x} \cup IF parent[x] = NoOne THEN {} ELSE up[parent[x]]
                 IN  up[p]
        root == CHOOSE x \in above : parent[x] = NoOne
        main == MainFor(root)
    IN  /\ PythonRuns(t)
        /\ {g, p} \subseteq Names(t) /\ g \notin Mains /\ p # parent[g]
        /\ g \notin above /\ main # NoOne
        /\ life[g] # "new" => home[g] = main
        /\ parent' = [parent EXCEPT ![g] = p]
        /\ rc' = [rc EXCEPT ![p] = @ + 1]
        /\ calls' = Called(current[t], Dropping(Present(parent[g])))
        /\ asked' = IF InProgress({"kill"}, g) # {} THEN asked ELSE [asked EXCEPT ![g] = p]
        /\ UNCHANGED <<life, home, attr, held, current, thread, deleteme, fault, lost, runs>>

\* g.switch() or g.throw(): the evaluation stack keeps its reference to g.
Switch(t, g) ==
    /\ PythonRuns(t)
    /\ g \in held[current[t]]
    /\ life[Live[g]] = "new" => t \in StartedIn[Live[g]] /\ runs[Live[g]] < MaxStarts
    /\ calls' = Called(current[t], <<SwitchTo(g, FALSE)>>)
    /\ UNCHANGED <<life, parent, home, attr, held, rc, current, thread, deleteme, fault,
                   lost, asked, runs>>

\* run() returns or raises: its frames drop what they refer to.
Finish(t) ==
    LET c == current[t]
    IN  /\ PythonRuns(t)
        /\ c \notin Mains /\ calls[c] = <<>>
        /\ \E locals \in SetToSeqs(held[c]) :
               calls' = Called(c, <<Doing("finish", c)>> \o Dropping(locals))
        /\ held' = [held EXCEPT ![c] = {}]
        /\ UNCHANGED <<life, parent, home, attr, rc, current, thread, deleteme, fault,
                       lost, asked, runs>>

\* A callback returns to the C code that has called it.
Return(t) ==
    /\ PythonRuns(t)
    /\ calls[current[t]] # <<>>
    /\ calls' = Replaced(current[t], <<>>)
    /\ UNCHANGED <<life, parent, home, attr, held, rc, current, thread, deleteme, fault,
                   lost, asked, runs>>

\* g.dead, or repr(g): _green_not_dead()
LookDead(t, g) ==
    /\ PythonRuns(t)
    /\ g \in Names(t) /\ life[g] = "active" /\ InDeadThread(g)
    /\ life' = [life EXCEPT ![g] = "new"]
    /\ Abandon(g)
    /\ calls' = [calls EXCEPT ![g] = <<>>]
    /\ UNCHANGED <<parent, home, attr, rc, current, thread, deleteme, fault, asked, runs>>

\* green_is_gc(), and its mutant that lets active greenlets be collected
AlwaysGC(g) == TRUE
IsGC(g) == g \in Mains \/ life[g] # "active" \/ InDeadThread(g)

\* green_dealloc() has untracked the greenlets it is at work on.
Tracked(g) == Exists(g) /\ rc[g] > 0 /\ InProgress({"kill", "undo"}, g) = {}

\* green_traverse(), while frames are invisible: the references from S to x
Visited(S, x) == Cardinality({g \in S : parent[g] = x}) + Cardinality({g \in S : home[g] = x})
                     + Cardinality({g \in S : x \in attr[g]})

\* The garbage collector finds that S is referred to from S only, and green_clear()
\* is called for each of S.
Collect(t, S) ==
    LET fields == SetToSeq(Fields(S))
        gone == {g \in S : life[g] = "active" /\ InDeadThread(g)}
        Clear(f, null) == [g \in Greenlets |-> IF g \in S THEN null ELSE f[g]]
    IN  /\ PythonRuns(t)
        /\ \A g \in S : Tracked(g) /\ IsGC(g)
        /\ \A x \in S : rc[x] = Visited(S, x)
        /\ parent' = Clear(parent, NoOne)
        /\ home' = Clear(home, NoOne)
        /\ attr' = Clear(attr, {})
        /\ life' = [g \in Greenlets |-> IF g \in gone THEN "dead" ELSE life[g]]
        /\ lost' = [x \in Greenlets |-> lost[x] + Cardinality({g \in gone : x \in held[g]})
                                                + OwnedIn(calls, gone, x)]
        /\ held' = [h \in Holders |-> IF h \in gone THEN {} ELSE held[h]]
        /\ calls' = [g \in Greenlets |->
                         IF g \in gone THEN <<>>
                         ELSE IF g = current[t]
                              THEN calls[g] \o Dropping([i \in DOMAIN fields |-> fields[i][3]])
                              ELSE calls[g]]
        /\ UNCHANGED <<rc, current, thread, deleteme, fault, asked, runs>>

\* The thread ends: ThreadStateCreator marks its main greenlet dead, without the GIL.
Exit(t) ==
    /\ fault = "none" /\ thread[t] = "running" /\ t # MainThread
    /\ current[t] = MainOf[t] /\ calls[MainOf[t]] = <<>> /\ held[MainOf[t]] = {}
    /\ thread' = [thread EXCEPT ![t] = "exited"]
    /\ UNCHANGED <<life, parent, home, attr, held, rc, current, deleteme, calls, fault,
                   lost, asked, runs>>

\* The pending call of the main thread starts to delete the state of u: the list is
\* cleared first.  Pending calls do not nest.
Destroy(u) ==
    LET c == current[MainThread]
    IN  /\ PythonRuns(MainThread)
        /\ thread[u] = "exited"
        /\ \A g \in Greenlets : \A i \in DOMAIN calls[g] : calls[g][i].op # "destroy"
        /\ calls' = Called(c, <<Destroying(u)>> \o Clearing(deleteme[u], TRUE))
        /\ deleteme' = [deleteme EXCEPT ![u] = {}]
        /\ UNCHANGED <<life, parent, home, attr, held, rc, current, thread, fault,
                       lost, asked, runs>>

-----------------------------------------------------------------------------
(* C code. *)

\* green_new() goes on: the new greenlet is kept in a variable.
NewStep(t) ==
    LET c == current[t]
        g == Top(t).of
    IN  /\ Executes(t, "new")
        /\ life' = [life EXCEPT ![g] = "new"]
        /\ parent' = [parent EXCEPT ![g] = c]
        /\ asked' = [asked EXCEPT ![g] = c]
        /\ held' = [held EXCEPT ![c] = @ \cup {g}]
        /\ rc' = [rc EXCEPT ![c] = @ + 1, ![g] = 1]
        /\ calls' = Replaced(c, <<>>)
        /\ UNCHANGED <<home, attr, current, thread, deleteme, fault, lost, runs>>

CurrentStep(t) ==
    LET c == current[t]
        kept == (MayHold[c] \cap {c}) \ held[c]
    IN  /\ Executes(t, "current")
        /\ held' = [held EXCEPT ![c] = @ \cup kept]
        /\ rc' = [rc EXCEPT ![c] = @ + Cardinality(kept)]
        /\ calls' = Replaced(c, <<>>)
        /\ UNCHANGED <<life, parent, home, attr, current, thread, deleteme, fault,
                       lost, asked, runs>>

\* Py_DECREF()
Drop(t) ==
    LET g == Head(Top(t).todo)
        rest == Dropping(Tail(Top(t).todo))
    IN  /\ Executes(t, "drop")
        /\ rc' = [rc EXCEPT ![g] = @ - 1]
        /\ calls' = Replaced(current[t],
                             IF rc[g] = 1 THEN Append(rest, Doing("dealloc", g)) ELSE rest)
        /\ UNCHANGED <<life, parent, home, attr, held, current, thread, deleteme, fault,
                       lost, asked, runs>>

\* clear_deleteme_list() takes the next greenlet of its list, in any order.
ClearNext(t) ==
    /\ Executes(t, "clear") /\ ~Top(t).murder
    /\ \E g \in Top(t).todo :
           calls' = Replaced(current[t], Clearing(Top(t).todo \ {g}, FALSE) \o Dropping(<<g>>))
    /\ UNCHANGED <<life, parent, home, attr, held, rc, current, thread, deleteme, fault,
                   lost, asked, runs>>

\* The same with murder_in_place(), which must not meet a greenlet that runs.
Murder(t) ==
    /\ Executes(t, "clear") /\ Top(t).murder
    /\ \E g \in Top(t).todo :
           LET more == Replaced(current[t], Clearing(Top(t).todo \ {g}, TRUE)
                                                \o Dropping(Present(home[g]) \o <<g>>))
           IN  /\ home' = [home EXCEPT ![g] = NoOne]
               /\ fault' = IF life[g] = "active" /\ Linked(g) THEN "murdered" ELSE "none"
               /\ IF life[g] = "active"
                  THEN /\ life' = [life EXCEPT ![g] = "new"]
                       /\ Abandon(g)
                       /\ calls' = [more EXCEPT ![g] = <<>>]
                  ELSE /\ calls' = more
                       /\ UNCHANGED <<life, held, lost>>
    /\ UNCHANGED <<parent, attr, rc, current, thread, deleteme, asked, runs>>

\* gc.get_referrers() finds g: some tracked greenlet refers to it, or a global.  The
\* frames are invisible to it.
Referred(g) == g \in held[Globals] \/ \E x \in Greenlets : Tracked(x) /\ Visited({x}, g) > 0

\* The main greenlet is taken for leaked if, beside the references of the thread state,
\* there is one that is not found.  The mutant does not count.
UnfoundUncounted(m) == ~Referred(m)
Unfound(m) == rc[m] = 3 /\ ~Referred(m)

\* ~ThreadState() drops its references, and a third one if it looks
\* leaked.
DestroyStep(t) ==
    LET u == Top(t).state
        m == MainOf[u]
        leak == OptionalCleanup /\ Unfound(m)
    IN  /\ Executes(t, "destroy")
        /\ thread' = [thread EXCEPT ![u] = "destroyed"]
        /\ current' = [current EXCEPT ![u] = NoOne]
        /\ calls' = Replaced(current[t], Dropping(<<m, m>> \o IF leak THEN <<m>> ELSE <<>>))
        /\ lost' = [lost EXCEPT ![m] = IF leak /\ @ > 0 THEN @ - 1 ELSE @]
        /\ UNCHANGED <<life, parent, home, attr, held, rc, deleteme, fault, asked, runs>>

\* green_dealloc() of a greenlet that can be freed at once
DeallocIdle(t) ==
    LET g == Top(t).of
    IN  /\ Executes(t, "dealloc")
        /\ g \in Mains \/ life[g] # "active"
        /\ calls' = Replaced(current[t], <<Doing("free", g)>>)
        /\ UNCHANGED <<life, parent, home, attr, held, rc, current, thread, deleteme, fault,
                       lost, asked, runs>>

\* g is given a reference, and its new parent c another one.  The mutant borrows c.
GuardedBorrowing(g, c) == [rc EXCEPT ![g] = 1]
Guarded(g, c) == [rc EXCEPT ![g] = 1, ![c] = @ + 1]

\* _green_dealloc_kill_started_non_main_greenlet() and deallocing_greenlet_in_thread():
\* the greenlet is given a reference.  If it belongs to this thread, GreenletExit is
\* thrown into it, with the current greenlet for a parent in the meantime.
Kill(t) ==
    LET c == current[t]
        g == Top(t).of
    IN  /\ Executes(t, "dealloc")
        /\ g \notin Mains /\ life[g] = "active" /\ BelongsTo(g, t)
        /\ parent' = [parent EXCEPT ![g] = c]
        /\ rc' = Guarded(g, c)
        /\ calls' = Replaced(c, <<Killing(g, parent[g]), SwitchTo(g, FALSE)>>)
        /\ UNCHANGED <<life, home, attr, held, current, thread, deleteme, fault,
                       lost, asked, runs>>

\* It belongs to another thread: delete_when_thread_running().
Park(t) ==
    LET g == Top(t).of
    IN  /\ Executes(t, "dealloc")
        /\ g \notin Mains /\ life[g] = "active" /\ Linked(g) /\ ~BelongsTo(g, t)
        /\ \E u \in Threads : /\ MainOf[u] = home[g]
                              /\ deleteme' = [deleteme EXCEPT ![u] = @ \cup {g}]
        /\ rc' = [rc EXCEPT ![g] = 2]
        /\ calls' = Replaced(current[t], <<Doing("undo", g)>>)
        /\ UNCHANGED <<life, parent, home, attr, held, current, thread, fault,
                       lost, asked, runs>>

\* Its thread is dead: deactivate_and_free().
GiveUp(t) ==
    LET g == Top(t).of
    IN  /\ Executes(t, "dealloc")
        /\ g \notin Mains /\ life[g] = "active" /\ ~Linked(g)
        /\ life' = [life EXCEPT ![g] = "new"]
        /\ Abandon(g)
        /\ rc' = [rc EXCEPT ![g] = 1]
        /\ calls' = [Replaced(current[t], <<Doing("undo", g)>>) EXCEPT ![g] = <<>>]
        /\ UNCHANGED <<parent, home, attr, current, thread, deleteme, fault, asked, runs>>

\* ~ParentIsCurrentGuard(), and its mutant that leaves the parent
LeftParent(g, old) == parent
OldParent(g, old) == [parent EXCEPT ![g] = old]

\* The current greenlet is switched to again: ParentIsCurrentGuard puts the old
\* parent back.
KillReturn(t) ==
    LET c == current[t]
        g == Top(t).of
    IN  /\ Executes(t, "kill")
        /\ parent' = OldParent(g, Top(t).old)
        /\ fault' = IF Acyclic(parent') THEN "none" ELSE "cyclic"
        /\ calls' = Replaced(c, <<Doing("undo", g)>> \o Dropping(Present(parent[g])))
        /\ UNCHANGED <<life, home, attr, held, rc, current, thread, deleteme, lost, asked, runs>>

\* The temporary reference is taken back, unless the greenlet has survived it without
\* being referred to: then it is leaked.
Undo(t) ==
    LET g == Top(t).of
        leaked == rc[g] = 1 /\ life[g] = "active"
        freed == rc[g] = 1 /\ life[g] # "active"
    IN  /\ Executes(t, "undo")
        /\ lost' = [lost EXCEPT ![g] = IF leaked THEN @ + 1 ELSE @]
        /\ rc' = [rc EXCEPT ![g] = IF leaked THEN @ ELSE @ - 1]
        /\ calls' = Replaced(current[t], IF freed THEN <<Doing("free", g)>> ELSE <<>>)
        /\ UNCHANGED <<life, parent, home, attr, held, current, thread, deleteme, fault,
                       asked, runs>>

\* green_dealloc() goes on: the callbacks of the weak references run ...
Free(t) ==
    LET g == Top(t).of
    IN  /\ Executes(t, "free")
        /\ calls' = Replaced(current[t], <<Doing("delete", g)>>
                                 \o IF g \in Callbacks THEN <<Python>> ELSE <<>>)
        /\ UNCHANGED <<life, parent, home, attr, held, rc, current, thread, deleteme, fault,
                       lost, asked, runs>>

\* ... and __dict__ and the pimpl are dropped.
Delete(t) ==
    LET g == Top(t).of
    IN  /\ Executes(t, "delete")
        /\ life' = [life EXCEPT ![g] = "freed"]
        /\ attr' = [attr EXCEPT ![g] = {}]
        /\ parent' = [parent EXCEPT ![g] = NoOne]
        /\ home' = [home EXCEPT ![g] = NoOne]
        /\ calls' = Replaced(current[t], Dropping(SetToSeq(attr[g]) \o Present(parent[g])
                                                  \o Present(home[g])))
        /\ UNCHANGED <<held, rc, current, thread, deleteme, fault, lost, asked, runs>>

\* The loop of inner_bootstrap() over the parents goes on to p, or ends.
TryParent(c, p) ==
    /\ fault' = IF p = NoOne THEN "no parent" ELSE "none"
    /\ calls' = Replaced(c, IF p = NoOne THEN <<>> ELSE <<SwitchTo(p, TRUE)>>)

\* inner_bootstrap() after run(): dead, and on to the parent
Die(t) ==
    LET c == current[t]
    IN  /\ Executes(t, "finish")
        /\ life' = [life EXCEPT ![c] = "dead"]
        /\ TryParent(c, parent[c])
        /\ UNCHANGED <<parent, home, attr, held, rc, current, thread, deleteme,
                       lost, asked, runs>>

\* The parent that a dying greenlet tries after g.  The mutant tries g again.
SameParent(g) == g
NextParent(g) == parent[g]

\* g_switch(): the switch is refused, which a dead greenlet tells the next parent.
Refuse(t) ==
    LET c == current[t]
        g == Top(t).of
    IN  /\ Executes(t, "switch")
        /\ ~SwitchAllowed(t, g) \/ (life[Live[g]] = "new" /\ ~SwitchAllowed(t, Live[g]))
        /\ IF Top(t).dying
           THEN TryParent(c, NextParent(g))
           ELSE fault' = fault /\ calls' = Replaced(c, <<>>)
        /\ UNCHANGED <<life, parent, home, attr, held, rc, current, thread, deleteme,
                       lost, asked, runs>>

\* g_switchstack() after a lookup of the current greenlet
GSwitchstack(t, g, first) ==
    /\ calls' = Replaced(current[t],
                         (IF g = current[t] THEN <<>> ELSE <<Entering("jump", g, first)>>)
                             \o Clearing(deleteme[t], FALSE))
    /\ deleteme' = [deleteme EXCEPT ![t] = {}]

\* g_switch() finds an active greenlet.
GSwitch(t) ==
    /\ Executes(t, "switch")
    /\ SwitchAllowed(t, Top(t).of)
    /\ \E g \in Greenlets : /\ g = Live[Top(t).of] /\ life[g] = "active"
                             /\ GSwitchstack(t, g, FALSE)
    /\ UNCHANGED <<life, parent, home, attr, held, rc, current, thread, fault,
                   lost, asked, runs>>

\* g_switch() finds one to start: g_initialstub() looks up the current greenlet ...
GInitialstub(t) ==
    /\ Executes(t, "switch")
    /\ SwitchAllowed(t, Top(t).of)
    /\ \E g \in Greenlets :
           /\ g = Live[Top(t).of] /\ life[g] = "new" /\ SwitchAllowed(t, g)
           /\ calls' = Replaced(current[t], <<Entering("start", g, TRUE)>>
                                                \o Clearing(deleteme[t], FALSE))
    /\ deleteme' = [deleteme EXCEPT ![t] = {}]
    /\ UNCHANGED <<life, parent, home, attr, held, rc, current, thread, fault,
                   lost, asked, runs>>

\* ... and makes it a greenlet of this thread, which is neither new nor active.  It must
\* be new still, and not be on its way to be freed.
Start(t) ==
    LET g == Top(t).of
        m == MainOf[t]
    IN  /\ Executes(t, "start")
        /\ life' = [life EXCEPT ![g] = "dead"]
        /\ home' = [home EXCEPT ![g] = m]
        /\ rc' = [rc EXCEPT ![m] = @ + 1]
        /\ fault' = IF life[g] = "new" /\ rc[g] > 0 THEN "none" ELSE "torn"
        /\ calls' = Replaced(current[t], <<Entering("stack", g, TRUE)>>
                                             \o Dropping(Present(home[g])))
        /\ UNCHANGED <<parent, attr, held, current, thread, deleteme, lost, asked, runs>>

Switchstack(t) ==
    /\ Executes(t, "stack")
    /\ GSwitchstack(t, Top(t).of, TRUE)
    /\ UNCHANGED <<life, parent, home, attr, held, rc, current, thread, fault,
                   lost, asked, runs>>

\* slp_switch() and g_switchstack_success().  They look up the current greenlet once
\* more, and whoever was switched to or killed since the last time has left them with
\* a list that is not empty, without arguments or with a target that is gone.
Jump(t) ==
    LET c == current[t]
        g == Top(t).of
        first == Top(t).first
        intact == /\ deleteme[t] = {} /\ InProgress({"start", "stack", "jump"}, g) = {c}
                  /\ life[g] = IF first THEN "dead" ELSE "active"
                  /\ rc[g] > 0 /\ MainFor(g) = MainOf[t]
                  /\ life[c] = "dead" => Len(calls[c]) = 1
    IN  /\ Executes(t, "jump")
        /\ IF intact
           THEN /\ fault' = fault
                /\ life' = [life EXCEPT ![g] = "active"]
                /\ current' = [current EXCEPT ![t] = g]
                /\ rc' = [rc EXCEPT ![g] = @ + 1]
                /\ runs' = [runs EXCEPT ![g] = IF first THEN @ + 1 ELSE @]
                /\ calls' = [[calls EXCEPT ![c] = IF life[c] = "dead" THEN <<>> ELSE Front(@)]
                                 EXCEPT ![g] = @ \o Dropping(<<c>>)]
           ELSE /\ fault' = "torn"
                /\ UNCHANGED <<life, current, rc, calls, runs>>
        /\ UNCHANGED <<parent, home, attr, held, thread, deleteme, lost, asked>>

-----------------------------------------------------------------------------
PythonStep(t) ==
    \/ \E g \in Greenlets : New(t, g) \/ Switch(t, g) \/ LookDead(t, g)
    \/ \E h \in Holders, g \in Greenlets : Keep(t, h, g) \/ Forget(t, h, g)
    \/ \E g, x \in Greenlets : Name(t, g, x) \/ Unname(t, g, x) \/ SetParent(t, g, x)
    \/ \E S \in (SUBSET Greenlets) \ {{}} : Collect(t, S)
    \/ GetCurrent(t) \/ Finish(t) \/ Return(t)

CStep(t) ==
    \/ NewStep(t) \/ CurrentStep(t) \/ Drop(t) \/ ClearNext(t) \/ Murder(t) \/ DestroyStep(t)
    \/ DeallocIdle(t) \/ Kill(t) \/ Park(t) \/ GiveUp(t) \/ KillReturn(t) \/ Undo(t)
    \/ Free(t) \/ Delete(t) \/ Die(t) \/ Refuse(t) \/ GSwitch(t) \/ GInitialstub(t)
    \/ Start(t) \/ Switchstack(t) \/ Jump(t)

Next == \E t \in Threads : PythonStep(t) \/ CStep(t) \/ Exit(t) \/ Destroy(t)

Spec == Init /\ [][Next]_vars

\* C code that holds the GIL goes on until it runs Python code.
FairSpec == Spec /\ \A t \in Threads : WF_vars(CStep(t))

-----------------------------------------------------------------------------
TypeOK ==
    /\ life \in [Greenlets -> {"none", "new", "active", "dead", "freed"}]
    /\ parent \in [Greenlets -> Greenlets \cup {NoOne}]
    /\ home \in [Greenlets -> Mains \cup {NoOne}]
    /\ attr \in [Greenlets -> SUBSET Greenlets]
    /\ held \in [Holders -> SUBSET Greenlets]
    /\ rc \in [Greenlets -> Nat]
    /\ current \in [Threads -> Greenlets \cup {NoOne}]
    /\ thread \in [Threads -> {"running", "exited", "destroyed"}]
    /\ deleteme \in [Threads -> SUBSET Greenlets]
    /\ calls \in [Greenlets -> Seq(Calls)]
    /\ fault \in {"none", "torn", "no parent", "cyclic", "murdered"}
    /\ lost \in [Greenlets -> Nat]
    /\ asked \in [Greenlets -> Greenlets \cup {NoOne}]
    /\ runs \in [Greenlets -> Nat]

\* Who refers to g.
Pointing(f, g) == Cardinality({x \in DOMAIN f : f[x] = g})
Holding(f, g) == Cardinality({x \in DOMAIN f : g \in f[x]})
Stated(g) == Cardinality({t \in Threads : MainOf[t] = g /\ thread[t] # "destroyed"})
References(g) ==
    Pointing(parent, g) + Pointing(home, g) + Holding(attr, g) + Holding(held, g)
    + Pointing(current, g) + Holding(deleteme, g)
    + Stated(g) + OwnedIn(calls, Greenlets, g) + lost[g]

\* The count of every greenlet is the number of its references, also in the middle
\* of a deallocation, a kill or the destruction of a thread state: nothing is freed
\* while it is referred to (the count of a freed greenlet is 0) and nothing leaks but
\* what is accounted for in lost.  (A greenlet that is murdered while it runs loses its
\* calls in the middle of one.)
RefcountExact == fault # "murdered" => \A g \in Greenlets : rc[g] = References(g)

\* With optional cleanup, ~ThreadState() searches for a reference to its main greenlet that
\* nobody will drop, and drops it: what it finds is lost indeed.
LeaksAreLost ==
    \A t \in Threads : Executes(t, "destroy") /\ OptionalCleanup /\ Unfound(MainOf[Top(t).state])
                       => lost[MainOf[Top(t).state]] > 0

\* green_dealloc() throws GreenletExit into a greenlet only from a greenlet of the
\* same thread, whatever happens before it returns.  (If their thread exits meanwhile,
\* the greenlet may be deactivated and started in another one.)
KilledInThread ==
    fault = "none" =>
        \A g \in Greenlets : \A h \in InProgress({"kill"}, g) :
            Linked(h) => MainFor(h) = MainFor(g)

\* The greenlet has not been started yet, or its first run goes on, in a thread that does.
FirstRun(g) == runs[g] = 0 \/ (runs[g] = 1 /\ life[g] = "active" /\ Linked(g))

\* A greenlet that survives GreenletExit, in its handler or by being referred to
\* again, has the parent that Python code gave it as soon as the kill is over.  (A thread
\* that exits may leave a kill unfinished; its greenlets can only be started anew.)
OwnParent ==
    fault = "none" =>
        \A g \in Greenlets \ Mains :
            /\ Exists(g) /\ parent[g] # NoOne
            /\ InProgress({"kill"}, g) = {}
            /\ FirstRun(g)
            => parent[g] = asked[g]

\* A suspended greenlet keeps its thread and its parent as long as it can go on, whatever
\* is collected, deallocated or destroyed.  (What the end of a kill puts back is OwnParent's
\* business.)
SuspendedIntact ==
    [][\A g \in Greenlets \ Mains :
          life[g] = "active" /\ life'[g] = "active" /\ fault' = "none" =>
              /\ home'[g] = home[g]
              /\ parent[g] # NoOne /\ InProgress({"kill"}, g) = {} => parent'[g] # NoOne]_vars

\* A list is for greenlets of its thread, and it goes before the thread state does:
\* nothing is parked where nobody will look.  (A greenlet that is still on the list of a
\* thread that has exited is had back through a weak reference, or not at all.)
ParkedForThread ==
    fault = "none" =>
        \A t \in Threads : \A g \in deleteme[t] :
            /\ thread[t] # "destroyed"
            /\ home[g] = MainOf[t] \/ (thread[t] = "exited" /\ g \in Weak)

\* The greenlet that a thread runs is active, or dead and on its way to its parent:
\* nothing kills, murders or collects it meanwhile.
CurrentAlive ==
    \A t \in Threads : thread[t] = "running" /\ fault = "none" =>
        \/ life[current[t]] = "active"
        \/ life[current[t]] = "dead" /\ calls[current[t]] # <<>>

\* Deallocations nest and run Python code, but C code gets through with them: it
\* returns to Python code, or the process stops.
ReturnsToPython == \A t \in Threads : InC(t) ~> ~InC(t) \/ fault # "none"

\* "Nothing we do from here on out should allow for a thread or greenlet switch: No
\* arbitrary calls to Python" (g_initialstub()): no Python code runs in a thread
\* where a switch is under way.
SwitchIsAtomic ==
    \A t \in Threads : PythonRuns(t) =>
        \A g, h \in Greenlets :
            h \in InProgress({"start", "stack", "jump"}, g) => MainFor(h) # MainOf[t]

\* "Of course, cycles are not permitted" (docs/creating_executing_greenlets.rst):
\* from every greenlet the parents lead to a main one.
AcyclicParents == Acyclic(parent)

\* "If *murder* is true, then we must be called from a different thread than the one
\* that these greenlets were running in" (clear_deleteme_list()): it does not
\* deactivate a greenlet of a thread that runs.
MurderedElsewhere == fault # "murdered"
=============================================================================

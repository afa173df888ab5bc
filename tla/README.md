# TLA+ specifications of greenlet

greenlet gives Python several call stacks per thread and lets a program switch
between them by hand. The library is small, but almost everything it does is a
place where a test sees very little: it copies pieces of the C stack while it is
running on it, it calls Python code in the middle of a switch, and it cleans up
after threads that are already gone. This directory models those parts in TLA+,
checks them with TLC on small instances, and proves the central invariants with
TLAPS for every instance.

Paths below are relative to the repository; `greenlet/X` means
`src/greenlet/X`.

## Inventory

| component | state | operations | hard behaviour | correct when |
|---|---|---|---|---|
| **StackState and slp_switch** (`TStackState.cpp`, `greenlet_slp_switch.hpp`, `platform/`) | per greenlet `stack_start`, `stack_stop`, heap copy, `stack_saved`, `stack_prev`; the C stack and its pointer | spill loop, jump, copy back, relink loop, first switch, death, allocation failure | a slice is spilled in pieces by several switches; the chain of owners is repaired only for the target; a dead greenlet can be current | each greenlet finds its stack as it left it |
| **Switching** (`TUserGreenlet.cpp`, `TGreenlet.cpp`, `TMainGreenlet.cpp`) | life, thread (`_main_greenlet`), `_parent`, `switch_args`, pending exception, each thread's current greenlet | `g_switch`, `g_switch_finish`, `g_initialstub`, `inner_bootstrap`, `check_switch_allowed`, the parent setter | looking up `run` runs Python code in the middle; dead targets are skipped; a dying greenlet hunts for a parent; other threads re-parent and start greenlets | `run()` entered once, control stays in its thread, no value lost, every switch ends |
| **Python API** (`PyGreenlet.cpp`) | none of its own; references to greenlets in `__dict__`, frames and globals | `switch`, `throw`, construction, the setters, `dead`, `repr`, traverse and clear, deallocation | deallocation of a suspended greenlet throws into it, or defers to its thread; it may survive; it nests in any C code that drops a reference | reference counts exact, killed in its own thread only, nothing leaks unnoticed |
| **Per-thread state** (`TThreadState.hpp`, `TThreadStateCreator.hpp`) | `ThreadState`, main and current greenlet, trace function, the `deleteme` list | creation on first use, emptying the list in every lookup of the current greenlet, destruction, search for a leaked main greenlet | the list grows while it is worked through, and what is dropped runs Python code | nothing on the list is lost or freed twice |
| **Thread exit** (`TThreadStateDestroy.cpp`, `TGreenletGlobals.cpp`) | queue of thread states, its lock, the pending call | unlink, enqueue, schedule, empty the queue | runs without GIL and thread state, races with finalization and with drops by other threads; pending calls can run out | each state destroyed once, after it is unlinked, and eventually |
| **Interpreter state** (`TPythonState.cpp`, `TExceptionState.cpp`) | copies of fields of `PyThreadState` | save before, restore after a switch, initial state, `did_finish`, `gr_context` | fields move or go stale, memory has three owners in turn, values live in the thread or the greenlet | what one greenlet saved is what it gets back; data stacks freed once |
| **Tracing** (`PyModule.cpp`, `TGreenlet.cpp`) | the trace function of a thread | `settrace`, the call in each switch and before `run()` | Python code runs between the change of current greenlet and the return, and may switch, raise or replace itself | it learns of every switch, and costs nobody a value |
| **Exposed frames** (`TGreenlet.cpp`, `TPythonState.cpp`) | links between interpreter frames | `expose_frames`, `unexpose_frames` | overwrites what the eval loop needs later | inspection meets complete frames only, links come back |
| **Smart pointers** (`greenlet_refs.hpp`) | owned references | store, then DECREF | the DECREF runs Python code when the new value is already in place | covered by the counts of *Python API* |
| Test-only greenlets, C API capsule, compatibility headers, assembler, tests, packaging | | | | not modelled, see `PROJECT.json` |

They interact as follows. `switch()` and `throw()` put values into the target's
`switch_args` and call `g_switch()`, which decides where control goes
(*Switching*) and then calls `slp_switch()` (*StackState*), which takes the
current greenlet from the *per-thread state*. Every lookup of the current greenlet empties that
thread's `deleteme` list, also in the middle of a switch. The greenlet that has become current calls the
trace function before its `switch()` returns. Deallocation of a greenlet in its own thread is a
`throw()`; in another thread it parks the greenlet on the list of its
`ThreadState`, which *thread exit* unlinks, queues and destroys. The hazards of
the code, with the lines where they bite, are listed under `hazards` in
`PROJECT.json`, each with the properties that would catch it.

## Modules

| module | what it is |
|---|---|
| `PrivateStacks` | abstract specification: every greenlet has a call stack of its own |
| `StackSlicing` | the C stack of one thread, shared by its greenlets; implements `PrivateStacks` |
| `StackSlicingProofs` | its invariant, for all instances |
| `PrivateStacksProofs` | that it implements `PrivateStacks`, for all instances |
| `Switching` | control, values and exceptions between greenlets of several threads |
| `SwitchingProofs` | where control and values go, for all instances |
| `Deallocation` | who refers to a greenlet and what happens when nobody does, within switches and threads that exit |
| `DeallocationProofs` | that its reference counts are exact, for all instances |
| `DeallocationLifeProofs` | which greenlets run, wait, die and are parked where, and whose parent a kill puts back, for all instances |
| `ThreadCleanup` | threads that exit, the greenlets they leave, finalization, without the GIL |
| `ThreadCleanupProofs` | who may reach the state of a thread that has exited, for all instances |
| `PrivateInterpreter` | abstract specification: every greenlet has an interpreter state of its own |
| `InterpreterState` | what a switch moves between a thread and its greenlets; implements `PrivateInterpreter` |
| `InterpreterStateProofs` | its invariants, for all instances |
| `PrivateInterpreterProofs` | that it implements `PrivateInterpreter`, for all instances |
| `MCStackSlicing`, `MCSwitching`, `MCDeallocation`, `MCThreadCleanup`, `MCInterpreterState` | instances for TLC |

`Deallocation` is the composition of control, references and threads: it has the switches of `Switching` without
their values and the exit of threads of `ThreadCleanup` without its steps, and adds what both leave out, that any DECREF may
deallocate a greenlet and that this is a switch. The other modules are one component each. `Switching` uses of the
stack only that a switch to an active greenlet resumes it, which is what `StackSlicing` establishes;
`ThreadCleanup` uses of switching only that a greenlet is started and suspended.

### StackSlicing

Addresses are `0` (null), `1` (the mark of a running greenlet), the cells
`2..Top` and `Top + 1` (the main greenlet's `stack_stop`); a cell stands for the
bytes of one C frame, and the stack grows down. `stack_start` ... `stack_prev` are
the fields of `StackState`; `stack` and `sp` are the machine's.

`Push` and `Pop` are running code. `SwitchTo` and `InitialStub` begin a switch
(`g_switchstack()` and the first switch of a greenlet). One iteration of
`copy_stack_to_heap()` is `SaveWhole` or the last, partial `SaveLast` /
`EnterNew`; the copy back is `Restore`; one iteration of the loop of
`copy_heap_to_stack()` that finds the target's place is `Relink`; `Resume` is
`g_switchstack_success()`. `OutOfMemory` is a failed `PyMem_Realloc()`, `Die` is
`set_inactive()`, `Recycle` re-uses a greenlet that has finished. Cells below the stack
pointer become `Garbage` at each call, so that a byte spilled too late cannot be
right by luck.

`PrivateStacks` promises that only the running greenlet changes its stack and that
a resumed greenlet finds what it left. The refinement mapping reads each
greenlet's frames from wherever they are: in place above
`stack_start + stack_saved`, in the heap copy below.

### Switching

The GIL is held from the call of `switch()` to the next Python code, so threads
interleave only while `pc = "python"`; `sw` is the call of `g_switch()` in
progress, with its `this`, its loop variable `target`, who called it (`back`:
`green_switch()` or a dying greenlet) and what `g_initialstub()` saved. Looking up
`run` on a greenlet whose class defines `__getattribute__` (the set
`Callbacks`) may run Python code, which is any sequence of `Switch`, `Throw`,
`SetParent` and `Finish` actions of any greenlets until it returns
(`LeaveCallback`); `frames[g]` holds the `g_initialstub()` calls suspended in
greenlet `g`. A greenlet that is dead but still searching for a parent may be
current.

| action | code |
|---|---|
| `Switch`, `Throw`, `SetParent` | `green_switch`, `green_throw`, `UserGreenlet::parent` |
| `Refuse`, `Allow` | the arguments check and `check_switch_allowed()` of `g_switch()` |
| `SkipDead` | the step of its loop over dead greenlets |
| `SwitchStack` | `g_switchstack()` to an active target of this thread, and `g_switch_finish()` there |
| `SwitchNowhere`, `ForeignReturn`, `ForeignRaise` | both, when the target is current in its own, other thread |
| `SwitchForeign` | `g_switchstack()` to a target that is suspended in another thread |
| `LookUpRun`, `Found`, `NotFound`, `EnterCallback`, `LeaveCallback` | `g_initialstub()` up to the result of the lookup |
| `RefuseStart`, `Retry`, `StartRun` | what it does with it |
| `Finish`, `Die`, `NextParent` | the end of `inner_bootstrap()` and its loop over parents |
| `SetTrace` | `mod_settrace` |
| `TraceReturn`, `TraceRaise` | the end of `g_calltrace()` in `g_switch_finish()` and in `inner_bootstrap()` |

The trace function of a thread in `Tracing` is called by `SwitchStack` and by `FirstSwitch` in the greenlet that has just become
current. `traced[g]` holds what the C code around the call keeps in local variables: the value and the
exception to be delivered afterwards, whether `run()` is to be called, and how many lookups lie below. Until the
function returns it is Python code like any other and may switch, throw, re-parent, or call
`settrace()`; when it raises, `settrace(None)` is done for it and its exception replaces the one captured.

A walk over dead greenlets may end at a greenlet of another thread, which was not checked. If that greenlet is current there,
`g_switchstack()` has nothing to do, since it asks the target's own thread, and `g_switch_finish()`, still on the
caller's stack, takes the arguments out of the target. So they come back to the caller (`ComeBack`): a `switch()` returns what was passed to it, and
a dying greenlet, which does not expect to be back, goes on to its next parent with its own result. If the target's thread has a
trace function it is called before that, in the wrong thread; the call waits in `frames` with `waits = "trace"` until `ForeignReturn` or
`ForeignRaise`, and an exception removes the trace function of the thread that runs, not the one that was
called (`GET_THREAD_STATE()` in `g_calltrace()`). If the target is suspended there, `slp_switch()` makes this thread run on
a stack of the other one (`SwitchForeign`). Assertions are taken to be compiled out, as in a release build: `assert(!result)` at the end of the loop over parents
would fail for the dying greenlet. That `borrow_current()` empties the other thread's `deleteme` list on this path is left out, as are all
deallocations in this module.

Values are numbered by the sends that carry them; `got`, `told`, `runs`, `sent`,
`thrown` and `seen` are auxiliary and never read by a guard except for the bounds.
`"fatal"` is `Py_FatalError("ran out of parent greenlets")`. `"crash"` is a jump into a
stack of another thread (`SwitchForeign`), after which the program has no defined behaviour.

### Deallocation

`rc` is the reference count as the code changes it. References are held by other greenlets (`parent`, `home`, `attr` for
`__dict__`), by Python frames and globals (`held`), by thread states (`current`, the main greenlet, `deleteme`) and by C code.
`calls[g]` is the C code in progress on the stack of `g`, innermost last: a DECREF that is still to be done, a
list that is being emptied, a deallocation, a switch. Only the innermost call of the current greenlet advances;
Python code runs when there is none, or when it is a callback. A switch from within a call leaves the calls below
suspended with their greenlet. So every interleaving that the C stack permits is a behaviour.

| action | code |
|---|---|
| `New`, `NewStep` | `green_new()`, which looks up the current greenlet first |
| `GetCurrent`, `CurrentStep` | `mod_getcurrent()`, `ThreadState::get_current()` |
| `Keep`, `Forget`, `Name`, `Unname` | assignments and deletions of variables and attributes |
| `SetParent` | `UserGreenlet::parent`, whose old value is dropped after the new one is stored |
| `Switch`, `Refuse`, `GSwitch`, `GInitialstub`, `Start`, `Switchstack`, `Jump` | `g_switch()`, `g_initialstub()`, `g_switchstack()`, cut at each lookup of the current greenlet |
| `Finish`, `Die` | `run()` returns, its locals are dropped, `inner_bootstrap()` goes on to the parents |
| `Drop` | `Py_DECREF()` |
| `DeallocIdle`, `Kill`, `Park`, `GiveUp` | `green_dealloc()` of a greenlet that is not active, or active in this thread, in another one, or in one that is gone |
| `KillReturn`, `Undo` | `~ParentIsCurrentGuard()`; the end of `_green_dealloc_kill_started_non_main_greenlet()` |
| `Free`, `Delete` | weak references and their callbacks, then `__dict__` and the pimpl |
| `ClearNext`, `Murder` | one round of `clear_deleteme_list()`, without and with `murder_in_place()` |
| `LookDead`, `Collect` | `_green_not_dead()`; `green_is_gc()`, `green_traverse()` and `green_clear()` of a garbage cycle |
| `Exit`, `Destroy`, `DestroyStep` | the thread ends; `~ThreadState()` with the search for a leaked main greenlet |

`lost` counts the references that nobody will ever drop (frames that are abandoned, greenlets that are leaked), so that
`RefcountExact` can be an equation. `asked` is the parent that Python code has given to a greenlet. A
`fault` stops the model where the program has no defined behaviour any more or aborts.

### ThreadCleanup

`pc[t]` follows the destructor of the thread-local `ThreadStateCreator` step by step
(`Exit`, `Mark`, `CheckInterpreter`, `Enqueue`, `SkipShuttingDown` / `SeeRunning`,
`AddPending`); `RunPending`, `TakeNext`, `TakeOne`, `LoopEnds`, `ReapOne`,
`DestroyEnd` are the pending call in the main thread; `DropInThread`,
`DropElsewhere`, `Park`, `FinishDrop` are the deallocation of a suspended greenlet by
its own and by another thread; `SwapOut`, `ClearBegin`, `ClearOne` empty the
`deleteme` list; `Finalize` is the interpreter going away, at any point. CPython's
pending calls are external: `NPendingCalls` slots, other users, one runner at a time. `Finalize` may come between `SeeRunning` and
`AddPending`; the call is then added as usual. That CPython may instead dereference a null pointer there, as the comment in
`AddPendingCall()` says, ends the process and is no state of the model: nothing here is about that crash.

### InterpreterState

`ts[t]` is the `PyThreadState` of a thread and `saved[g]` the `PythonState` and `ExceptionState` of a greenlet,
with one field for each group that behaves differently: the context (moved, and set from outside), the
handled exceptions (moved, with a fallback to the thread's own), the recursion depth (copied to a
new greenlet), the current frame, and the chunk of data stack (freed by three different owners).
`frames[g]` are the frames of a greenlet with their `previous` links and what `expose_frames()` puts
away in the frame object (`stash`); `top[g]` is `_top_frame`. `home[g]` is the thread that a greenlet was started in, and `stale[g]` tells how
many of its frames are left of a run that was killed. `Call`, `Return`, `Handle` and `ContextRun` are CPython.

| action | code |
|---|---|
| `SwitchTo`, `Start` | both `operator <<`, `expose_frames()`, both `operator >>` with `unexpose_frames()`; before a first switch `set_initial_state()` |
| `Die` | `did_finish(tstate)` at the end of `inner_bootstrap()`; the greenlet stays current and may run Python code in a lookup |
| `Murder`, `Destroy` | `deactivate_and_free()` after the thread has exited, with `tp_clear()`; `~UserGreenlet()` |
| `GrContextSet` | the setter of `gr_context`, by any thread |
| `Exit` | CPython clears the thread state of a thread that ends |

Which greenlet is switched to is not decided here (that is `Switching`), so any active one of the thread may be.

`Murder` makes a greenlet unstarted, and `Start` may start it again in any thread. Its context is gone then, and its
`current_frame`, data stack and frames are not: `set_initial_state()` leaves them, so that the second run has the frames of the first
below its own, linked as `expose_frames()` left them, and goes on in its chunks. The new run never returns into
them; `run()` is over when it comes down to the first of them (`Die`). What is undefined behaviour in this has the outcome in which the memory still holds what it
held: `did_finish()` frees the chunks under the killed frames while `current_frame` points to one of them, where the next switch looks for the
top frame (`Freed`), and the frame object of the innermost killed frame, which `tp_clear()` may have freed, is written to by
`expose_frames()`. The other outcome, a crash, ends the process. Garbage that is read without a crash is not modelled.

`PrivateInterpreter` promises that a switch changes nobody's state and that only the running code
and assignments to `gr_context` do. A kill takes the context, and links the frames anew; a first switch sets the recursion
depth and the handled exceptions, and leaves the frames that a kill has left. The mapping reads each greenlet's state from its thread while it is
current and from the greenlet otherwise, and its frame links from `stash` while they are exposed.

## What the runs check

| run | instance | shows |
|---|---|---|
| `stack_slicing` | 4 greenlets, 4 cells, 1 frame value | types; the slicing implements `PrivateStacks`; the chain of owners (`ChainOfOwners`), the save loop never runs off it (`SaveHasOwner`), the inductive invariant (`ChainInv`), and both loops end (`SwitchCompletes`) |
| `switching` | 2 threads, 2 greenlets with Python lookups, trace functions in both threads, 2 sends, 1 pending lookup each | `run()` entered once, current greenlets in their threads, no stale arguments, `ControlInv`, started and dead for good; every switch ends |
| `switch_values` | 1 thread, 2 greenlets beside the main one, 3 sends, 1 throw, plain lookups, a trace function | every value arrives once or its sender or receiver is told (`ValuesArrive`), and `g_switchstack()` always has something to pass (`ArgsPending`) |
| `thread_cleanup` | main thread, 2 that exit, 3 greenlets, 2 slots, fairness | nothing is destroyed twice, dangling, stranded on the queue or lost from the list, the invariant behind it (`CleanupInv`), and every exited thread is cleaned up |
| `deallocation` | 2 threads, one of which may exit, 2 greenlets that anybody may drop, a cycle through `__dict__`, a weak reference, a callback, optional cleanup | reference counts (`RefcountExact`), what the search for a leaked main greenlet drops is lost (`LeaksAreLost`), kills in the right thread (`KilledInThread`) that leave the parent alone (`OwnParent`), suspended and current greenlets untouched by the collector (`SuspendedIntact`, `CurrentAlive`), lists of living thread states only (`ParkedForThread`); C code gets back to Python code |
| `other_thread` | 2 threads of which one traces, 2 greenlets beside the main ones, 3 sends, 1 throw, plain lookups | the trace function learns of every switch of its thread and of no other (`TracerFollows`), also when a walk ends at a greenlet that is current in its thread and it is called in the wrong one |
| `interpreter_state` | 2 threads, one of which may exit, with 2 greenlets, one of which may be killed and started again in either thread | own state for everybody (`PrivateInterpreterSpec`), data stacks neither lost nor shared (`ChunksOwned`, `FramesInChunks`), suspended frames readable (`ExposedAreComplete`), nothing saved over (`SavedIntoEmpty`), and the invariant behind them, how frames are linked and chunks listed (`InterpreterInv`) |
| `received_once` (violated) | 1 thread, 2 greenlets with Python lookups, 5 sends | a value is received twice, another never |
| `in_thread` (violated) | 2 threads, plain lookups | a switch through a dead greenlet enters another thread's stack, where the greenlet that it ends at is suspended |
| `switch_atomic` (violated) | 2 threads, 2 greenlets, one dropped by the other thread | Python code runs in the middle of a switch |
| `parent_cycle` (violated) | 1 thread, 2 greenlets | parents in a circle after a kill |
| `murdered` (violated) | 2 threads, 1 greenlet with a weak reference, started twice | a living thread's greenlet is deactivated |

### Bounds, and why they are enough

- `Top = 5` (four cells). Spilling whole, in part and in several parts, an empty
  slice between two full ones, and equal `stack_stop`s need three cells above
  the target; the proofs cover every `Top`. Four greenlets give a chain with a middle.
- `Frames`: what is lost or spilled too late shows with one value, as the cell is then `Garbage`. That frames are not
  exchanged, which takes two values, is `ImplementsPrivateStacks`.
- `MaxSends`, `MaxThrows`, `MaxDepth` bound the values, the throws and the nested
  lookups. Two sends race for one unstarted greenlet; a third is needed to send a
  value through a dead greenlet and see it arrive, a fifth to see one received twice. `Tracing` are the threads
  that may have a trace function; calls of it nest as deep as sends allow.
  Finishing by an exception and `SetParent` are unbounded, so chains of deaths are not cut
  short. `SwitchingProofs` covers every bound for the properties of `switching`.
- `other_thread`: two greenlets, as the one that dies and its parent, which the other thread starts. Three sends and a throw take control there, back,
  and to the dead one, also when the parent has been suspended meanwhile. That values survive this path (`ValuesArrive`, for threads that do
  not trace) and that a dying greenlet goes on to its next parent, which takes five greenlets, is left to the proofs.
- In `interpreter_state` `a` may be started in both threads, `b` in the second (`StartedIn`). The greenlet `a` may have four frames, entry and complete ones in turn, so that an
  entry frame lies between two complete ones; `b` and the first thread run C code only, which is where a missing
  top frame matters. Two chunks make a second owner and a popped chunk; a recursion limit of 2 leaves a greenlet
  started one deep one call. The second thread exits once and the first one never, so that a greenlet is killed once; that it may be killed again is covered by the
  proofs alone. States that differ only in fields that are written before they are read again are
  identified (`View`).
- `NPendingCalls = 2` lets one slot be taken by somebody else and makes the call fail when two are.
- `MayHold` and `MayName` say which greenlets the frames of each greenlet, the globals and `__dict__`s may refer to.
  They decide how much of `Deallocation` is explored, and each run has what it needs: in `deallocation` `t2` starts two greenlets, either
  thread may drop either of them, and one can refer to itself. `StartedIn` and `MaxStarts` bound who starts a greenlet and how
  often (a second time needs a greenlet that was deactivated); `Weak` and `Callbacks` are the greenlets with a weak
  reference and with a callback on one. Depth of nesting is bounded by the number of greenlets that can be deallocated.

The bounds are guards. The runs of `Switching` with `CHECK_DEADLOCK FALSE` reach `"fatal"` or `"crash"`, those of
`Deallocation` a fault, where the process stops.

### Fairness

- `StackSlicing`: weak fairness of `SlpSwitch`. `slp_switch()` is straight-line code
  with two loops and gives nobody else the thread. Running code (`Push`, `Pop`,
  `SwitchTo`, ...) is owed nothing.
- `Switching`: weak fairness of `Inside`, the steps of `g_switch()`, `g_initialstub()` and
  `inner_bootstrap()` that run with the GIL held. Nothing is assumed of Python code: a
  callback may never return. `SwitchReturns` accordingly says that control comes back to
  *some* Python code, and it holds because the parent setter refuses cycles.
- `Deallocation`: weak fairness of each thread's `CStep`. C code that holds the GIL keeps it until it runs Python code. What
  that code does, and whether it returns, is up to it.
- `ThreadCleanup`: weak fairness of the dying thread's destructor, of a drop in
  progress, and of the pending call and its loop, which CPython runs from the main
  thread's eval loop. Neither `Exit` nor `Finalize` is owed.

## What is proved

TLAPS checks the following for every number of greenlets and threads, every stack depth and
every bound, from the `ASSUME`s of the modules: the main greenlet of each thread
is a greenlet at home in that thread, no two threads share one, the null greenlet is none of them, `Top >= 2`,
garbage is not a frame, and the bounds and the number of slots are natural numbers.

**StackSlicing** (`StackSlicingProofs`): `TypeOK`, `ChainOfOwners`, `SaveHasOwner`,
`HeapOnlySuspended`, and `ChainInv`. None of the small ones is inductive. The chain is wrong in the middle
of a switch: the loop spills owners while `stack_prev` still names them, and the
target's own link is stale from its last run. `ChainInv` therefore describes each phase by
comparison with `chain`, the owners when the switch began: while saving, the owners
are the members of `chain` from the loop variable up (`SaveInv`); when the loop is over they are those
above the target, and nothing another greenlet needs lies below the target's `stack_stop` (`RestoreInv`);
the relink loop has not passed the first owner above the target (`RelinkInv`), so that the link it
stores makes the chain right again (`RunInv`). The case that makes the proof worth its
length is a dead current greenlet, whose null `stack_start` every place has to skip (`FirstOwner`).

**Switching** (`SwitchingProofs`): `TypeOK`, `RunsOnce`, `CurrentInThread`, `DirectInThread`,
`CurrentArgsClean`, `TracerFollows`, `StartedForGood`, and `ControlInv`. While `run` is looked up, anything may happen to
the greenlets concerned; the invariant says what survives. For every suspended
lookup (`LookUpOK`): the greenlet it waits in belongs to the thread that
called it; a dead greenlet it passed on its way still belongs to that thread; its
target is not the greenlet it waits in. A greenlet that is dead and current is in a search for a parent,
and the first of its suspended lookups belongs to that search (`FramesInv`, `CurrentInv`). Only
`g_switch()` between its call and its first move of arguments may leave arguments with a current greenlet,
and only with the one it was called on (`ArgsInv`); this is where `Retry` needs that the
target, which may have been started during the lookup, is not current anywhere. The
step lemmas are one per action; the failing actions share `FailIInv`. `StartedForGood` is an
action property and follows from the same invariant.
The trace function adds that only an active greenlet waits for one (`TraceInv`) and that the wait before `run()` is
the outermost one in its greenlet, which has not run yet; with this `RunsOnce` survives a tracer that raises, and `TracerFollows`
is inductive beside it.
`ValuesArrive` and `ArgsPending` are proved for `Callbacks = {}`, where no lookup of `run` calls Python code, and for one thread or several that do not
trace (`TracedAlone`). Without the first premise they are false (`received_once`, and `ArgsPending` under *Findings*). Without the second a
dying greenlet may wait for the trace function of another thread, which is called on its stack; if that function switches away, nobody ever comes back, and
the result is gone with the dead greenlet. Then a switch that is in progress
carries one value or one exception, not both and not none, and it lies in `switch_args` or in the thread (`CarriageInv`);
only a greenlet that has not been started keeps arguments that nobody is sending, from a start that was
refused. `AccountInv` counts: a value is in a call, before a trace function, received, or was replaced by an exception, each value in one of
these only.

**ThreadCleanup** (`ThreadCleanupProofs`): `TypeOK`, `DestroyedOnce`, `NoDanglingState`, `ParkedHasReaper`, `NothingStranded` and
`CleanupInv`. The code keeps the state of an exited thread alive by an argument about who can still reach it,
and the invariant is that argument. `StateInv`: the main greenlet points to the state exactly from its creation until its thread
unlinks it, and a state on the queue, or taken from it, is live, unlinked, and its thread is past the queue. `QueueInv`:
the queue has no duplicates, and nothing is parked on the state being destroyed. `DropInv`: a drop that has seen a
state holds the GIL, which the callback needs for taking one, so the two cannot overlap even though the thread exits
without the GIL in between. `NothingStranded` needs none of this: whoever finds the queue empty schedules the call
in the same critical section, and the callback goes on until the queue is empty.

**Deallocation** (`DeallocationProofs`): the types and `RefcountExact`, for as long as the search for a leaked main
greenlet drops only what is lost: `Spec /\ []LeaksAreLost => []RefcountExact`. The premise is not decoration. The search
guesses from `gc.get_referrers()` and may guess wrong (see *Findings*); the theorem says that nothing else in the code can make a count
wrong. The `deallocation` run checks the premise on its instance, and `RefcountExactWithoutCleanup` does without it
where optional cleanup is off. Two arguments meet in `RefInv`. The first is a count: `References` is a sum of cardinalities, and a
lemma for each term says what an assignment, a call, a return or a collection adds to it or takes from it. The second
says why the code may do what it does, and is needed because `rc` could otherwise be exact and still change under a greenlet
that is being freed. `Controlled` holds while there is no fault: a greenlet that is being
deallocated or freed has the count 0, one under construction does not exist yet, one that is being started does not run, and the
state being destroyed is of a thread that has exited (`CallOK`); no two calls in progress do the same of these to one greenlet
(`UniqueInv`); who is current is at home in its thread (`CurrentInv`) and in no other, and one thread at a time is in C code
(`OneInv`). That the collector never takes a running greenlet is an argument about counts again: the reference from the thread
is not among those that it sees (`VisitedIdle`).
A greenlet that is murdered while it runs (finding 5) loses calls in the middle, which `RefcountExact` excludes.

**Lives and threads in Deallocation** (`DeallocationLifeProofs`): `CurrentAlive`, `KilledInThread`, `ParkedForThread` and `SuspendedIntact`,
under the same premise. `SuspendedIntact` follows from `RefInv`: what assigns a home or a parent either has the greenlet's count at 0, or
collects it, which needs it to be dead or cut off. The others depend on each other and are proved together, as `LifeInv`. Whether a murder, a restart
or a deactivation may hit a greenlet depends on where that greenlet is listed, and what is on a list depends on who
may still be killed:
- `CareCalls`: a greenlet that a kill interrupts is on no list, neither parked nor being cleared, and while the kill can go on both are
  in one thread; a list is empty when its thread state is destroyed; `run()` is the outermost call.
- `ParkInv`: a greenlet is on one list at most, the list's thread state exists, and while its thread runs it is as it was when it was parked. Unless a weak
  reference can bring it back, nothing but the list refers to it, so that nobody can start or move it.
- `HomeInv`: whoever runs in a thread belongs to it, or has lost its home (finding 5's greenlets, before the fault).
- `IdleInv`: a greenlet that is not started, or dead and not current, has no calls; a kill cannot hide in one.
- `LeavingInv`: the outermost call of a dead greenlet that runs is a switch away from it. This is `CurrentAlive`: it leaves before it has nothing to do.

The proofs share one fact about steps (`Becomes`): a step adds calls at the end of the current greenlet's stack or replaces the last
of them, and other greenlets keep their calls or lose all of them. Most steps add only calls that neither kill, finish nor
destroy (`Tame`), and for these one lemma covers `CareCalls`; kill, murder, park, collect, exit and the jump to another greenlet are proved one by one.

**Parents in Deallocation** (the end of `DeallocationLifeProofs`): `OwnParent`, under the same premise. The parent that
`ParentIsCurrentGuard` puts back is one that it remembered before arbitrary code ran, so the invariant `OwnInv` says what each kill in progress remembers:
- `OwnCalls`: the greenlet that is killed has been started, and while its first run goes on, the kill remembers the parent that Python code gave
  it (or none), and the greenlet on whose stack the kill waits still has its thread.
- `RunsInv`: what is active has been started. With it a kill excludes greenlets with `runs` 0.
- `ParentInv`: a greenlet in its first run that nobody kills has the parent asked for, which is `OwnParent` without the assumption that it exists.

`OwnCalls` is why an abandoned kill does no harm: its stack is unwound, and the old parent forgotten, only if the
greenlet it waits on has lost its thread. By `KilledInThread` (a part of `LifeInv`) the killed one has then lost it too, and its first run is
over. So the proof shows of every step what becomes of kills (`KillsSame`: none is new, none disappears but on such a stack) beside
`LifeInv`, what parents become (`ParentsFollow`) and that no first run begins twice (`RunsGoOn`); only `Kill` and
`KillReturn`, which are not such steps, are proved by themselves. That a greenlet is not killed twice at a time is a count: a
deallocation has found 0 references, and a kill owns one.

`LivesWithoutCleanup` states the four invariants without the premise, where optional cleanup is off.

**InterpreterState** (`InterpreterStateProofs`): `TypeOK`, `ChunksOwned`, `FramesInChunks`,
`ExposedAreComplete`, `SavedIntoEmpty` and `InterpreterInv`. A value of the interpreter state is in the thread while its
greenlet runs and in the greenlet while it does not, so the invariant speaks of a greenlet's *effective* fields, wherever they are:
how its frames are linked, how deep it has recursed, which chunks of data stack it has. What makes it
inductive is that the current greenlet of a thread is at home there and has been started: a switch in one thread
then touches no greenlet that is current in another, and an assignment to `gr_context` goes into a
greenlet only when that greenlet is not running, which is what its missing top frame says. `ExposedAreComplete` needs that
`expose_frames()` and `unexpose_frames()` are inverse to each other, frame by frame.
A greenlet that is killed keeps its state for the next run, so that "unstarted" does not mean "blank". What is true is that the state of an
unstarted greenlet ends at the innermost frame of the killed run (`StateInv`), that the complete ones among its killed frames are linked around the entry
frames for good (`CalledFrom`), also when the next run exposes and unexposes them again, and that all of them stay in chunks of this
greenlet until `did_finish()` frees these at the end of the next run (`FramesInChunks`, `Freed`). The recursion depth counts only the frames of the last run
(`DepthInv`).

**Refinements.** `PrivateStacksProofs`: `Spec => PrivateStacksSpec`. To `ChainInv` it adds what the contents of the heap copies are:
frame by frame, what the abstract call stack holds is in the heap copy below `stack_start + stack_saved` and on the C stack above
it (`CopiesOK`). The iterations of the three loops leave every call stack as it is, `Resume` and
`EnterNew` are the switches that the abstract specification sees. `PrivateInterpreterProofs`: `Spec => PrivateInterpreterSpec`, from the invariant
of `InterpreterState`: `SwitchTo` and `Start` are the only actions that move the fields of two greenlets, and what the target
gets is what was saved into it. Whether a greenlet is suspended does not show in the state it is promised: by the invariant the links that
its frames have when it runs follow from which of them are complete and how many were killed (`RunLinks`).

## What is only model-checked

- The liveness properties; TLAPS does not prove `ENABLED` or fairness arguments.
- `LeaksAreLost`, the premise of the theorems about `Deallocation`, because it depends on whose frames refer to a main greenlet.

## Findings

Five statements of the documentation or comments do not hold; each is a run
that TLC refutes, and `PROJECT.json` quotes the line.

1. `received_once`: two switches that race for an unstarted greenlet exchange their arguments, and one
   value is delivered twice.
2. `in_thread`: `check_switch_allowed()` is applied to the greenlet that was named, not to the
   one that the walk over dead greenlets ends at, which another thread may have started. If it is suspended there, this thread
   enters a stack of the other one. (If it is current there, the arguments come back to the caller, as if the
   greenlet had been switched to; see `SwitchNowhere`.)
3. `switch_atomic`: `g_initialstub()` and `g_switchstack()` look the current greenlet up, which empties the `deleteme` list. A
   greenlet that another thread has parked since is killed there, and its handlers run after the target was
   checked. They may start it, finish it, or switch away.
4. `parent_cycle`: while a greenlet is killed its parent is another one than it will be, and the setter checks for cycles
   against that one; putting the old parent back may close a cycle, in which `g_switch()` then goes round for ever.
5. `murdered`: a greenlet that was parked by a thread now gone, had back through a weak reference and
   started again in a living thread, is deactivated there when the old list is destroyed at last.

Other statements that the modules refute, each without a run of its own; add the definition to the `.cfg` to see the behaviour:

- `ArgsPending` in `MCReceivedOnce.cfg`: a nested switch that fails during the lookup of `run` clears the
  arguments of the outer one; `g_switchstack()` asserts that there are some.
- `NeverOutOfParents` in `MCInThread.cfg`: the unstarted parent of a running greenlet may be moved to another thread; the
  running greenlet then dies without a parent that takes its result, which is a fatal error.
- `ValuesArrive` in `MCOtherThread.cfg`: a dying greenlet that waits for the trace function of another thread is left for good when this function
  switches away, and takes its result with it.
- `CallAddedBefore` in `MCThreadCleanup.cfg`: once `Py_AddPendingCall()` has failed, the queue is never empty
  again and nobody schedules another call.
- `FreshStart` in `MCInterpreterState.cfg`: a greenlet that was deactivated after its thread had exited, and is started again, begins on the frame and in the
  data stack of the run that was killed, not with null ones, as a comment in `did_finish()` supposes. From the code alone: `f_back` leads from
  the new frames to the killed ones; `expose_frames()` writes into the frame object of the innermost of those, which may have been
  freed; and when the new run ends, `did_finish()` frees the chunks while `current_frame` still points into them.
- `OnlyRunningRefused` in `MCInterpreterState.cfg`: `gr_context` of a greenlet that was suspended without a Python frame raises
  `ValueError`, and when its thread exits an assertion of `murder_in_place()` fails.
- `RefcountExact` and `LeaksAreLost` in `MCDeallocation.cfg`, if `m1` may hold `m2` in `Shared` and `m2` is in `Weak`: the search for a leaked main
  greenlet in `~ThreadState()` takes one reference too many for a leak when `gc.get_referrers()` finds no owner. A
  local variable in a running frame of another thread is such an owner (CPython 3.11 and later), and its reference is
  dropped under it. In the `deallocation` run only greenlets of `t2` refer to its main greenlet from their frames, so that what
  is not found is really lost.

Seen while modelling, from the code alone:

- `gr_context` set on a dying greenlet, from Python code that its parent's `run` lookup
  runs, is saved over by the next switch; with assertions `steal()` aborts. `SavedIntoEmpty` is stated for
  greenlets that have not died for this reason.
- A greenlet of a thread that has exited is deactivated when it is looked at and can then be
  started once more.
- A trace function that raises removes whichever trace function is installed by then, not itself; if it was called in another
  thread than its own (`SwitchNowhere`), that of the thread it raises in.

`ThreadCleanup` and `Switching` also state what does hold nearby: without Python code in lookups
no value is lost (`ValuesArrive`), a direct switch never leaves its thread
(`DirectInThread`), and unless a pending call could not be added every exited thread is cleaned up (`ExitedIsCleaned`).

## Not modelled, and why

- Values and exceptions in `Deallocation`, beyond that GreenletExit may be caught, handled or refused: `Finish` and `Switch` of the killed
  greenlet stand for all that its code can do.
- The garbage collector and weak references are CPython; what greenlet tells them is modelled. The time that the leak search may
  take, and its branch for bound methods of older CPythons, are left out.
- Deallocation while the interpreter finalizes: the branches on `IsShuttingDown()` are in `ThreadCleanup` only.
- The frames of a greenlet that is murdered, which leak as of CPython 3.13, appear as `lost` references.
- `tstate->tracing`, `gettrace()`, `set_thread_local()`, the functions for tests, pickling and copying.
- Of `TPythonState` the fields of other versions than 3.13, the trashcan and critical sections, and `tp_traverse()`.
- Entry frames that were themselves spilled when `expose_frames()` reads them; the free-threaded build, where the GIL does not serialise switches; `fork()`.
- The assembler of the platforms, beyond "moves the stack pointer and keeps the registers".

## Plan

In order of importance:

1. `expose_frames()` over partly spilled slices, composing `InterpreterState` with `StackSlicing`.
2. Values in `Deallocation`: which result is lost when a switch is entered in its middle.

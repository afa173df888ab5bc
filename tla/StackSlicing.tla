---------------------------- MODULE StackSlicing ----------------------------
(***************************************************************************)
(* The C stack of one thread, shared by its greenlets.                     *)
(*                                                                         *)
(* StackState (TStackState.cpp) keeps, for each greenlet, the slice of the *)
(* C stack that belongs to it and the part of that slice that was spilled  *)
(* to the heap.  A switch spills whatever the target needs to overwrite,   *)
(* moves the stack pointer, copies the target back and relinks it into the *)
(* chain of greenlets that own bytes of the C stack.                       *)
(*                                                                         *)
(* The stack grows downward.  Addresses 2..Top are its cells; 0 is nullptr,*)
(* 1 is the address that marks a running greenlet, and Top + 1 plays the   *)
(* largest address, stack_stop of the main greenlet.  A cell stands for the*)
(* bytes of one C frame.  The two loops of slp_save_state and              *)
(* slp_restore_state take one action per iteration; between them no other  *)
(* code of the thread runs, which pc enforces.                             *)
(***************************************************************************)
EXTENDS Integers, Sequences

CONSTANTS Greenlets,  \* the greenlets of this thread
          Main,       \* its main greenlet
          NoOne,      \* the null StackState pointer
          Top,        \* the highest address of the stack: bounds its depth
          Frames,     \* what a live cell may hold
          Garbage     \* what a cell below the stack pointer may have become

ASSUME MainAssumption == Main \in Greenlets /\ NoOne \notin Greenlets
ASSUME TopAssumption == Top \in Nat /\ Top >= 2
ASSUME GarbageAssumption == Garbage \notin Frames

VARIABLES
    stack,        \* the cells of the C stack
    sp,           \* the stack pointer: cells sp..Top are in use
    current,      \* ThreadState::current_greenlet
    stack_start, stack_stop, stack_copy, stack_saved, stack_prev,
    pc,           \* where slp_switch is: "run", "save", "restore", "relink" or "fatal"
    target,       \* the StackState being switched to
    owner,        \* the loop variable of both loops
    chain         \* auxiliary: who owned cells in place when the switch began

state == <<stack_start, stack_stop, stack_copy, stack_saved, stack_prev>>
switching == <<pc, target, owner, chain>>
vars == <<stack, sp, current, stack_start, stack_stop, stack_copy, stack_saved,
          stack_prev, pc, target, owner, chain>>

Null == 0
Running == 1
Infinity == Top + 1
Cells == 2..Top

Started(g) == stack_stop[g] # Null
Active(g) == stack_start[g] # Null

\* The lowest address of g's slice: a running greenlet's stack_start is
\* undefined, its slice begins at the stack pointer.
Low(g) == IF g = current /\ pc = "run" THEN sp ELSE stack_start[g]

\* The lowest address of g's slice that is still in the C stack.
InPlaceFrom(g) == Low(g) + stack_saved[g]

\* g owns cells of the C stack at their place.
InPlace(g) == Active(g) /\ InPlaceFrom(g) < stack_stop[g]

\* What g finds at address a when it runs: the heap copy below
\* InPlaceFrom(g), the C stack itself above.
At(g, a) == IF a < InPlaceFrom(g) THEN stack_copy[g][a - Low(g)] ELSE stack[a]

\* Mutant of FirstOwner: a dying greenlet is not skipped.
FirstOwnerUnskipped == current

\* The first owner of either loop: a dying greenlet is skipped.
FirstOwner == IF Active(current) THEN current ELSE stack_prev[current]

-----------------------------------------------------------------------------
Init ==
    /\ stack \in {[a \in Cells |-> IF a = Top THEN f ELSE Garbage] : f \in Frames}
    /\ sp = Top
    /\ current = Main
    /\ stack_start = [g \in Greenlets |-> IF g = Main THEN Running ELSE Null]
    /\ stack_stop = [g \in Greenlets |-> IF g = Main THEN Infinity ELSE Null]
    /\ stack_copy = [g \in Greenlets |-> <<>>]
    /\ stack_saved = [g \in Greenlets |-> 0]
    /\ stack_prev = [g \in Greenlets |-> NoOne]
    /\ pc = "run"
    /\ target = NoOne
    /\ owner = NoOne
    /\ chain = {}

\* The running code calls a function.
Push ==
    /\ pc = "run"
    /\ sp > 2
    /\ sp' = sp - 1
    /\ \E f \in Frames : stack' = [stack EXCEPT ![sp - 1] = f]
    /\ UNCHANGED <<current, state, switching>>

\* The running code returns from a function.  The outermost frame of a slice
\* is never left: inner_bootstrap() does not return.
Pop ==
    /\ pc = "run"
    /\ sp + 1 < stack_stop[current]
    /\ sp' = sp + 1
    /\ stack' = [stack EXCEPT ![sp] = Garbage]
    /\ UNCHANGED <<current, state, switching>>

\* copy_stack_to_heap() up to its first loop, with the stack pointer at ref.
BeginSave(g, ref) ==
    /\ target' = g
    /\ owner' = FirstOwner
    /\ stack_start' = IF Active(current) THEN [stack_start EXCEPT ![current] = ref]
                                         ELSE stack_start
    /\ chain' = {h \in Greenlets : InPlace(h)}
    /\ pc' = "save"

\* g_switchstack() to a suspended greenlet.
SwitchTo(g) ==
    /\ pc = "run"
    /\ Active(g)
    /\ g # current
    /\ BeginSave(g, sp)
    /\ UNCHANGED <<stack, sp, current, stack_stop, stack_copy, stack_saved, stack_prev>>

\* Mutant of InitialStub: the StackState constructor links to a dying greenlet.
InitialStubAnyCurrent(g) ==
    /\ pc = "run"
    /\ ~Started(g)
    /\ sp > 2
    /\ sp' = sp - 1
    /\ \E f \in Frames : stack' = [stack EXCEPT ![sp - 1] = f]
    /\ stack_stop' = [stack_stop EXCEPT ![g] = sp]
    /\ stack_prev' = [stack_prev EXCEPT ![g] = current]
    /\ BeginSave(g, sp - 1)
    /\ UNCHANGED <<current, stack_copy, stack_saved>>

\* g_initialstub(): a new slice below the mark, and the frame of the stub,
\* which the new greenlet and the one that starts it both go on with.
InitialStub(g) ==
    /\ pc = "run"
    /\ ~Started(g)
    /\ sp > 2
    /\ sp' = sp - 1
    /\ \E f \in Frames : stack' = [stack EXCEPT ![sp - 1] = f]
    /\ stack_stop' = [stack_stop EXCEPT ![g] = sp]
    /\ stack_prev' = [stack_prev EXCEPT ![g] = FirstOwner]
    /\ BeginSave(g, sp - 1)
    /\ UNCHANGED <<current, stack_copy, stack_saved>>

\* copy_stack_to_heap_up_to(stop) on g has to enlarge the heap copy.
Spills(g, stop) == stop - stack_start[g] > stack_saved[g]

\* copy_stack_to_heap_up_to(stop) on g, when memory can be had.
SaveUpTo(g, stop) ==
    IF Spills(g, stop)
    THEN /\ stack_copy' = [stack_copy EXCEPT ![g] =
                [i \in 0..(stop - stack_start[g] - 1) |->
                    IF i < stack_saved[g] THEN stack_copy[g][i]
                                          ELSE stack[stack_start[g] + i]]]
         /\ stack_saved' = [stack_saved EXCEPT ![g] = stop - stack_start[g]]
    ELSE UNCHANGED <<stack_copy, stack_saved>>

\* One iteration of the loop in copy_stack_to_heap().
SaveWhole ==
    /\ pc = "save"
    /\ stack_stop[owner] < stack_stop[target]
    /\ SaveUpTo(owner, stack_stop[owner])
    /\ owner' = stack_prev[owner]
    /\ UNCHANGED <<stack, sp, current, stack_start, stack_stop, stack_prev, pc, target, chain>>

\* Mutant of SavePart: the part above the loop's last owner is forgotten.
SavePartForgotten == UNCHANGED <<stack_copy, stack_saved>>

\* After the loop: the owner that straddles the target's stack_stop.
SavePart ==
    IF owner # target THEN SaveUpTo(owner, stack_stop[target])
                      ELSE UNCHANGED <<stack_copy, stack_saved>>

\* slp_switch() returns 1 on the stack it was called on: the new greenlet
\* runs, and inner_bootstrap() makes it active.
EnterNew ==
    /\ pc = "save"
    /\ stack_stop[owner] >= stack_stop[target]
    /\ ~Active(target)
    /\ SavePart
    /\ stack_start' = [stack_start EXCEPT ![target] = Running]
    /\ current' = target
    /\ pc' = "run"
    /\ target' = NoOne
    /\ owner' = NoOne
    /\ chain' = {}
    /\ UNCHANGED <<stack, sp, stack_stop, stack_prev>>

\* The last save of an active target.  slp_switch() then moves the stack
\* pointer, after which nothing below it can be relied upon.
SaveLast ==
    /\ pc = "save"
    /\ stack_stop[owner] >= stack_stop[target]
    /\ Active(target)
    /\ SavePart
    /\ pc' = "restore"
    /\ UNCHANGED <<stack, sp, current, stack_start, stack_stop, stack_prev, target, owner, chain>>

\* What the C stack holds once g is copied back and sp has moved to it.
CopiedBack(g) ==
    [a \in Cells |->
        IF a < stack_start[g] THEN Garbage
        ELSE IF a < InPlaceFrom(g) THEN stack_copy[g][a - stack_start[g]]
        ELSE stack[a]]

\* A mutant of FreeStackCopy: the count is not reset.
FreeCopyOnly(g) ==
    /\ stack_copy' = [stack_copy EXCEPT ![g] = <<>>]
    /\ UNCHANGED stack_saved

\* free_stack_copy().
FreeStackCopy(g) ==
    /\ stack_copy' = [stack_copy EXCEPT ![g] = <<>>]
    /\ stack_saved' = [stack_saved EXCEPT ![g] = 0]

\* copy_heap_to_stack() up to its loop.
Restore ==
    /\ pc = "restore"
    /\ sp' = stack_start[target]
    /\ stack' = CopiedBack(target)
    /\ FreeStackCopy(target)
    /\ owner' = FirstOwner
    /\ pc' = "relink"
    /\ UNCHANGED <<current, stack_start, stack_stop, stack_prev, target, chain>>

\* o is below what lies above the target, or is the target.
Passed(o) == stack_stop[o] <= stack_stop[target]

\* Mutant of Relink: the loop does not step over the target itself.
RelinkNotOver ==
    /\ pc = "relink"
    /\ owner # NoOne
    /\ Passed(owner)
    /\ owner' = IF owner = target THEN owner ELSE stack_prev[owner]
    /\ UNCHANGED <<stack, sp, current, state, pc, target, chain>>

\* One iteration of the loop in copy_heap_to_stack().
Relink ==
    /\ pc = "relink"
    /\ owner # NoOne
    /\ Passed(owner)
    /\ owner' = stack_prev[owner]
    /\ UNCHANGED <<stack, sp, current, state, pc, target, chain>>

\* The loop ends; g_switchstack_success() makes the target current.
Resume ==
    /\ pc = "relink"
    /\ owner # NoOne => ~Passed(owner)
    /\ stack_prev' = [stack_prev EXCEPT ![target] = owner]
    /\ current' = target
    /\ pc' = "run"
    /\ target' = NoOne
    /\ owner' = NoOne
    /\ chain' = {}
    /\ UNCHANGED <<stack, sp, stack_start, stack_stop, stack_copy, stack_saved>>

\* PyMem_Realloc() fails while saving: slp_switch() returns -1 and
\* g_switchstack() calls Py_FatalError().
OutOfMemory ==
    /\ pc = "save"
    /\ \/ stack_stop[owner] < stack_stop[target] /\ Spills(owner, stack_stop[owner])
       \/ /\ stack_stop[owner] >= stack_stop[target]
          /\ owner # target
          /\ Spills(owner, stack_stop[target])
    /\ pc' = "fatal"
    /\ UNCHANGED <<stack, sp, current, state, target, owner, chain>>

\* set_inactive() at the end of inner_bootstrap().  The dying greenlet stays
\* current until it has found a parent to switch to, and may run Python code
\* on the way.
Die ==
    /\ pc = "run"
    /\ current # Main
    /\ Active(current)
    /\ stack_start' = [stack_start EXCEPT ![current] = Null]
    /\ FreeStackCopy(current)
    /\ UNCHANGED <<stack, sp, current, stack_stop, stack_prev, switching>>

\* A finished greenlet is deallocated and its memory reused for a new one.
Recycle(g) ==
    /\ pc = "run"
    /\ g # current
    /\ Started(g)
    /\ ~Active(g)
    /\ stack_stop' = [stack_stop EXCEPT ![g] = Null]
    /\ stack_prev' = [stack_prev EXCEPT ![g] = NoOne]
    /\ UNCHANGED <<stack, sp, current, stack_start, stack_copy, stack_saved, switching>>

\* Py_FatalError() does not return.
Aborted == pc = "fatal" /\ UNCHANGED vars

SlpSwitch == SaveWhole \/ EnterNew \/ SaveLast \/ Restore \/ Relink \/ Resume

Next ==
    \/ Push \/ Pop \/ Die
    \/ \E g \in Greenlets : SwitchTo(g) \/ InitialStub(g) \/ Recycle(g)
    \/ SlpSwitch
    \/ OutOfMemory \/ Aborted

Spec == Init /\ [][Next]_vars

\* slp_switch() is straight C code: once begun it goes on.
FairSpec == Spec /\ WF_vars(SlpSwitch)

-----------------------------------------------------------------------------
(* Properties *)

FieldsOK ==
    /\ sp \in Cells
    /\ current \in Greenlets
    /\ stack_start \in [Greenlets -> 0..Top]
    /\ stack_stop \in [Greenlets -> 0..Infinity]
    /\ stack_saved \in [Greenlets -> Nat]
    /\ stack_prev \in [Greenlets -> Greenlets \cup {NoOne}]
    /\ pc \in {"run", "save", "restore", "relink", "fatal"}
    /\ target \in Greenlets \cup {NoOne}
    /\ owner \in Greenlets \cup {NoOne}
    /\ chain \in SUBSET Greenlets

Contents == Frames \cup {Garbage}

\* Every heap copy has the stack_saved cells it is said to have.
TypeOK ==
    /\ FieldsOK
    /\ stack \in [Cells -> Contents]
    /\ DOMAIN stack_copy = Greenlets
    /\ \A g \in Greenlets : stack_copy[g] \in [0..(stack_saved[g] - 1) -> Contents]

\* The greenlets that own cells of the C stack.
Owners == {g \in Greenlets : InPlace(g)}

\* g owns the cells just above the stack_stop of h.
NextAbove(h, g) ==
    /\ g \in Owners
    /\ stack_stop[g] > stack_stop[h]
    /\ \A r \in Owners : stack_stop[r] > stack_stop[h] => stack_stop[r] >= stack_stop[g]

\* The layout that the comment in greenlet.cpp draws, whenever Python code
\* runs: each greenlet of the chain points to the one that owns the cells
\* above its stack_stop, the chain ends in main, and the slices in the C
\* stack do not overlap each other or the running (or dying) code.
ChainOfOwners ==
    pc = "run" =>
        /\ \A h \in Owners \cup {current} :
              IF h = Main THEN stack_prev[h] = NoOne ELSE NextAbove(h, stack_prev[h])
        /\ \A h \in Owners \cup {current}, r \in Owners :
              h # r => \/ stack_stop[h] <= InPlaceFrom(r)
                      \/ stack_stop[r] <= InPlaceFrom(h)

\* The loop of copy_stack_to_heap() never runs off the chain, nor onto a
\* greenlet that has no stack to save: assert(this->_stack_start).
SaveHasOwner == pc = "save" => owner # NoOne /\ Active(owner)

\* Running code has nothing in the heap (assert(owner->_stack_saved == 0)),
\* and no heap copy outlives the greenlet it belongs to.
HeapOnlySuspended ==
    pc = "run" => \A g \in Greenlets :
        stack_saved[g] > 0 => Active(g) /\ g # current

-----------------------------------------------------------------------------
(* The inductive invariant behind ChainOfOwners and SaveHasOwner. *)

\* The fields of each StackState fit together.
Slices ==
    /\ Active(Main) /\ stack_stop[Main] = Infinity
    /\ Started(current)
    /\ \A g \in Greenlets :
          /\ Started(g) => stack_stop[g] > 2
          /\ g # Main => stack_stop[g] <= Top
          /\ Active(g) => Started(g)
          /\ ~Active(g) => stack_saved[g] = 0
          /\ Active(g) /\ ~(g = current /\ pc = "run") =>
                /\ stack_start[g] > 1
                /\ stack_start[g] < stack_stop[g]
                /\ InPlaceFrom(g) <= stack_stop[g]

\* Following stack_prev visits every greenlet of S in the order of stack_stop.
Linked(S) ==
    \A h \in S :
        \/ h = Main /\ stack_prev[h] = NoOne
        \/ /\ h # Main
           /\ stack_prev[h] \in S
           /\ stack_stop[h] < stack_stop[stack_prev[h]]
           /\ \A r \in S : stack_stop[h] < stack_stop[r] =>
                              stack_stop[stack_prev[h]] <= stack_stop[r]

\* g is the lowest greenlet of S.
Lowest(S, g) == g \in S /\ \A r \in S : stack_stop[g] <= stack_stop[r]

\* What two owners have in place does not overlap.
Stacked ==
    \A h, r \in Owners : h # r =>
        /\ stack_stop[h] # stack_stop[r]
        /\ stack_stop[h] < stack_stop[r] => stack_stop[h] <= InPlaceFrom(r)

RunInv ==
    /\ stack_saved[current] = 0
    /\ sp < stack_stop[current]
    /\ Main \in Owners
    /\ Linked(Owners)
    /\ \A r \in Owners \ {current} : stack_stop[current] <= InPlaceFrom(r)
    /\ \/ current = Main /\ stack_prev[current] = NoOne
       \/ current # Main /\ Lowest(Owners \ {current}, stack_prev[current])

\* What holds of the chain from the moment a switch begins until it ends.
SwitchInv ==
    /\ target \in Greenlets /\ target # current /\ Started(target)
    /\ Main \in chain
    /\ Linked(chain)
    /\ Lowest(chain, FirstOwner)
    /\ \A h \in chain : Active(h)
    /\ \A h, r \in chain : h # r => stack_stop[h] # stack_stop[r]

\* The loop of copy_stack_to_heap() has spilled everything below owner.
SaveInv ==
    /\ owner \in chain
    /\ Owners = {h \in chain : stack_stop[owner] <= stack_stop[h]}
    /\ \A h \in chain : stack_stop[h] < stack_stop[owner] => stack_stop[h] < stack_stop[target]
    /\ Active(current) => stack_start[current] = sp
    /\ ~Active(target) => /\ owner = FirstOwner
                          /\ stack_prev[target] = FirstOwner
                          /\ stack_stop[target] < stack_stop[FirstOwner]
                          /\ stack_stop[target] = sp + 1

\* Nothing that another greenlet needs is below the target's stack_stop.
RestoreInv ==
    /\ Active(target)
    /\ Owners \ {target} = {h \in chain : stack_stop[target] < stack_stop[h]}
    /\ \A r \in Owners \ {target} : stack_stop[target] <= InPlaceFrom(r)

\* The loop of copy_heap_to_stack() has not passed the one it looks for.
RelinkInv ==
    /\ sp = stack_start[target]
    /\ sp < stack_stop[target]
    /\ stack_saved[target] = 0
    /\ owner \in chain \cup {NoOne}
    /\ \A r \in chain : stack_stop[target] < stack_stop[r] =>
                           owner # NoOne /\ stack_stop[owner] <= stack_stop[r]

ChainInv ==
    /\ Slices
    /\ Stacked
    /\ pc = "run" => RunInv
    /\ pc \in {"save", "restore", "relink"} => SwitchInv
    /\ pc = "save" => SaveInv
    /\ pc \in {"restore", "relink"} => RestoreInv
    /\ pc = "relink" => RelinkInv

-----------------------------------------------------------------------------
\* What g finds on its stack when it runs, outermost frame first.
FramesOf(g) ==
    IF Active(g)
    THEN [i \in 1..(stack_stop[g] - Low(g)) |-> At(g, stack_stop[g] - i)]
    ELSE <<>>

LifeOf(g) ==
    IF Active(g) THEN "live"
    ELSE IF Started(g) /\ g # target THEN "dead"
    ELSE "new"

\* The slices, wherever their bytes are, behave as private stacks: a greenlet
\* that is resumed finds its frames as it left them.
Private == INSTANCE PrivateStacks WITH
    frames <- [g \in Greenlets |-> FramesOf(g)],
    life <- [g \in Greenlets |-> LifeOf(g)],
    running <- current

PrivateStacksSpec == Private!AbsSpec

\* A switch that has begun ends: both loops over the chain terminate.
SwitchCompletes == pc = "save" ~> pc \in {"run", "fatal"}
=============================================================================

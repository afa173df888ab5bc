------------------------ MODULE PrivateStacksProofs ------------------------
(***************************************************************************)
(* StackSlicing implements PrivateStacks: for any greenlets, any depth of  *)
(* the stack and any frames, a greenlet that is resumed finds the call     *)
(* stack that it left.                                                     *)
(*                                                                         *)
(* IInv of StackSlicingProofs says whose each cell of the C stack is, and  *)
(* CopiesOK how long the heap copies are.  Starting adds what a first      *)
(* switch keeps until the new greenlet runs: the frame that it was begun   *)
(* in.  Every iteration of the two loops leaves all call stacks as they    *)
(* are; the last step of a switch is the one that passes control.          *)
(***************************************************************************)
EXTENDS StackSlicingProofs, SequenceTheorems

\* While the target of a switch is not active, the stub's frame is in place, and so is
\* the whole slice of the greenlet that switches.
Starting ==
    /\ pc = "run" => target = NoOne
    /\ pc = "save" /\ ~Active(target) =>
          stack[sp] \in Frames /\ (Active(current) => stack_saved[current] = 0)

SlicingInv == IInv /\ CopiesOK /\ Starting

LEMMA InitStarting == Init => Starting
  BY DEF Init, Starting

LEMMA NextStarting ==
  ASSUME IInv, IInv', CopiesOK, Starting, [Next]_vars
  PROVE  Starting'
  <1>1. CASE Push \/ Pop \/ Die
    BY <1>1 DEF Push, Pop, Die, Starting, switching
  <1>2. ASSUME NEW g \in Greenlets, SwitchTo(g)
        PROVE  Starting'
    <2>1. pc' = "save" /\ target' = g /\ Active(g) /\ g # current
      BY <1>2 DEF SwitchTo, BeginSave
    <2>2. Active(g)'
      BY <1>2, <2>1 DEF SwitchTo, BeginSave, Active, IInv, FieldsOK
    <2> QED
      BY <2>1, <2>2 DEF Starting
  <1>3. ASSUME NEW g \in Greenlets, InitialStub(g)
        PROVE  Starting'
    <2>1. pc = "run" /\ pc' = "save" /\ sp > 2 /\ sp' = sp - 1 /\ UNCHANGED <<current, stack_saved>>
      BY <1>3 DEF InitialStub, BeginSave
    <2>2. stack'[sp'] \in Frames
      <3>1. PICK f \in Frames : stack' = [stack EXCEPT ![sp - 1] = f]
        BY <1>3 DEF InitialStub
      <3>2. sp - 1 \in Cells
        BY <2>1 DEF IInv, FieldsOK, Cells
      <3> QED
        BY <2>1, <3>1, <3>2 DEF CopiesOK
    <2>3. stack_saved'[current'] = 0
      BY <2>1 DEF IInv, ChainInv, RunInv
    <2> QED
      BY <2>1, <2>2, <2>3 DEF Starting
  <1>4. ASSUME NEW g \in Greenlets, Recycle(g)
        PROVE  Starting'
    BY <1>4 DEF Recycle, Starting, switching
  <1>5. CASE SaveWhole
    <2>1. pc = "save" /\ pc' = "save" /\ target' = target /\ stack_start' = stack_start
      BY <1>5 DEF SaveWhole
    <2>2. Active(target)
      <3>1. stack_stop[owner] < stack_stop[target]
        BY <1>5 DEF SaveWhole
      <3>2. ~Active(target) => owner = FirstOwner /\ stack_stop[target] < stack_stop[FirstOwner]
        BY <2>1 DEF IInv, ChainInv, SaveInv
      <3>3. owner \in Greenlets /\ target \in Greenlets
        BY <2>1 DEF IInv, FieldsOK, ChainInv, SaveInv, SwitchInv
      <3>4. stack_stop[owner] \in Int /\ stack_stop[target] \in Int
        BY <3>3, TopAssumption DEF IInv, FieldsOK, Infinity
      <3> QED
        BY <3>1, <3>2, <3>4
    <2>3. Active(target)'
      BY <2>1, <2>2 DEF Active
    <2> QED
      BY <2>1, <2>3 DEF Starting
  <1>6. CASE EnterNew \/ Resume
    BY <1>6 DEF EnterNew, Resume, Starting
  <1>7. CASE SaveLast \/ Restore \/ Relink \/ OutOfMemory
    BY <1>7 DEF SaveLast, Restore, Relink, OutOfMemory, Starting
  <1>8. CASE Aborted \/ UNCHANGED vars
    <2>1. UNCHANGED <<stack, sp, current, stack_start, stack_saved, pc, target>>
      BY <1>8 DEF Aborted, vars
    <2> QED
      BY <2>1 DEF Starting, Active
  <1> QED
    BY <1>1, <1>2, <1>3, <1>4, <1>5, <1>6, <1>7, <1>8 DEF Next, SlpSwitch

LEMMA SlicingInvAlways == Spec => []SlicingInv
  <1>1. Init => SlicingInv
    BY InitIInv, InitCopies, InitStarting DEF SlicingInv
  <1>2. SlicingInv /\ [Next]_vars => SlicingInv'
    <2> SUFFICES ASSUME SlicingInv, [Next]_vars PROVE SlicingInv'
      OBVIOUS
    <2>1. IInv'
      BY NextIInv DEF SlicingInv
    <2> QED
      BY <2>1, NextCopies, NextStarting DEF SlicingInv
  <1> QED
    BY <1>1, <1>2, PTL DEF Spec

-----------------------------------------------------------------------------
(* Call stacks *)

AbsFrames == [g \in Greenlets |-> FramesOf(g)]
AbsLife == [g \in Greenlets |-> LifeOf(g)]

\* The bounds of each slice
LEMMA SliceBounds ==
  ASSUME IInv, NEW g \in Greenlets, Active(g)
  PROVE  /\ Low(g) \in Cells /\ stack_stop[g] \in 0..Infinity /\ Low(g) < stack_stop[g]
         /\ stack_saved[g] \in Nat
         /\ InPlaceFrom(g) \in Int /\ Low(g) <= InPlaceFrom(g) /\ InPlaceFrom(g) <= stack_stop[g]
  <1> USE TopAssumption DEF Cells, Infinity
  <1>1. stack_start[g] \in 0..Top /\ stack_stop[g] \in 0..Infinity /\ stack_saved[g] \in Nat /\ sp \in Cells
    BY DEF IInv, FieldsOK
  <1>2. CASE g = current /\ pc = "run"
    <2>1. Low(g) = sp /\ stack_saved[g] = 0 /\ sp < stack_stop[g]
      BY <1>2 DEF Low, IInv, ChainInv, RunInv
    <2> QED
      BY <1>1, <2>1 DEF InPlaceFrom
  <1>3. CASE ~(g = current /\ pc = "run")
    <2>1. Low(g) = stack_start[g]
      BY <1>3 DEF Low
    <2>2. stack_start[g] > 1 /\ stack_start[g] < stack_stop[g] /\ InPlaceFrom(g) <= stack_stop[g]
      BY <1>3 DEF IInv, ChainInv, Slices
    <2> QED
      BY <1>1, <2>1, <2>2 DEF InPlaceFrom
  <1> QED
    BY <1>2, <1>3

\* A greenlet whose slice keeps its bounds and its contents keeps its call stack.
SameSlice(g) ==
    /\ Active(g)' <=> Active(g)
    /\ Active(g) => /\ stack_stop'[g] = stack_stop[g] /\ Low(g)' = Low(g)
                    /\ \A a \in Low(g)..(stack_stop[g] - 1) : At(g, a)' = At(g, a)

LEMMA SameFrames ==
  ASSUME IInv, NEW g \in Greenlets, SameSlice(g)
  PROVE  FramesOf(g)' = FramesOf(g)
  <1>1. CASE ~Active(g)
    BY <1>1 DEF FramesOf, SameSlice
  <1>2. CASE Active(g)
    <2>1. Low(g) \in Int /\ stack_stop[g] \in Int
      BY <1>2, SliceBounds, TopAssumption DEF Cells, Infinity
    <2>2. stack_stop'[g] = stack_stop[g] /\ Low(g)' = Low(g) /\ Active(g)'
      BY <1>2 DEF SameSlice
    <2>3. ASSUME NEW i \in 1..(stack_stop[g] - Low(g))
          PROVE  At(g, stack_stop[g] - i)' = At(g, stack_stop[g] - i)
      <3>1. PICK a : a = stack_stop[g] - i
        OBVIOUS
      <3>2. a \in Low(g)..(stack_stop[g] - 1)
        BY <2>1, <3>1
      <3>3. At(g, a)' = At(g, a)
        BY <1>2, <3>2 DEF SameSlice
      <3> QED
        BY <2>2, <3>1, <3>3 DEF At
    <2> QED
      BY <1>2, <2>2, <2>3 DEF FramesOf
  <1> QED
    BY <1>1, <1>2

LEMMA StutterPrivate ==
  ASSUME IInv, current' = current, \A h \in Greenlets : SameSlice(h),
         \A h \in Greenlets : LifeOf(h)' = LifeOf(h)
  PROVE  UNCHANGED Private!absVars
  <1>1. AbsFrames' = AbsFrames
    BY SameFrames DEF AbsFrames
  <1>2. AbsLife' = AbsLife
    BY DEF AbsLife
  <1> QED
    BY <1>1, <1>2 DEF Private!absVars, AbsFrames, AbsLife

\* A slice whose heap copy and cells in place are left alone
LEMMA UntouchedSlice ==
  ASSUME IInv, NEW h \in Greenlets,
         stack_start'[h] = stack_start[h], stack_stop'[h] = stack_stop[h],
         stack_copy'[h] = stack_copy[h], stack_saved'[h] = stack_saved[h],
         Active(h) => /\ Low(h)' = Low(h)
                      /\ \A a \in InPlaceFrom(h)..(stack_stop[h] - 1) : stack'[a] = stack[a]
  PROVE  SameSlice(h)
  <1>1. Active(h)' <=> Active(h)
    BY DEF Active
  <1>2. ASSUME Active(h) PROVE \A a \in Low(h)..(stack_stop[h] - 1) : At(h, a)' = At(h, a)
    <2>1. InPlaceFrom(h)' = InPlaceFrom(h)
      BY <1>2 DEF InPlaceFrom
    <2> SUFFICES ASSUME NEW a \in Low(h)..(stack_stop[h] - 1) PROVE At(h, a)' = At(h, a)
      OBVIOUS
    <2>2. InPlaceFrom(h) \in Int /\ stack_stop[h] \in Int /\ Low(h) \in Int
      BY <1>2, SliceBounds, TopAssumption DEF Cells, Infinity
    <2>3. ~(a < InPlaceFrom(h)) => a \in InPlaceFrom(h)..(stack_stop[h] - 1)
      BY <2>2
    <2> QED
      BY <1>2, <2>1, <2>3 DEF At
  <1> QED
    BY <1>1, <1>2 DEF SameSlice

\* Spilling cells of g to the heap changes where they are, not what they are.
LEMMA SaveUpToSlices ==
  ASSUME SlicingInv, NEW g \in Greenlets, pc = "save", Active(g), NEW stop \in Int,
         stop <= stack_stop[g], SaveUpTo(g, stop), UNCHANGED <<stack, stack_stop>>,
         NEW h \in Greenlets, stack_start'[h] = stack_start[h], Low(h)' = Low(h)
  PROVE  SameSlice(h)
  <1> USE DEF SlicingInv
  <1>1. CASE h # g
    <2>1. stack_copy'[h] = stack_copy[h] /\ stack_saved'[h] = stack_saved[h]
      BY <1>1 DEF SaveUpTo, CopiesOK, IInv, FieldsOK
    <2> QED
      BY <2>1, UntouchedSlice
  <1>2. CASE h = g /\ ~Spills(g, stop)
    <2>1. stack_copy'[h] = stack_copy[h] /\ stack_saved'[h] = stack_saved[h]
      BY <1>2 DEF SaveUpTo
    <2> QED
      BY <2>1, UntouchedSlice
  <1>3. CASE h = g /\ Spills(g, stop)
    <2>1. PICK n : n = stop - stack_start[g]
      OBVIOUS
    <2>2. /\ stack_copy'[g] = [i \in 0..(n - 1) |-> IF i < stack_saved[g] THEN stack_copy[g][i]
                                                   ELSE stack[stack_start[g] + i]]
          /\ stack_saved'[g] = n
      BY <1>3, <2>1 DEF SaveUpTo, CopiesOK, IInv, FieldsOK
    <2>3. /\ Low(g) = stack_start[g] /\ Low(g) \in Cells /\ stack_stop[g] \in 0..Infinity
          /\ stack_saved[g] \in Nat /\ n > stack_saved[g]
      BY <1>3, <2>1, SliceBounds DEF Low, Spills
    <2>4. PICK low \in Int : low = Low(g)
      BY <2>3, TopAssumption DEF Cells
    <2>5. InPlaceFrom(g) = low + stack_saved[g] /\ InPlaceFrom(g)' = low + n /\ low + n = stop
      BY <1>3, <2>1, <2>2, <2>3, <2>4 DEF InPlaceFrom
    <2>6. ASSUME NEW a \in low..(stack_stop[g] - 1) PROVE At(g, a)' = At(g, a)
      <3>1. PICK i \in Int : i = a - low
        BY <2>4
      <3>2. At(g, a)' = IF a < low + n THEN stack_copy'[g][i] ELSE stack[a]
        BY <1>3, <2>4, <2>5, <3>1 DEF At
      <3>3. At(g, a) = IF a < low + stack_saved[g] THEN stack_copy[g][i] ELSE stack[a]
        BY <2>4, <2>5, <3>1 DEF At
      <3>4. stack_stop[g] \in Int /\ n \in Int /\ stack_saved[g] \in Int
        BY <2>1, <2>3, <2>4, TopAssumption DEF Infinity
      <3>5. CASE a < low + n
        <4>1. i \in 0..(n - 1) /\ (i < stack_saved[g] <=> a < low + stack_saved[g])
          BY <2>4, <3>1, <3>4, <3>5
        <4>2. stack_copy'[g][i] = IF i < stack_saved[g] THEN stack_copy[g][i] ELSE stack[low + i]
          BY <2>2, <2>3, <2>4, <4>1
        <4>3. low + i = a
          BY <2>4, <3>1
        <4> QED
          BY <3>2, <3>3, <3>5, <4>1, <4>2, <4>3
      <3>6. CASE ~(a < low + n)
        <4>1. ~(a < low + stack_saved[g])
          BY <2>3, <2>4, <3>4, <3>6
        <4> QED
          BY <3>2, <3>3, <3>6, <4>1
      <3> QED
        BY <3>5, <3>6
    <2>7. Active(g)' <=> Active(g)
      BY <1>3 DEF Active
    <2> QED
      BY <1>3, <2>4, <2>6, <2>7 DEF SameSlice
  <1> QED
    BY <1>1, <1>2, <1>3

-----------------------------------------------------------------------------
(* The steps that no greenlet notices *)

LEMMA SwitchToPrivate ==
  ASSUME SlicingInv, NEW g \in Greenlets, SwitchTo(g)
  PROVE  UNCHANGED Private!absVars
  <1> USE DEF SlicingInv
  <1>1. /\ pc = "run" /\ Active(g) /\ g # current /\ target' = g /\ pc' = "save" /\ target = NoOne
        /\ stack_start' = IF Active(current) THEN [stack_start EXCEPT ![current] = sp] ELSE stack_start
        /\ UNCHANGED <<stack, sp, current, stack_stop, stack_copy, stack_saved>>
    BY DEF SwitchTo, BeginSave, Starting
  <1>2. sp # 0 /\ current \in Greenlets /\ stack_start \in [Greenlets -> 0..Top]
    BY DEF IInv, FieldsOK, Cells
  <1>3. ASSUME NEW h \in Greenlets
        PROVE  (Active(h)' <=> Active(h)) /\ (Active(h) => Low(h)' = Low(h))
    BY <1>1, <1>2 DEF Active, Low, Null
  <1>4. ASSUME NEW h \in Greenlets PROVE SameSlice(h)
    <2>1. CASE Active(h)
      <3>1. InPlaceFrom(h)' = InPlaceFrom(h)
        BY <1>1, <1>3, <2>1 DEF InPlaceFrom
      <3> QED
        BY <1>1, <1>3, <2>1, <3>1 DEF SameSlice, At
    <2>2. CASE ~Active(h)
      BY <1>3, <2>2 DEF SameSlice
    <2> QED
      BY <2>1, <2>2
  <1>5. ASSUME NEW h \in Greenlets PROVE LifeOf(h)' = LifeOf(h)
    <2>1. h # NoOne
      BY MainAssumption
    <2>2. Started(h)' <=> Started(h)
      BY <1>1 DEF Started
    <2> QED
      BY <1>1, <1>3, <2>1, <2>2 DEF LifeOf
  <1> QED
    BY <1>1, <1>4, <1>5, StutterPrivate

\* The saves before the last one, and the last one of an active target.
LEMMA SavePrivate ==
  ASSUME SlicingInv, SaveWhole \/ SaveLast
  PROVE  UNCHANGED Private!absVars
  <1> USE DEF SlicingInv
  <1>1. /\ pc = "save" /\ pc' \in {"save", "restore"}
        /\ UNCHANGED <<stack, sp, current, stack_start, stack_stop, target>>
    BY DEF SaveWhole, SaveLast
  <1>2. owner \in Greenlets /\ Active(owner) /\ target \in Greenlets
    BY <1>1 DEF IInv, FieldsOK, ChainInv, SaveInv, SwitchInv
  <1>3. \A h \in Greenlets : Low(h)' = Low(h) /\ LifeOf(h)' = LifeOf(h)
    BY <1>1 DEF Low, LifeOf, Active, Started
  <1>4. \A h \in Greenlets : stack_stop[h] \in Int
    BY TopAssumption DEF IInv, FieldsOK, Infinity
  <1>5. ASSUME NEW h \in Greenlets PROVE SameSlice(h)
    <2>1. CASE SaveWhole
      <3>1. SaveUpTo(owner, stack_stop[owner])
        BY <2>1 DEF SaveWhole
      <3> QED
        BY <1>1, <1>2, <1>3, <1>4, <3>1, SaveUpToSlices
    <2>2. CASE SaveLast
      <3>1. SavePart /\ stack_stop[target] <= stack_stop[owner]
        BY <1>2, <1>4, <2>2 DEF SaveLast
      <3>2. CASE owner # target
        <4>1. SaveUpTo(owner, stack_stop[target])
          BY <3>1, <3>2 DEF SavePart
        <4> QED
          BY <1>1, <1>2, <1>3, <1>4, <3>1, <4>1, SaveUpToSlices
      <3>3. CASE owner = target
        BY <1>1, <1>3, <3>1, <3>3, UntouchedSlice DEF SavePart
      <3> QED
        BY <3>2, <3>3
    <2> QED
      BY <2>1, <2>2
  <1> QED
    BY <1>1, <1>3, <1>5, StutterPrivate

\* The target is copied back to where its frames were, over what nobody needs.
LEMMA RestorePrivate ==
  ASSUME SlicingInv, Restore
  PROVE  UNCHANGED Private!absVars
  <1> USE DEF SlicingInv
  <1>1. /\ pc = "restore" /\ pc' = "relink" /\ UNCHANGED <<current, stack_start, stack_stop, target>>
        /\ stack' = CopiedBack(target)
        /\ stack_copy' = [stack_copy EXCEPT ![target] = <<>>]
        /\ stack_saved' = [stack_saved EXCEPT ![target] = 0]
    BY DEF Restore, FreeStackCopy
  <1>2. /\ target \in Greenlets /\ Active(target)
        /\ \A r \in Owners \ {target} : stack_stop[target] <= InPlaceFrom(r)
    BY <1>1 DEF IInv, ChainInv, SwitchInv, RestoreInv
  <1>3. \A h \in Greenlets : Low(h)' = Low(h) /\ Low(h) = stack_start[h] /\ LifeOf(h)' = LifeOf(h)
    BY <1>1 DEF Low, LifeOf, Active, Started
  <1>4. /\ InPlaceFrom(target) \in Int /\ InPlaceFrom(target) <= stack_stop[target]
        /\ stack_stop[target] \in 0..Infinity /\ stack_start[target] \in Cells
        /\ stack_start[target] <= InPlaceFrom(target)
    BY <1>2, <1>3, SliceBounds
  <1>5. \A a \in Cells : stack'[a] = IF a < stack_start[target] THEN Garbage
                                     ELSE IF a < InPlaceFrom(target)
                                          THEN stack_copy[target][a - stack_start[target]]
                                          ELSE stack[a]
    BY <1>1 DEF CopiedBack
  <1>6. ASSUME NEW h \in Greenlets, h # target PROVE SameSlice(h)
    <2>1. stack_copy'[h] = stack_copy[h] /\ stack_saved'[h] = stack_saved[h]
      BY <1>1, <1>6 DEF CopiesOK, IInv, FieldsOK
    <2>2. ASSUME Active(h), NEW a \in InPlaceFrom(h)..(stack_stop[h] - 1) PROVE stack'[a] = stack[a]
      <3>1. /\ InPlaceFrom(h) \in Int /\ stack_stop[h] \in 0..Infinity
            /\ Low(h) \in Cells /\ Low(h) <= InPlaceFrom(h)
        BY <2>2, SliceBounds
      <3>2. a \in Cells /\ InPlaceFrom(h) < stack_stop[h]
        BY <2>2, <3>1, TopAssumption DEF Cells, Infinity
      <3>3. stack_stop[target] <= InPlaceFrom(h)
        BY <1>2, <1>6, <2>2, <3>2 DEF Owners, InPlace
      <3>4. ~(a < stack_start[target]) /\ ~(a < InPlaceFrom(target))
        BY <1>4, <2>2, <3>1, <3>2, <3>3, TopAssumption DEF Cells, Infinity
      <3> QED
        BY <1>5, <3>2, <3>4
    <2> QED
      BY <1>1, <1>3, <2>1, <2>2, UntouchedSlice
  <1>7. ASSUME NEW h \in Greenlets, h = target PROVE SameSlice(h)
    <2>1. stack_saved'[h] = 0 /\ Low(h)' = Low(h) /\ (Active(h)' <=> Active(h))
      BY <1>1, <1>3, <1>7 DEF IInv, FieldsOK, Active
    <2>2. InPlaceFrom(h)' = stack_start[h]
      BY <1>3, <1>4, <1>7, <2>1 DEF InPlaceFrom, Cells
    <2>3. ASSUME NEW a \in stack_start[h]..(stack_stop[h] - 1)
          PROVE  At(h, a)' = At(h, a)
      <3>1. ~(a < stack_start[h]) /\ a \in Cells
        BY <1>4, <1>7, TopAssumption DEF Cells, Infinity
      <3>2. At(h, a)' = stack'[a]
        BY <2>2, <3>1 DEF At
      <3>3. stack'[a] = IF a < InPlaceFrom(h) THEN stack_copy[h][a - stack_start[h]] ELSE stack[a]
        BY <1>5, <1>7, <3>1
      <3> QED
        BY <1>3, <3>2, <3>3 DEF At
    <2> QED
      BY <1>1, <1>3, <2>1, <2>3 DEF SameSlice
  <1> QED
    BY <1>1, <1>3, <1>6, <1>7, StutterPrivate

LEMMA OthersPrivate ==
  ASSUME SlicingInv, Relink \/ OutOfMemory \/ Aborted \/ UNCHANGED vars
  PROVE  UNCHANGED Private!absVars
  <1>1. /\ UNCHANGED <<stack, sp, current, stack_start, stack_stop, stack_copy, stack_saved, target>>
        /\ pc = "run" <=> pc' = "run"
    BY DEF Relink, OutOfMemory, Aborted, vars, state
  <1>2. \A h \in Greenlets : FramesOf(h)' = FramesOf(h) /\ LifeOf(h)' = LifeOf(h)
    <2>1. \A h \in Greenlets : Low(h)' = Low(h) /\ (Active(h)' <=> Active(h))
      BY <1>1 DEF Low, Active
    <2>2. \A h \in Greenlets : InPlaceFrom(h)' = InPlaceFrom(h)
      BY <1>1, <2>1 DEF InPlaceFrom
    <2>3. \A h \in Greenlets : LifeOf(h)' = LifeOf(h)
      BY <1>1, <2>1 DEF LifeOf, Started
    <2>4. \A h \in Greenlets : SameSlice(h)
      BY <1>1, <2>1, <2>2 DEF SameSlice, At
    <2> QED
      BY <2>3, <2>4, SameFrames DEF SlicingInv
  <1>3. AbsFrames' = AbsFrames /\ AbsLife' = AbsLife
    BY <1>2 DEF AbsFrames, AbsLife
  <1> QED
    BY <1>1, <1>3 DEF Private!absVars, AbsFrames, AbsLife

-----------------------------------------------------------------------------
(* The steps of PrivateStacks *)

\* The cells lo..hi - 1 as a call stack, outermost frame first
StackFrames(st, lo, hi) == [i \in 1..(hi - lo) |-> st[hi - i]]

LEMMA StackFramesType ==
  ASSUME NEW st \in [Cells -> Contents], NEW lo \in Cells, NEW hi \in 0..Infinity, lo < hi
  PROVE  /\ StackFrames(st, lo, hi) \in Seq(Contents) /\ Len(StackFrames(st, lo, hi)) = hi - lo
         /\ \A i \in 1..(hi - lo) : StackFrames(st, lo, hi)[i] = st[hi - i]
  <1>1. PICK n \in Nat : n = hi - lo
    BY TopAssumption DEF Cells, Infinity
  <1>2. \A i \in 1..n : st[hi - i] \in Contents
    BY <1>1, TopAssumption DEF Cells, Infinity
  <1>3. StackFrames(st, lo, hi) = [i \in 1..n |-> st[hi - i]]
    BY <1>1 DEF StackFrames
  <1>4. [i \in 1..n |-> st[hi - i]] \in Seq(Contents) /\ Len([i \in 1..n |-> st[hi - i]]) = n
    BY <1>2
  <1> QED
    BY <1>1, <1>3, <1>4

\* A call
LEMMA Pushed ==
  ASSUME NEW st \in [Cells -> Contents], NEW lo \in Cells, NEW hi \in 0..Infinity, lo < hi,
         lo > 2, NEW f \in Frames
  PROVE  StackFrames([st EXCEPT ![lo - 1] = f], lo - 1, hi) = Append(StackFrames(st, lo, hi), f)
  <1>1. PICK s : s = StackFrames(st, lo, hi)
    OBVIOUS
  <1>2. PICK new : new = [st EXCEPT ![lo - 1] = f]
    OBVIOUS
  <1>3. PICK u : u = StackFrames(new, lo - 1, hi)
    OBVIOUS
  <1>4. f \in Contents /\ lo - 1 \in Cells /\ lo - 1 < hi /\ hi - lo \in Nat /\ hi - (lo - 1) = hi - lo + 1
    BY TopAssumption DEF Contents, Cells, Infinity
  <1>5. new \in [Cells -> Contents]
    BY <1>2, <1>4
  <1>6. s \in Seq(Contents) /\ Len(s) = hi - lo /\ \A i \in 1..(hi - lo) : s[i] = st[hi - i]
    BY <1>1, StackFramesType
  <1>7. u \in Seq(Contents) /\ Len(u) = hi - lo + 1 /\ \A i \in 1..(hi - lo + 1) : u[i] = new[hi - i]
    <2>1. /\ StackFrames(new, lo - 1, hi) \in Seq(Contents)
          /\ Len(StackFrames(new, lo - 1, hi)) = hi - (lo - 1)
          /\ \A i \in 1..(hi - (lo - 1)) : StackFrames(new, lo - 1, hi)[i] = new[hi - i]
      BY <1>4, <1>5, StackFramesType
    <2> QED
      BY <1>3, <1>4, <2>1
  <1>8. PICK v : v = Append(s, f)
    OBVIOUS
  <1>9. /\ v \in Seq(Contents) /\ Len(v) = hi - lo + 1
        /\ \A i \in 1..(hi - lo) : v[i] = s[i]
        /\ v[hi - lo + 1] = f
    BY <1>4, <1>6, <1>8, AppendProperties
  <1>10. ASSUME NEW i \in 1..(hi - lo + 1) PROVE u[i] = v[i]
    <2>1. u[i] = new[hi - i] /\ hi - i \in Cells
      BY <1>4, <1>7, TopAssumption DEF Cells, Infinity
    <2>2. CASE i = hi - lo + 1
      <3>1. hi - i = lo - 1
        BY <2>2, TopAssumption DEF Cells, Infinity
      <3>2. new[lo - 1] = f
        BY <1>2, <1>4
      <3> QED
        BY <1>9, <2>1, <2>2, <3>1, <3>2
    <2>3. CASE i # hi - lo + 1
      <3>1. i \in 1..(hi - lo) /\ hi - i # lo - 1
        BY <1>4, <2>3, TopAssumption DEF Cells, Infinity
      <3>2. new[hi - i] = st[hi - i]
        BY <1>2, <2>1, <3>1
      <3> QED
        BY <1>6, <1>9, <2>1, <3>1, <3>2
    <2> QED
      BY <2>2, <2>3
  <1>11. u = v
    BY <1>7, <1>9, <1>10, SeqEqual
  <1> QED
    BY <1>1, <1>2, <1>3, <1>8, <1>11

\* A return
LEMMA Popped ==
  ASSUME NEW st \in [Cells -> Contents], NEW lo \in Cells, NEW hi \in 0..Infinity, lo + 1 < hi
  PROVE  /\ StackFrames([st EXCEPT ![lo] = Garbage], lo + 1, hi) = Private!Front(StackFrames(st, lo, hi))
         /\ Len(StackFrames(st, lo, hi)) > 1
  <1>1. PICK s : s = StackFrames(st, lo, hi)
    OBVIOUS
  <1>2. PICK new : new = [st EXCEPT ![lo] = Garbage]
    OBVIOUS
  <1>3. PICK u : u = StackFrames(new, lo + 1, hi)
    OBVIOUS
  <1>4. PICK n \in Nat : n = hi - (lo + 1)
    BY TopAssumption DEF Cells, Infinity
  <1>5. lo + 1 \in Cells /\ Garbage \in Contents /\ hi - lo = n + 1 /\ lo < hi /\ n > 0
    BY <1>4, TopAssumption DEF Cells, Infinity, Contents
  <1>6. new \in [Cells -> Contents]
    BY <1>2, <1>5
  <1>7. s \in Seq(Contents) /\ Len(s) = n + 1 /\ \A i \in 1..(n + 1) : s[i] = st[hi - i]
    BY <1>1, <1>5, StackFramesType
  <1>8. u \in Seq(Contents) /\ Len(u) = n /\ \A i \in 1..n : u[i] = new[hi - i]
    BY <1>3, <1>4, <1>5, <1>6, StackFramesType
  <1>9. PICK v : v = SubSeq(s, 1, n)
    OBVIOUS
  <1>10. v \in Seq(Contents) /\ Len(v) = n /\ \A i \in 1..n : v[i] = s[i]
    <2>1. /\ SubSeq(s, 1, n) \in Seq(Contents)
          /\ Len(SubSeq(s, 1, n)) = IF 1 <= n THEN n - 1 + 1 ELSE 0
          /\ \A i \in 1..(n - 1 + 1) : SubSeq(s, 1, n)[i] = s[1 + i - 1]
      BY <1>5, <1>7, SubSeqProperties
    <2> QED
      BY <1>5, <1>9, <2>1
  <1>11. ASSUME NEW i \in 1..n PROVE u[i] = v[i]
    <2>1. hi - i \in Cells /\ hi - i # lo
      BY <1>4, TopAssumption DEF Cells, Infinity
    <2>2. new[hi - i] = st[hi - i]
      BY <1>2, <2>1
    <2> QED
      BY <1>7, <1>8, <1>10, <2>2
  <1>12. u = v
    BY <1>8, <1>10, <1>11, SeqEqual
  <1>13. Private!Front(s) = v
    BY <1>7, <1>9 DEF Private!Front
  <1> QED
    BY <1>1, <1>2, <1>3, <1>5, <1>7, <1>12, <1>13

\* A slice of which nothing is in the heap
WholeSlices ==
    \A g \in Greenlets : Active(g) /\ stack_saved[g] = 0 =>
        FramesOf(g) = StackFrames(stack, Low(g), stack_stop[g])

LEMMA WholeSlicesAre == SlicingInv => WholeSlices
  <1> SUFFICES ASSUME SlicingInv, NEW g \in Greenlets, Active(g), stack_saved[g] = 0
               PROVE  FramesOf(g) = StackFrames(stack, Low(g), stack_stop[g])
    BY DEF WholeSlices
  <1>1. Low(g) \in Cells /\ stack_stop[g] \in 0..Infinity /\ Low(g) < stack_stop[g]
    BY SliceBounds DEF SlicingInv
  <1>2. PICK lo \in Int : lo = Low(g)
    BY <1>1 DEF Cells
  <1>3. PICK hi \in Int : hi = stack_stop[g]
    BY <1>1, TopAssumption DEF Infinity
  <1>4. InPlaceFrom(g) = lo
    BY <1>2 DEF InPlaceFrom
  <1>5. \A i \in 1..(hi - lo) : At(g, hi - i) = stack[hi - i]
    BY <1>4 DEF At
  <1> QED
    BY <1>2, <1>3, <1>5 DEF FramesOf, StackFrames

LEMMA WholeSlicesNext == SlicingInv' => WholeSlices'
  BY WholeSlicesAre, PTL

\* The other greenlets have their cells above the stack pointer.
LEMMA OthersAbove ==
  ASSUME IInv, pc = "run", NEW h \in Greenlets \ {current}, Active(h),
         NEW a \in InPlaceFrom(h)..(stack_stop[h] - 1)
  PROVE  a \in Cells /\ sp < a
  <1>1. /\ InPlaceFrom(h) \in Int /\ stack_stop[h] \in 0..Infinity
        /\ Low(h) \in Cells /\ Low(h) <= InPlaceFrom(h)
    BY SliceBounds
  <1>2. InPlaceFrom(h) < stack_stop[h]
    BY <1>1, TopAssumption DEF Infinity
  <1>3. h \in Owners
    BY <1>2 DEF Owners, InPlace
  <1>4. stack_stop[current] <= InPlaceFrom(h) /\ sp < stack_stop[current]
    BY <1>3 DEF IInv, ChainInv, RunInv
  <1>5. sp \in Cells /\ stack_stop[current] \in 0..Infinity
    BY DEF IInv, FieldsOK
  <1> QED
    BY <1>1, <1>4, <1>5, TopAssumption DEF Cells, Infinity

\* The call stack of one greenlet changes.
LEMMA OneStack ==
  ASSUME NEW g \in Greenlets, NEW s, FramesOf(g)' = s,
         \A h \in Greenlets \ {g} : FramesOf(h)' = FramesOf(h)
  PROVE  AbsFrames' = [AbsFrames EXCEPT ![g] = s]
  BY DEF AbsFrames

\* What the running code does below the slices of the others, they do not notice.
LEMMA BelowOthers ==
  ASSUME SlicingInv, pc = "run", pc' = "run", UNCHANGED <<current, state, target>>,
         \A a \in Cells : sp < a => stack'[a] = stack[a]
  PROVE  /\ \A h \in Greenlets : LifeOf(h)' = LifeOf(h)
         /\ \A h \in Greenlets : h # current \/ ~Active(h) => FramesOf(h)' = FramesOf(h)
  <1> USE DEF SlicingInv
  <1>1. UNCHANGED <<stack_start, stack_stop, stack_copy, stack_saved>>
    BY DEF state
  <1>2. \A h \in Greenlets : (Active(h)' <=> Active(h)) /\ LifeOf(h)' = LifeOf(h)
    BY <1>1 DEF Active, LifeOf, Started
  <1>3. ASSUME NEW h \in Greenlets, h # current PROVE SameSlice(h)
    <2>1. Low(h)' = Low(h)
      BY <1>1, <1>3 DEF Low
    <2>2. Active(h) => \A a \in InPlaceFrom(h)..(stack_stop[h] - 1) : stack'[a] = stack[a]
      BY <1>3, OthersAbove
    <2> QED
      BY <1>1, <2>1, <2>2, UntouchedSlice
  <1>4. ASSUME NEW h \in Greenlets, ~Active(h) PROVE SameSlice(h)
    BY <1>2, <1>4 DEF SameSlice
  <1> QED
    BY <1>2, <1>3, <1>4, SameFrames

LEMMA PushPrivate ==
  ASSUME SlicingInv, SlicingInv', Push
  PROVE  [Private!AbsNext]_(Private!absVars)
  <1> USE DEF SlicingInv
  <1>1. PICK f \in Frames : stack' = [stack EXCEPT ![sp - 1] = f]
    BY DEF Push
  <1>2. pc = "run" /\ pc' = "run" /\ sp > 2 /\ sp' = sp - 1 /\ UNCHANGED <<current, state, target>>
    BY DEF Push, switching
  <1>3. sp \in Cells /\ current \in Greenlets /\ stack \in [Cells -> Contents]
    BY DEF IInv, FieldsOK, CopiesOK
  <1>4. \A a \in Cells : sp < a => stack'[a] = stack[a]
    BY <1>1, <1>3 DEF Cells
  <1>5. /\ \A h \in Greenlets : LifeOf(h)' = LifeOf(h)
        /\ \A h \in Greenlets : h # current \/ ~Active(h) => FramesOf(h)' = FramesOf(h)
    BY <1>2, <1>4, BelowOthers
  <1>6. AbsLife' = AbsLife
    BY <1>5 DEF AbsLife
  <1>7. CASE Active(current)
    <2>1. Active(current)' /\ stack_saved[current] = 0 /\ stack_saved'[current] = 0
          /\ Low(current) = sp /\ current' = current /\ stack_stop' = stack_stop
      BY <1>2, <1>7 DEF state, Active, Low, IInv, ChainInv, RunInv
    <2>2. Low(current)' = sp - 1
      BY <1>2 DEF Low
    <2>3. FramesOf(current) = StackFrames(stack, sp, stack_stop[current])
      BY <1>3, <1>7, <2>1, WholeSlicesAre DEF WholeSlices
    <2>4. FramesOf(current)' = StackFrames(stack', sp - 1, stack_stop[current])
      BY <1>3, <2>1, <2>2, WholeSlicesNext DEF WholeSlices
    <2>5. sp < stack_stop[current] /\ stack_stop[current] \in 0..Infinity
      BY <1>2, <1>3 DEF IInv, ChainInv, RunInv, FieldsOK
    <2>6. FramesOf(current)' = Append(FramesOf(current), f)
      BY <1>1, <1>2, <1>3, <2>3, <2>4, <2>5, Pushed
    <2>7. PICK g \in Greenlets : g = current
      BY <1>3
    <2>8. FramesOf(g)' = Append(FramesOf(g), f)
      BY <2>1, <2>6, <2>7
    <2>9. AbsFrames' = [AbsFrames EXCEPT ![g] = Append(FramesOf(g), f)]
      BY <1>5, <2>7, <2>8, OneStack
    <2>10. AbsFrames' = [AbsFrames EXCEPT ![current] = Append(AbsFrames[current], f)]
      BY <2>7, <2>9 DEF AbsFrames
    <2>11. AbsLife[current] = "live"
      BY <1>3, <1>7 DEF AbsLife, LifeOf
    <2>12. Private!Call
      BY <1>6, <2>1, <2>10, <2>11 DEF Private!Call, AbsFrames, AbsLife
    <2> QED
      BY <2>12 DEF Private!AbsNext
  <1>8. CASE ~Active(current)
    <2>1. \A h \in Greenlets : FramesOf(h)' = FramesOf(h)
      BY <1>5, <1>8
    <2>2. AbsFrames' = AbsFrames
      BY <2>1 DEF AbsFrames
    <2> QED
      BY <1>2, <1>6, <2>2 DEF Private!absVars, AbsFrames, AbsLife
  <1> QED
    BY <1>7, <1>8

LEMMA PopPrivate ==
  ASSUME SlicingInv, SlicingInv', Pop
  PROVE  [Private!AbsNext]_(Private!absVars)
  <1> USE DEF SlicingInv
  <1>1. /\ pc = "run" /\ pc' = "run" /\ sp + 1 < stack_stop[current] /\ sp' = sp + 1
        /\ stack' = [stack EXCEPT ![sp] = Garbage]
        /\ UNCHANGED <<current, state, target>>
    BY DEF Pop, switching
  <1>2. sp \in Cells /\ current \in Greenlets /\ stack \in [Cells -> Contents]
        /\ stack_stop[current] \in 0..Infinity
    BY DEF IInv, FieldsOK, CopiesOK
  <1>3. \A a \in Cells : sp < a => stack'[a] = stack[a]
    BY <1>1, <1>2 DEF Cells
  <1>4. /\ \A h \in Greenlets : LifeOf(h)' = LifeOf(h)
        /\ \A h \in Greenlets : h # current \/ ~Active(h) => FramesOf(h)' = FramesOf(h)
    BY <1>1, <1>3, BelowOthers
  <1>5. AbsLife' = AbsLife
    BY <1>4 DEF AbsLife
  <1>6. CASE Active(current)
    <2>1. Active(current)' /\ stack_saved[current] = 0 /\ stack_saved'[current] = 0
          /\ Low(current) = sp /\ current' = current /\ stack_stop' = stack_stop
      BY <1>1, <1>6 DEF state, Active, Low, IInv, ChainInv, RunInv
    <2>2. Low(current)' = sp + 1
      BY <1>1 DEF Low
    <2>3. FramesOf(current) = StackFrames(stack, sp, stack_stop[current])
      BY <1>2, <1>6, <2>1, WholeSlicesAre DEF WholeSlices
    <2>4. FramesOf(current)' = StackFrames(stack', sp + 1, stack_stop[current])
      BY <1>2, <2>1, <2>2, WholeSlicesNext DEF WholeSlices
    <2>5. FramesOf(current)' = Private!Front(FramesOf(current)) /\ Len(FramesOf(current)) > 1
      BY <1>1, <1>2, <2>3, <2>4, Popped
    <2>6. PICK g \in Greenlets : g = current
      BY <1>2
    <2>7. FramesOf(g)' = Private!Front(FramesOf(g))
      BY <2>1, <2>5, <2>6
    <2>8. AbsFrames' = [AbsFrames EXCEPT ![g] = Private!Front(FramesOf(g))]
      BY <1>4, <2>6, <2>7, OneStack
    <2>9. AbsFrames' = [AbsFrames EXCEPT ![current] = Private!Front(AbsFrames[current])]
      BY <2>6, <2>8 DEF AbsFrames
    <2>10. Len(AbsFrames[current]) > 1
      BY <1>2, <2>5 DEF AbsFrames
    <2>11. Private!Return
      BY <1>5, <2>1, <2>9, <2>10 DEF Private!Return, AbsFrames, AbsLife
    <2> QED
      BY <2>11 DEF Private!AbsNext
  <1>7. CASE ~Active(current)
    <2>1. \A h \in Greenlets : FramesOf(h)' = FramesOf(h)
      BY <1>4, <1>7
    <2>2. AbsFrames' = AbsFrames
      BY <2>1 DEF AbsFrames
    <2> QED
      BY <1>1, <1>5, <2>2 DEF Private!absVars, AbsFrames, AbsLife
  <1> QED
    BY <1>6, <1>7

LEMMA DiePrivate ==
  ASSUME SlicingInv, Die
  PROVE  Private!Finish
  <1> USE DEF SlicingInv
  <1>1. PICK g \in Greenlets : g = current
    BY DEF IInv, FieldsOK
  <1>2. /\ pc = "run" /\ pc' = "run" /\ g # Main /\ Active(g) /\ target = NoOne
        /\ stack_start' = [stack_start EXCEPT ![g] = Null]
        /\ stack_copy' = [stack_copy EXCEPT ![g] = <<>>]
        /\ stack_saved' = [stack_saved EXCEPT ![g] = 0]
        /\ UNCHANGED <<stack, sp, current, stack_stop, target>>
    BY <1>1 DEF Die, FreeStackCopy, switching, Starting
  <1>3. ~Active(g)' /\ Started(g)' /\ g # NoOne
    BY <1>2, MainAssumption DEF Active, Started, IInv, FieldsOK, ChainInv, Slices
  <1>4. ASSUME NEW h \in Greenlets, h # g PROVE FramesOf(h)' = FramesOf(h) /\ LifeOf(h)' = LifeOf(h)
    <2>1. /\ stack_start'[h] = stack_start[h] /\ stack_copy'[h] = stack_copy[h]
          /\ stack_saved'[h] = stack_saved[h] /\ stack_stop'[h] = stack_stop[h]
      BY <1>2, <1>4 DEF IInv, FieldsOK, CopiesOK
    <2>2. Low(h)' = Low(h)
      BY <1>1, <1>2, <1>4, <2>1 DEF Low
    <2>3. SameSlice(h)
      BY <1>2, <2>1, <2>2, UntouchedSlice
    <2>4. LifeOf(h)' = LifeOf(h)
      BY <1>2, <2>1 DEF LifeOf, Active, Started
    <2> QED
      BY <2>3, <2>4, SameFrames
  <1>5. AbsFrames' = [AbsFrames EXCEPT ![g] = <<>>]
    <2>1. FramesOf(g)' = <<>>
      BY <1>3 DEF FramesOf
    <2> QED
      BY <1>4, <2>1, OneStack
  <1>6. AbsLife' = [AbsLife EXCEPT ![g] = "dead"]
    <2>1. LifeOf(g)' = "dead"
      BY <1>2, <1>3 DEF LifeOf
    <2> QED
      BY <1>4, <2>1 DEF AbsLife
  <1>7. AbsLife[g] = "live"
    BY <1>2 DEF AbsLife, LifeOf
  <1> QED
    BY <1>1, <1>2, <1>5, <1>6, <1>7 DEF Private!Finish, AbsFrames, AbsLife

LEMMA RecyclePrivate ==
  ASSUME SlicingInv, NEW g \in Greenlets, Recycle(g)
  PROVE  Private!Reuse(g)
  <1> USE DEF SlicingInv
  <1>1. /\ pc = "run" /\ pc' = "run" /\ g # current /\ Started(g) /\ ~Active(g) /\ target = NoOne
        /\ stack_stop' = [stack_stop EXCEPT ![g] = Null]
        /\ UNCHANGED <<stack, sp, current, stack_start, stack_copy, stack_saved, target>>
    BY DEF Recycle, switching, Starting
  <1>2. ~Active(g)' /\ ~Started(g)' /\ g # NoOne
    BY <1>1, MainAssumption DEF Active, Started, IInv, FieldsOK
  <1>3. ASSUME NEW h \in Greenlets, h # g PROVE FramesOf(h)' = FramesOf(h) /\ LifeOf(h)' = LifeOf(h)
    <2>1. stack_stop'[h] = stack_stop[h]
      BY <1>1, <1>3 DEF IInv, FieldsOK
    <2>2. Low(h)' = Low(h)
      BY <1>1 DEF Low
    <2>3. SameSlice(h)
      BY <1>1, <2>1, <2>2, UntouchedSlice
    <2>4. LifeOf(h)' = LifeOf(h)
      BY <1>1, <2>1 DEF LifeOf, Active, Started
    <2> QED
      BY <2>3, <2>4, SameFrames
  <1>4. AbsFrames' = AbsFrames
    <2>1. FramesOf(g)' = FramesOf(g)
      BY <1>1, <1>2 DEF FramesOf
    <2> QED
      BY <1>3, <2>1 DEF AbsFrames
  <1>5. AbsLife' = [AbsLife EXCEPT ![g] = "new"]
    <2>1. LifeOf(g)' = "new"
      BY <1>2 DEF LifeOf
    <2> QED
      BY <1>3, <2>1 DEF AbsLife
  <1>6. AbsLife[g] = "dead"
    BY <1>1, <1>2 DEF AbsLife, LifeOf
  <1> QED
    BY <1>1, <1>4, <1>5, <1>6 DEF Private!Reuse, AbsFrames, AbsLife

\* A first switch begins with a call of the greenlet that switches.
LEMMA InitialStubPrivate ==
  ASSUME SlicingInv, SlicingInv', NEW g \in Greenlets, InitialStub(g)
  PROVE  [Private!AbsNext]_(Private!absVars)
  <1> USE DEF SlicingInv
  <1>1. PICK f \in Frames : stack' = [stack EXCEPT ![sp - 1] = f]
    BY DEF InitialStub
  <1>2. PICK c \in Greenlets : c = current
    BY DEF IInv, FieldsOK
  <1>3. /\ pc = "run" /\ pc' = "save" /\ sp > 2 /\ sp' = sp - 1 /\ ~Started(g) /\ target' = g
        /\ target = NoOne /\ stack_stop' = [stack_stop EXCEPT ![g] = sp]
        /\ stack_start' = IF Active(c) THEN [stack_start EXCEPT ![c] = sp - 1] ELSE stack_start
        /\ UNCHANGED <<current, stack_copy, stack_saved>>
    BY <1>2 DEF InitialStub, BeginSave, Starting
  <1>4. sp \in Cells /\ stack \in [Cells -> Contents] /\ stack_start \in [Greenlets -> 0..Top]
        /\ stack_stop \in [Greenlets -> 0..Infinity]
    BY DEF IInv, FieldsOK, CopiesOK
  <1>5. g # c /\ ~Active(g) /\ sp - 1 # 0
    BY <1>2, <1>3, <1>4 DEF IInv, ChainInv, Slices
  <1>6. \A a \in Cells : sp < a => stack'[a] = stack[a]
    BY <1>1, <1>4 DEF Cells
  <1>7. \A h \in Greenlets : Active(h)' <=> Active(h)
    BY <1>3, <1>4, <1>5 DEF Active, Null
  <1>8. ASSUME NEW h \in Greenlets, h # c \/ ~Active(h) PROVE FramesOf(h)' = FramesOf(h)
    <2>1. CASE ~Active(h)
      BY <1>7, <2>1 DEF FramesOf
    <2>2. CASE Active(h)
      <3>1. h # g /\ h # c
        BY <1>5, <1>8, <2>2
      <3>2. stack_start'[h] = stack_start[h] /\ stack_stop'[h] = stack_stop[h]
        BY <1>3, <1>4, <3>1
      <3>3. Low(h)' = Low(h)
        BY <1>2, <1>3, <3>1, <3>2 DEF Low
      <3>4. \A a \in InPlaceFrom(h)..(stack_stop[h] - 1) : stack'[a] = stack[a]
        BY <1>2, <1>3, <1>6, <2>2, <3>1, OthersAbove
      <3>5. SameSlice(h)
        BY <1>3, <3>2, <3>3, <3>4, UntouchedSlice
      <3> QED
        BY <3>5, SameFrames
    <2> QED
      BY <2>1, <2>2
  <1>9. AbsLife' = AbsLife
    <2>1. ASSUME NEW h \in Greenlets PROVE LifeOf(h)' = LifeOf(h)
      <3>1. CASE h = g
        BY <1>3, <1>5, <1>7, <3>1 DEF LifeOf
      <3>2. CASE h # g
        <4>1. (Started(h)' <=> Started(h)) /\ h # NoOne
          BY <1>3, <1>4, <3>2, MainAssumption DEF Started
        <4> QED
          BY <1>3, <1>7, <3>2, <4>1 DEF LifeOf
      <3> QED
        BY <3>1, <3>2
    <2> QED
      BY <2>1 DEF AbsLife
  <1>10. CASE Active(c)
    <2>1. /\ Active(c)' /\ stack_saved[c] = 0 /\ stack_saved'[c] = 0 /\ stack_stop'[c] = stack_stop[c]
          /\ Low(c) = sp
      BY <1>2, <1>3, <1>4, <1>5, <1>7, <1>10 DEF Low, IInv, ChainInv, RunInv
    <2>2. Low(c)' = sp - 1
      BY <1>3, <1>4, <1>10 DEF Low
    <2>3. FramesOf(c) = StackFrames(stack, sp, stack_stop[c])
      BY <1>10, <2>1, WholeSlicesAre DEF WholeSlices
    <2>4. FramesOf(c)' = StackFrames(stack', sp - 1, stack_stop[c])
      BY <2>1, <2>2, WholeSlicesNext DEF WholeSlices
    <2>5. sp < stack_stop[c] /\ stack_stop[c] \in 0..Infinity
      BY <1>2, <1>3, <1>4 DEF IInv, ChainInv, RunInv
    <2>6. FramesOf(c)' = Append(FramesOf(c), f)
      BY <1>1, <1>3, <1>4, <2>3, <2>4, <2>5, Pushed
    <2>7. AbsFrames' = [AbsFrames EXCEPT ![c] = Append(FramesOf(c), f)]
      BY <1>8, <2>6, OneStack
    <2>8. AbsFrames' = [AbsFrames EXCEPT ![current] = Append(AbsFrames[current], f)]
      BY <1>2, <2>7 DEF AbsFrames
    <2>9. AbsLife[current] = "live"
      BY <1>2, <1>10 DEF AbsLife, LifeOf
    <2>10. Private!Call
      BY <1>3, <1>9, <2>8, <2>9 DEF Private!Call, AbsFrames, AbsLife
    <2> QED
      BY <2>10 DEF Private!AbsNext
  <1>11. CASE ~Active(c)
    <2>1. AbsFrames' = AbsFrames
      BY <1>8, <1>11 DEF AbsFrames
    <2> QED
      BY <1>3, <1>9, <2>1 DEF Private!absVars, AbsFrames, AbsLife
  <1> QED
    BY <1>10, <1>11

\* The last frame of a call stack that is in the C stack is the cell at its lowest address.
LEMMA LastCell ==
  ASSUME NEW st \in [Cells -> Contents], NEW lo \in Cells, NEW hi \in 0..Infinity, lo < hi
  PROVE  Private!Last(StackFrames(st, lo, hi)) = st[lo]
  <1>1. PICK s : s = StackFrames(st, lo, hi)
    OBVIOUS
  <1>2. PICK n \in Nat : n = hi - lo
    BY TopAssumption DEF Cells, Infinity
  <1>3. Len(s) = n /\ \A i \in 1..n : s[i] = st[hi - i]
    BY <1>1, <1>2, StackFramesType
  <1>4. n \in 1..n /\ hi - n = lo
    BY <1>2, TopAssumption DEF Cells, Infinity
  <1>5. s[n] = st[lo]
    BY <1>3, <1>4
  <1> QED
    BY <1>1, <1>3, <1>5 DEF Private!Last

LEMMA OneCell ==
  ASSUME NEW st \in [Cells -> Contents], NEW lo \in Cells
  PROVE  /\ StackFrames(st, lo, lo + 1) \in Seq(Contents) /\ Len(StackFrames(st, lo, lo + 1)) = 1
         /\ StackFrames(st, lo, lo + 1)[1] = st[lo]
  <1>1. PICK hi \in 0..Infinity : hi = lo + 1
    BY TopAssumption DEF Cells, Infinity
  <1>2. lo < hi /\ hi - lo = 1 /\ hi - 1 = lo /\ 1 \in 1..1
    BY <1>1 DEF Cells
  <1>3. /\ StackFrames(st, lo, hi) \in Seq(Contents) /\ Len(StackFrames(st, lo, hi)) = hi - lo
        /\ \A i \in 1..(hi - lo) : StackFrames(st, lo, hi)[i] = st[hi - i]
    BY <1>2, StackFramesType
  <1>4. StackFrames(st, lo, hi)[1] = st[hi - 1]
    BY <1>2, <1>3
  <1> QED
    BY <1>1, <1>2, <1>3, <1>4

\* A new greenlet begins with the frame of the stub, on which both go on.
LEMMA EnterNewPrivate ==
  ASSUME SlicingInv, SlicingInv', EnterNew
  PROVE  Private!AbsNext
  <1> USE DEF SlicingInv
  <1>1. PICK g \in Greenlets : g = target
    BY DEF EnterNew, IInv, ChainInv, SwitchInv
  <1>2. /\ pc = "save" /\ pc' = "run" /\ ~Active(g) /\ SavePart /\ current' = g /\ target' = NoOne
        /\ stack_start' = [stack_start EXCEPT ![g] = Running]
        /\ UNCHANGED <<stack, sp, stack_stop>>
    BY <1>1 DEF EnterNew
  <1>3. PICK c \in Greenlets : c = current
    BY DEF IInv, FieldsOK
  <1>4. /\ g # c /\ Started(g) /\ stack_saved[g] = 0
        /\ stack_stop[g] = sp + 1 /\ stack_stop[g] < stack_stop[FirstOwner]
        /\ owner = FirstOwner /\ owner \in Greenlets /\ Active(owner)
        /\ Active(c) => stack_start[c] = sp
    BY <1>1, <1>2, <1>3 DEF IInv, ChainInv, SwitchInv, SaveInv, FieldsOK, Slices
  <1>5. stack[sp] \in Frames /\ (Active(c) => stack_saved[c] = 0)
    BY <1>1, <1>2, <1>3 DEF Starting
  <1>6. sp \in Cells /\ stack \in [Cells -> Contents] /\ \A h \in Greenlets : stack_stop[h] \in 0..Infinity
    BY DEF IInv, FieldsOK, CopiesOK
  <1>7. owner # g /\ SaveUpTo(owner, stack_stop[g])
    BY <1>1, <1>2, <1>4 DEF SavePart
  <1>8. ASSUME NEW h \in Greenlets, h # g
        PROVE  FramesOf(h)' = FramesOf(h) /\ LifeOf(h)' = LifeOf(h)
    <2>1. stack_start'[h] = stack_start[h]
      BY <1>2, <1>8 DEF IInv, FieldsOK
    <2>2. Low(h)' = Low(h)
      BY <1>2, <1>8, <2>1 DEF Low
    <2>3. stack_stop[g] \in Int /\ stack_stop[g] <= stack_stop[owner]
      BY <1>4, <1>6, TopAssumption DEF Infinity
    <2>4. SameSlice(h)
      BY <1>2, <1>4, <1>7, <2>1, <2>2, <2>3, SaveUpToSlices
    <2>5. h # NoOne
      BY MainAssumption
    <2>6. LifeOf(h)' = LifeOf(h)
      BY <1>1, <1>2, <1>8, <2>1, <2>5 DEF LifeOf, Active, Started
    <2> QED
      BY <2>4, <2>6, SameFrames
  <1>9. Active(g)' /\ Low(g)' = sp /\ stack_saved'[g] = 0
    <2>1. Active(g)' /\ Low(g)' = sp
      BY <1>2 DEF Active, Low, Running, Null, IInv, FieldsOK
    <2>2. stack_saved'[g] = 0
      BY <1>4, <1>7 DEF SaveUpTo, IInv, FieldsOK
    <2> QED
      BY <2>1, <2>2
  <1>10. FramesOf(g)' = <<stack[sp]>>
    <2>1. FramesOf(g)' = StackFrames(stack, sp, sp + 1)
      BY <1>2, <1>4, <1>9, WholeSlicesNext DEF WholeSlices
    <2>2. PICK s : s = StackFrames(stack, sp, sp + 1)
      OBVIOUS
    <2>3. s \in Seq(Contents) /\ Len(s) = 1 /\ s[1] = stack[sp]
      BY <1>6, <2>2, OneCell
    <2>4. s = <<stack[sp]>>
      BY <2>3
    <2> QED
      BY <2>1, <2>2, <2>4
  <1>11. AbsFrames' = [AbsFrames EXCEPT ![g] = <<stack[sp]>>]
    BY <1>8, <1>10, OneStack
  <1>12. AbsLife[g] = "new" /\ AbsLife' = [AbsLife EXCEPT ![g] = "live"]
    <2>1. LifeOf(g) = "new" /\ LifeOf(g)' = "live"
      BY <1>1, <1>2, <1>9 DEF LifeOf
    <2> QED
      BY <1>8, <2>1 DEF AbsLife
  <1>13. AbsLife[current] = "live" => stack[sp] = Private!Last(AbsFrames[current])
    <2> SUFFICES ASSUME AbsLife[current] = "live"
                 PROVE  stack[sp] = Private!Last(AbsFrames[current])
      OBVIOUS
    <2>1. LifeOf(c) = "live"
      BY <1>3 DEF AbsLife
    <2>2. Active(c)
      BY <2>1 DEF LifeOf
    <2>3. Low(c) = sp
      BY <1>2, <1>4, <2>2 DEF Low
    <2>4. FramesOf(c) = StackFrames(stack, sp, stack_stop[c])
      BY <1>5, <2>2, <2>3, WholeSlicesAre DEF WholeSlices
    <2>5. sp < stack_stop[c]
      BY <2>2, <2>3, SliceBounds
    <2>6. Private!Last(FramesOf(c)) = stack[sp]
      BY <1>6, <2>4, <2>5, LastCell
    <2>7. AbsFrames[current] = FramesOf(c)
      BY <1>3 DEF AbsFrames
    <2> QED
      BY <2>6, <2>7
  <1>14. Private!Start(g)
    BY <1>2, <1>5, <1>11, <1>12, <1>13 DEF Private!Start, AbsFrames, AbsLife
  <1> QED
    BY <1>14 DEF Private!AbsNext

\* A switch ends where the target left its call stack.
LEMMA ResumePrivate ==
  ASSUME SlicingInv, Resume
  PROVE  Private!AbsNext
  <1> USE DEF SlicingInv
  <1>1. PICK g \in Greenlets : g = target
    BY DEF Resume, IInv, ChainInv, SwitchInv
  <1>2. /\ pc = "relink" /\ pc' = "run" /\ current' = g /\ target' = NoOne
        /\ UNCHANGED <<stack, sp, stack_start, stack_stop, stack_copy, stack_saved>>
    BY <1>1 DEF Resume
  <1>3. Active(g) /\ stack_start[g] = sp
    BY <1>1, <1>2 DEF IInv, ChainInv, RestoreInv, RelinkInv
  <1>4. ASSUME NEW h \in Greenlets PROVE FramesOf(h)' = FramesOf(h) /\ LifeOf(h)' = LifeOf(h)
    <2>1. Low(h)' = Low(h)
      BY <1>2, <1>3 DEF Low
    <2>2. SameSlice(h)
      BY <1>2, <2>1, UntouchedSlice
    <2>3. LifeOf(h)' = LifeOf(h)
      BY <1>1, <1>2, <1>3, MainAssumption DEF LifeOf, Active, Started
    <2> QED
      BY <2>2, <2>3, SameFrames
  <1>5. AbsFrames' = AbsFrames /\ AbsLife' = AbsLife
    BY <1>4 DEF AbsFrames, AbsLife
  <1>6. AbsLife[g] = "live"
    BY <1>3 DEF AbsLife, LifeOf
  <1>7. Private!Transfer(g)
    BY <1>2, <1>5, <1>6 DEF Private!Transfer, AbsFrames, AbsLife
  <1> QED
    BY <1>7 DEF Private!AbsNext

LEMMA InitPrivate == Init => Private!AbsInit
  <1> SUFFICES ASSUME Init PROVE Private!AbsInit
    OBVIOUS
  <1>1. PICK f \in Frames : stack = [a \in Cells |-> IF a = Top THEN f ELSE Garbage]
    BY DEF Init
  <1>2. /\ sp = Top /\ current = Main /\ pc = "run" /\ target = NoOne
        /\ stack_start = [g \in Greenlets |-> IF g = Main THEN 1 ELSE 0]
        /\ stack_stop = [g \in Greenlets |-> IF g = Main THEN Top + 1 ELSE 0]
        /\ stack_saved = [g \in Greenlets |-> 0]
    BY DEF Init, Running, Null, Infinity
  <1>3. Main \in Greenlets /\ NoOne \notin Greenlets
    BY MainAssumption
  <1>4. ASSUME NEW g \in Greenlets PROVE Active(g) <=> g = Main
    BY <1>2 DEF Active, Null
  <1>5. \A g \in Greenlets : LifeOf(g) = IF g = Main THEN "live" ELSE "new"
    BY <1>2, <1>4 DEF LifeOf, Started, Null
  <1>6. FramesOf(Main) = <<f>>
    <2>1. SlicingInv
      BY InitIInv, InitCopies, InitStarting DEF SlicingInv
    <2>2. Low(Main) = Top /\ stack_stop[Main] = Top + 1 /\ stack_saved[Main] = 0
      BY <1>2, <1>3 DEF Low
    <2>3. FramesOf(Main) = StackFrames(stack, Top, Top + 1)
      BY <1>3, <1>4, <2>1, <2>2, WholeSlicesAre DEF WholeSlices
    <2>4. Top \in Cells /\ stack \in [Cells -> Contents]
      BY <2>1, TopAssumption DEF Cells, SlicingInv, CopiesOK
    <2>5. PICK s : s = StackFrames(stack, Top, Top + 1)
      OBVIOUS
    <2>6. s \in Seq(Contents) /\ Len(s) = 1 /\ s[1] = stack[Top]
      BY <2>4, <2>5, OneCell
    <2>7. s = <<f>>
      BY <1>1, <2>4, <2>6
    <2> QED
      BY <2>3, <2>5, <2>7
  <1>7. AbsFrames = [g \in Greenlets |-> IF g = Main THEN <<f>> ELSE <<>>]
    BY <1>4, <1>6 DEF AbsFrames, FramesOf
  <1>8. AbsLife = [g \in Greenlets |-> IF g = Main THEN "live" ELSE "new"]
    BY <1>5 DEF AbsLife
  <1> QED
    BY <1>2, <1>7, <1>8 DEF Private!AbsInit, AbsFrames, AbsLife

-----------------------------------------------------------------------------
LEMMA NextPrivate ==
  ASSUME SlicingInv, SlicingInv', [Next]_vars
  PROVE  [Private!AbsNext]_(Private!absVars)
  <1>1. CASE Push
    BY <1>1, PushPrivate
  <1>2. CASE Pop
    BY <1>2, PopPrivate
  <1>3. CASE Die
    BY <1>3, DiePrivate DEF Private!AbsNext
  <1>4. ASSUME NEW g \in Greenlets, SwitchTo(g)
        PROVE  [Private!AbsNext]_(Private!absVars)
    BY <1>4, SwitchToPrivate
  <1>5. ASSUME NEW g \in Greenlets, InitialStub(g)
        PROVE  [Private!AbsNext]_(Private!absVars)
    BY <1>5, InitialStubPrivate
  <1>6. ASSUME NEW g \in Greenlets, Recycle(g)
        PROVE  [Private!AbsNext]_(Private!absVars)
    BY <1>6, RecyclePrivate DEF Private!AbsNext
  <1>7. CASE SaveWhole \/ SaveLast
    BY <1>7, SavePrivate
  <1>8. CASE EnterNew
    BY <1>8, EnterNewPrivate
  <1>9. CASE Restore
    BY <1>9, RestorePrivate
  <1>10. CASE Resume
    BY <1>10, ResumePrivate
  <1>11. CASE Relink \/ OutOfMemory \/ Aborted \/ UNCHANGED vars
    BY <1>11, OthersPrivate
  <1> QED
    BY <1>1, <1>2, <1>3, <1>4, <1>5, <1>6, <1>7, <1>8, <1>9, <1>10, <1>11 DEF Next, SlpSwitch

\* The stack slicing gives every greenlet a call stack of its own (TStackState.cpp): calls
\* and returns change the running one's alone, a switch changes none, and a resumed greenlet
\* finds the frames that it left, wherever their bytes have been.
THEOREM ImplementsPrivateStacks == Spec => PrivateStacksSpec
  <1>1. SlicingInv /\ SlicingInv' /\ [Next]_vars => [Private!AbsNext]_(Private!absVars)
    BY NextPrivate
  <1> QED
    BY <1>1, InitPrivate, SlicingInvAlways, PTL DEF Spec, PrivateStacksSpec, Private!AbsSpec
=============================================================================

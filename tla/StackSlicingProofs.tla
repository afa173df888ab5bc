------------------------- MODULE StackSlicingProofs -------------------------
(***************************************************************************)
(* Proofs about StackSlicing for any number of greenlets, any depth of the *)
(* stack and any frames.                                                   *)
(***************************************************************************)
EXTENDS StackSlicing, TLAPS

IInv == FieldsOK /\ ChainInv

LEMMA InitIInv == Init => IInv
<1> SUFFICES ASSUME Init PROVE IInv
  OBVIOUS
<1> USE MainAssumption, TopAssumption DEF Null, Running, Infinity, Cells
<1>1. /\ sp = Top /\ current = Main
      /\ pc = "run" /\ target = NoOne /\ owner = NoOne /\ chain = {}
      /\ stack_start = [g \in Greenlets |-> IF g = Main THEN 1 ELSE 0]
      /\ stack_stop = [g \in Greenlets |-> IF g = Main THEN Top + 1 ELSE 0]
      /\ stack_saved = [g \in Greenlets |-> 0]
      /\ stack_prev = [g \in Greenlets |-> NoOne]
  BY DEF Init
<1>2. FieldsOK
  BY <1>1 DEF FieldsOK
<1>3. Owners = {Main}
  <2>1. InPlace(Main)
    BY <1>1 DEF InPlace, Active, InPlaceFrom, Low
  <2>2. \A g \in Greenlets \ {Main} : ~InPlace(g)
    BY <1>1 DEF InPlace, Active
  <2>3. QED
    BY <2>1, <2>2 DEF Owners
<1>4. Slices
  BY <1>1 DEF Slices, Active, Started, InPlaceFrom, Low
<1>5. Stacked
  BY <1>3 DEF Stacked
<1>6. RunInv
  BY <1>1, <1>3 DEF RunInv, Linked, Lowest
<1>7. QED
  BY <1>1, <1>2, <1>4, <1>5, <1>6 DEF IInv, ChainInv

\* Between two calls only the stack pointer moves, within the running slice.
LEMMA PushPopIInv ==
  ASSUME IInv, Push \/ Pop
  PROVE  IInv'
<1> USE MainAssumption, TopAssumption DEF Null, Running, Infinity, Cells, IInv
<1>0. /\ pc = "run" /\ pc' = "run"
      /\ sp' \in Cells
      /\ sp' < stack_stop[current]
      /\ UNCHANGED <<current, stack_start, stack_stop, stack_copy, stack_saved, stack_prev, target, owner, chain>>
  BY DEF Push, Pop, state, switching, ChainInv, RunInv, FieldsOK
<1>1. FieldsOK'
  BY <1>0 DEF FieldsOK
<1>2. \A g \in Greenlets : g # current => InPlaceFrom(g)' = InPlaceFrom(g)
  BY <1>0 DEF InPlaceFrom, Low
<1>3. \A g \in Greenlets : InPlace(g)' <=> InPlace(g)
  BY <1>0, <1>2 DEF InPlace, InPlaceFrom, Low, Active, ChainInv, RunInv, FieldsOK
<1>4. Owners' = Owners
  BY <1>3 DEF Owners
<1>5. Slices'
  BY <1>0, <1>2 DEF Slices, Active, Started, ChainInv
<1>6. RunInv'
  BY <1>0, <1>2, <1>4 DEF RunInv, ChainInv, Linked, Lowest, Owners
<1>7. Stacked'
  BY <1>0, <1>2, <1>4 DEF Stacked, Owners, ChainInv, RunInv, FieldsOK, InPlace, InPlaceFrom, Low
<1>8. QED
  BY <1>0, <1>1, <1>5, <1>6, <1>7 DEF ChainInv

\* A dying greenlet leaves the chain; everyone else's slice stays.
LEMMA DieIInv ==
  ASSUME IInv, Die
  PROVE  IInv'
<1> USE MainAssumption, TopAssumption DEF Null, Running, Infinity, Cells, IInv
<1>0. /\ pc = "run" /\ pc' = "run"
      /\ current # Main /\ current \in Greenlets
      /\ stack_start' = [stack_start EXCEPT ![current] = 0]
      /\ stack_saved' = [stack_saved EXCEPT ![current] = 0]
      /\ UNCHANGED <<sp, current, stack_stop, stack_prev, target, owner, chain>>
  BY DEF Die, FreeStackCopy, switching, FieldsOK
<1>1. FieldsOK'
  BY <1>0 DEF FieldsOK
<1>2. \A g \in Greenlets : g # current => InPlaceFrom(g)' = InPlaceFrom(g)
  BY <1>0 DEF InPlaceFrom, Low, FieldsOK
<1>3. Owners' = Owners \ {current}
  BY <1>0, <1>2 DEF Owners, InPlace, Active, FieldsOK
<1>4. Slices'
  BY <1>0, <1>2 DEF Slices, Active, Started, ChainInv, FieldsOK
<1>5. \A r \in Owners \ {current} : stack_stop[current] < stack_stop[r]
  BY <1>0 DEF Owners, InPlace, InPlaceFrom, Low, ChainInv, RunInv, FieldsOK
<1>6. RunInv'
  BY <1>0, <1>2, <1>3, <1>5 DEF RunInv, ChainInv, Linked, Lowest, Owners, FieldsOK
<1>7. Stacked'
  BY <1>0, <1>2, <1>3 DEF Stacked, Owners, ChainInv
<1>8. QED
  BY <1>0, <1>1, <1>4, <1>6, <1>7 DEF ChainInv

\* Only finished greenlets are recycled, and they own nothing.
LEMMA RecycleIInv ==
  ASSUME IInv, NEW g \in Greenlets, Recycle(g)
  PROVE  IInv'
<1> USE MainAssumption, TopAssumption DEF Null, Running, Infinity, Cells, IInv
<1>0. /\ pc = "run" /\ pc' = "run"
      /\ g # current /\ ~Active(g) /\ g # Main
      /\ stack_stop' = [stack_stop EXCEPT ![g] = 0]
      /\ stack_prev' = [stack_prev EXCEPT ![g] = NoOne]
      /\ UNCHANGED <<sp, current, stack_start, stack_saved, target, owner, chain>>
  BY DEF Recycle, switching, ChainInv, Slices
<1>1. FieldsOK'
  BY <1>0 DEF FieldsOK
<1>2. \A h \in Greenlets : InPlaceFrom(h)' = InPlaceFrom(h)
  BY <1>0 DEF InPlaceFrom, Low
<1>3. Owners' = Owners /\ g \notin Owners
  BY <1>0, <1>2 DEF Owners, InPlace, Active, FieldsOK
<1>4. Slices'
  BY <1>0, <1>2 DEF Slices, Active, Started, ChainInv, FieldsOK
<1>5. RunInv'
  BY <1>0, <1>2, <1>3 DEF RunInv, ChainInv, Linked, Lowest, Owners, FieldsOK
<1>6. Stacked'
  BY <1>0, <1>2, <1>3 DEF Stacked, Owners, ChainInv, FieldsOK
<1>7. QED
  BY <1>0, <1>1, <1>4, <1>5, <1>6 DEF ChainInv

\* The chain that a switch begins with runs from FirstOwner to main.
LEMMA FirstOwnerLowest ==
  ASSUME IInv, pc = "run"
  PROVE  Lowest(Owners, FirstOwner)
<1> USE MainAssumption, TopAssumption DEF Null, Running, Infinity, Cells, IInv
<1>1. ASSUME NEW r \in Owners \ {current}
      PROVE  stack_stop[current] < stack_stop[r]
  <2>1. /\ r \in Greenlets
        /\ stack_stop[current] <= InPlaceFrom(r)
        /\ InPlaceFrom(r) < stack_stop[r]
    BY DEF Owners, InPlace, ChainInv, RunInv
  <2>2. InPlaceFrom(r) \in Int /\ stack_stop[r] \in Int /\ stack_stop[current] \in Int
    BY <2>1 DEF InPlaceFrom, Low, FieldsOK
  <2>3. QED
    BY <2>1, <2>2
<1>2. CASE Active(current)
  <2>1. current \in Owners
    BY <1>2 DEF Owners, InPlace, InPlaceFrom, Low, ChainInv, RunInv, FieldsOK
  <2>2. QED
    BY <1>1, <1>2, <2>1 DEF FirstOwner, Lowest, FieldsOK, Owners
<1>3. CASE ~Active(current)
  BY <1>3 DEF FirstOwner, ChainInv, RunInv, Slices, Owners, InPlace, Lowest
<1>4. QED
  BY <1>2, <1>3

\* Beginning a switch leaves the owners and their slices as they are.
LEMMA SwitchToIInv ==
  ASSUME IInv, NEW g \in Greenlets, SwitchTo(g)
  PROVE  IInv'
<1> USE MainAssumption, TopAssumption DEF Null, Running, Infinity, Cells, IInv
<1>0. /\ pc = "run" /\ pc' = "save" /\ target' = g
      /\ g # current /\ Active(g) /\ current \in Greenlets
      /\ owner' = FirstOwner
      /\ chain' = Owners
      /\ stack_start' = IF Active(current) THEN [stack_start EXCEPT ![current] = sp]
                                           ELSE stack_start
      /\ UNCHANGED <<sp, current, stack_stop, stack_saved, stack_prev>>
  BY DEF SwitchTo, BeginSave, FieldsOK, Owners
<1>1. Lowest(Owners, FirstOwner) /\ FirstOwner \in Greenlets
  BY <1>0, FirstOwnerLowest DEF Lowest, Owners
<1>2. FieldsOK'
  BY <1>0, <1>1 DEF FieldsOK, Owners
<1>3. \A h \in Greenlets : Active(h)' <=> Active(h)
  BY <1>0 DEF Active, FieldsOK
<1>4. \A h \in Greenlets : Active(h) => InPlaceFrom(h)' = InPlaceFrom(h)
  BY <1>0 DEF InPlaceFrom, Low, FieldsOK
<1>5. Owners' = Owners
  BY <1>0, <1>3, <1>4 DEF Owners, InPlace, FieldsOK
<1>6. Slices'
  BY <1>0, <1>3, <1>4 DEF Slices, Started, ChainInv, FieldsOK, RunInv, InPlaceFrom, Low
<1>7. Stacked'
  BY <1>0, <1>4, <1>5 DEF Stacked, Owners, InPlace, ChainInv
<1>8. FirstOwner' = FirstOwner
  BY <1>0, <1>3 DEF FirstOwner
<1>9. SwitchInv'
  <2>1. Linked(Owners) /\ Main \in Owners /\ Started(g)
    BY <1>0 DEF ChainInv, RunInv, Slices
  <2>2. \A h, r \in Owners : h # r => stack_stop[h] # stack_stop[r]
    BY DEF ChainInv, Stacked
  <2>3. Linked(chain)'
    BY <1>0, <2>1 DEF Linked
  <2>4. Lowest(chain, FirstOwner)'
    BY <1>0, <1>1, <1>8 DEF Lowest
  <2>5. QED
    BY <1>0, <1>3, <2>1, <2>2, <2>3, <2>4 DEF SwitchInv, Started, Owners, InPlace
<1>10. SaveInv'
  BY <1>0, <1>1, <1>3, <1>5 DEF SaveInv, Lowest, Owners, FieldsOK
<1>11. QED
  BY <1>0, <1>2, <1>6, <1>7, <1>9, <1>10 DEF ChainInv

\* g_initialstub() gives the new greenlet the slice just below the running one.
LEMMA InitialStubIInv ==
  ASSUME IInv, NEW g \in Greenlets, InitialStub(g)
  PROVE  IInv'
<1> USE MainAssumption, TopAssumption DEF Null, Running, Infinity, Cells, IInv
<1>0. /\ pc = "run" /\ pc' = "save" /\ target' = g
      /\ ~Started(g) /\ current \in Greenlets
      /\ sp > 2 /\ sp \in Cells /\ sp' = sp - 1
      /\ owner' = FirstOwner
      /\ chain' = Owners
      /\ stack_start' = IF Active(current) THEN [stack_start EXCEPT ![current] = sp - 1]
                                           ELSE stack_start
      /\ stack_stop' = [stack_stop EXCEPT ![g] = sp]
      /\ stack_prev' = [stack_prev EXCEPT ![g] = FirstOwner]
      /\ UNCHANGED <<current, stack_saved>>
  BY DEF InitialStub, BeginSave, FieldsOK, Owners
<1>1. /\ Lowest(Owners, FirstOwner)
      /\ FirstOwner \in Greenlets
      /\ g # current /\ ~Active(g) /\ g # Main /\ g \notin Owners
  BY <1>0, FirstOwnerLowest DEF Lowest, Owners, ChainInv, Slices, Started, InPlace
<1>2. FieldsOK'
  BY <1>0, <1>1 DEF FieldsOK, Owners
<1>3. \A h \in Greenlets : Active(h)' <=> Active(h)
  BY <1>0 DEF Active, FieldsOK
<1>4. \A h \in Greenlets : h # current => InPlaceFrom(h)' = InPlaceFrom(h)
  BY <1>0 DEF InPlaceFrom, Low, FieldsOK
<1>5. Active(current) => /\ InPlaceFrom(current) = sp
                         /\ InPlaceFrom(current)' = sp - 1
                         /\ current \in Owners
                         /\ sp < stack_stop[current]
  BY <1>0 DEF InPlaceFrom, Low, FieldsOK, ChainInv, RunInv, Owners, InPlace
<1>6. Owners' = Owners
  BY <1>0, <1>1, <1>3, <1>4, <1>5 DEF Owners, InPlace, FieldsOK
<1>7. Slices'
  BY <1>0, <1>1, <1>3, <1>4, <1>5 DEF Slices, Started, ChainInv, FieldsOK, InPlaceFrom, Low
<1>8. sp < stack_stop[FirstOwner]
  <2>1. CASE Active(current)
    BY <1>5, <2>1 DEF FirstOwner
  <2>2. CASE ~Active(current)
    <3>1. FirstOwner \in Owners \ {current}
      BY <1>1, <2>2 DEF Lowest, Owners, InPlace
    <3>2. /\ stack_stop[current] <= InPlaceFrom(FirstOwner)
          /\ InPlaceFrom(FirstOwner) < stack_stop[FirstOwner]
          /\ sp < stack_stop[current]
      BY <1>0, <3>1 DEF ChainInv, RunInv, Owners, InPlace
    <3>3. InPlaceFrom(FirstOwner) \in Int /\ stack_stop[FirstOwner] \in Int
      BY <1>0, <1>1 DEF InPlaceFrom, Low, FieldsOK
    <3>4. QED
      BY <1>0, <3>2, <3>3 DEF FieldsOK
  <2>3. QED
    BY <2>1, <2>2
<1>9. Stacked'
  <2>1. \A h, r \in Owners : h # r =>
            /\ stack_stop[h] # stack_stop[r]
            /\ stack_stop[h] < stack_stop[r] => r # current \/ ~Active(current)
    BY <1>0, <1>1, <1>5 DEF Lowest, FirstOwner, Owners, FieldsOK, ChainInv, Stacked
  <2>2. QED
    BY <1>0, <1>1, <1>4, <1>6, <2>1 DEF Stacked, Owners, InPlace, ChainInv, FieldsOK
<1>10. FirstOwner' = FirstOwner
  BY <1>0, <1>1, <1>3 DEF FirstOwner, FieldsOK
<1>11. SwitchInv'
  <2>1. Linked(Owners) /\ Main \in Owners
    BY <1>0 DEF ChainInv, RunInv
  <2>2. \A h, r \in Owners : h # r => stack_stop[h] # stack_stop[r]
    BY DEF ChainInv, Stacked
  <2>3. Linked(chain)'
    BY <1>0, <1>1, <2>1 DEF Linked, Owners, FieldsOK
  <2>4. Lowest(chain, FirstOwner)'
    BY <1>0, <1>1, <1>10 DEF Lowest, Owners, FieldsOK
  <2>5. \A h \in Owners : Active(h)'
    BY <1>3 DEF Owners, InPlace
  <2>6. Started(g)'
    BY <1>0 DEF Started, FieldsOK
  <2>7. QED
    BY <1>0, <1>1, <2>1, <2>2, <2>3, <2>4, <2>5, <2>6 DEF SwitchInv, Owners, FieldsOK
<1>12. SaveInv'
  <2>0. FirstOwner # g
    BY <1>1 DEF Lowest
  <2>1. /\ owner' = FirstOwner'
        /\ stack_prev'[g] = FirstOwner
        /\ stack_stop'[g] = sp' + 1
        /\ stack_stop'[g] < stack_stop'[FirstOwner]
    BY <1>0, <1>1, <1>8, <1>10, <2>0 DEF FieldsOK
  <2>2. /\ FirstOwner \in Owners
        /\ \A h \in Owners : stack_stop'[FirstOwner] <= stack_stop'[h]
    BY <1>0, <1>1 DEF Lowest, Owners, FieldsOK
  <2>3. Active(current)' => stack_start'[current] = sp'
    BY <1>0, <1>3 DEF FieldsOK
  <2>4. \A h \in Owners : ~(stack_stop'[h] < stack_stop'[FirstOwner])
    BY <1>0, <1>1, <1>2, <2>2 DEF FieldsOK, Owners
  <2>5. QED
    BY <1>0, <1>6, <1>10, <2>1, <2>2, <2>3, <2>4 DEF SaveInv
<1>13. QED
  BY <1>0, <1>2, <1>7, <1>9, <1>11, <1>12 DEF ChainInv

\* What SaveUpTo(g, stop) does to the slice of g, and to no other.
LEMMA SaveUpToSlice ==
  ASSUME FieldsOK, NEW g \in Greenlets, NEW stop \in 0..Infinity,
         pc # "run", pc' # "run", stack_start' = stack_start, SaveUpTo(g, stop)
  PROVE  /\ stack_saved' \in [Greenlets -> Nat]
         /\ InPlaceFrom(g)' = IF InPlaceFrom(g) < stop THEN stop ELSE InPlaceFrom(g)
         /\ stack_saved'[g] >= stack_saved[g]
         /\ \A h \in Greenlets : h # g => /\ InPlaceFrom(h)' = InPlaceFrom(h)
                                         /\ stack_saved'[h] = stack_saved[h]
<1> USE TopAssumption DEF Infinity, FieldsOK
<1>1. CASE Spills(g, stop)
  <2>1. stack_saved' = [stack_saved EXCEPT ![g] = stop - stack_start[g]]
    BY <1>1 DEF SaveUpTo
  <2>2. QED
    BY <1>1, <2>1 DEF Spills, InPlaceFrom, Low
<1>2. CASE ~Spills(g, stop)
  <2>1. stack_saved' = stack_saved
    BY <1>2 DEF SaveUpTo
  <2>2. QED
    BY <1>2, <2>1 DEF Spills, InPlaceFrom, Low
<1>3. QED
  BY <1>1, <1>2

\* An owner that lies wholly below the target leaves the C stack.
LEMMA SaveWholeIInv ==
  ASSUME IInv, SaveWhole
  PROVE  IInv'
<1> USE MainAssumption, TopAssumption DEF Null, Running, Infinity, Cells, IInv
<1>0. /\ pc = "save" /\ pc' = "save"
      /\ stack_stop[owner] < stack_stop[target]
      /\ SaveUpTo(owner, stack_stop[owner])
      /\ owner' = stack_prev[owner]
      /\ UNCHANGED <<sp, current, stack_start, stack_stop, stack_prev, target, chain>>
  BY DEF SaveWhole
<1>1. /\ SwitchInv /\ SaveInv /\ Slices /\ Stacked
      /\ owner \in chain /\ owner \in Greenlets /\ owner \in Owners
      /\ target \in Greenlets
      /\ owner # target /\ owner # Main /\ Active(target)
  BY <1>0 DEF ChainInv, SwitchInv, SaveInv, FieldsOK, Slices
<1>o. PICK o \in Greenlets : o = owner
  BY <1>1
<1>2. /\ stack_saved' \in [Greenlets -> Nat]
      /\ InPlaceFrom(o)' = stack_stop[o]
      /\ stack_saved'[o] >= stack_saved[o]
      /\ \A h \in Greenlets : h # o => /\ InPlaceFrom(h)' = InPlaceFrom(h)
                                          /\ stack_saved'[h] = stack_saved[h]
  <2>1. stack_stop[o] \in 0..Infinity /\ InPlaceFrom(o) < stack_stop[o]
    BY <1>1, <1>o DEF FieldsOK, Owners, InPlace
  <2>2. pc # "run" /\ pc' # "run"
    BY <1>0
  <2> HIDE DEF Infinity, IInv
  <2>3. QED
    BY <1>0, <1>1, <1>o, <2>1, <2>2, SaveUpToSlice DEF IInv
<1>3. /\ stack_prev[owner] \in chain
      /\ stack_stop[owner] < stack_stop[stack_prev[owner]]
      /\ \A r \in chain : stack_stop[owner] < stack_stop[r] =>
                           stack_stop[stack_prev[owner]] <= stack_stop[r]
  BY <1>1 DEF SwitchInv, Linked
<1>4. FieldsOK'
  BY <1>0, <1>2, <1>3 DEF FieldsOK
<1>5. Owners' = Owners \ {owner}
  BY <1>0, <1>1, <1>o, <1>2 DEF Owners, InPlace, Active, FieldsOK
<1>6. Slices'
  <2>1. Active(o) /\ (\A h \in Greenlets : Active(h)' <=> Active(h))
    BY <1>0, <1>1, <1>o DEF SwitchInv, Active
  <2>2. \A h \in Greenlets : InPlaceFrom(h) <= stack_stop[h] => InPlaceFrom(h)' <= stack_stop[h]
    BY <1>2, <1>o DEF FieldsOK
  <2>3. QED
    BY <1>0, <1>1, <1>o, <1>2, <2>1, <2>2 DEF Slices, Started
<1>7. Stacked'
  BY <1>0, <1>1, <1>o, <1>2, <1>5 DEF Stacked, Owners
<1>8. SwitchInv'
  BY <1>0, <1>1 DEF SwitchInv, Linked, Lowest, FirstOwner, Active, Started
<1>9. SaveInv'
  <2>1. \A h \in chain : stack_stop[h] \in Int
    BY DEF FieldsOK
  <2>2. \A h \in chain \ {owner} : stack_stop[h] # stack_stop[owner]
    BY <1>1 DEF SwitchInv
  <2>3. Owners \ {owner} = {h \in chain : stack_stop[stack_prev[owner]] <= stack_stop[h]}
    BY <1>1, <1>3, <2>1, <2>2 DEF SaveInv
  <2>4. \A h \in chain : stack_stop[h] < stack_stop[stack_prev[owner]] =>
                          stack_stop[h] < stack_stop[target]
    BY <1>0, <1>1, <1>3, <2>1 DEF SaveInv, FieldsOK
  <2>5. QED
    BY <1>0, <1>1, <1>3, <1>5, <2>3, <2>4 DEF SaveInv, Active
<1>10. QED
  BY <1>0, <1>4, <1>6, <1>7, <1>8, <1>9 DEF ChainInv

\* After the last save nothing another greenlet needs is below the target.
LEMMA SavePartOwners ==
  ASSUME IInv, pc = "save", pc' # "run",
         stack_stop[owner] >= stack_stop[target],
         SavePart, stack_start' = stack_start, stack_stop' = stack_stop
  PROVE  /\ stack_saved' \in [Greenlets -> Nat]
         /\ {h \in Greenlets : InPlace(h)'} \ {target} =
                {h \in chain : stack_stop[target] < stack_stop[h]}
         /\ \A h \in Greenlets : InPlaceFrom(h)' >= InPlaceFrom(h)
         /\ \A h \in Greenlets : h = target \/ h # owner =>
                /\ InPlaceFrom(h)' = InPlaceFrom(h)
                /\ stack_saved'[h] = stack_saved[h]
         /\ \A h \in Greenlets : h = owner => InPlaceFrom(h)' <= stack_stop[h]
         /\ \A h \in Greenlets \ {target} : InPlace(h)' =>
                stack_stop[target] <= InPlaceFrom(h)'
<1> USE MainAssumption, TopAssumption DEF Null, Running, Infinity, Cells, IInv
<1>1. /\ SwitchInv /\ SaveInv /\ Slices /\ Stacked
      /\ owner \in chain /\ owner \in Greenlets /\ owner \in Owners
      /\ target \in Greenlets
  BY DEF ChainInv, SwitchInv, SaveInv, FieldsOK
<1>o. PICK o \in Greenlets : o = owner
  BY <1>1
<1>2. \A h \in Greenlets : /\ stack_stop[h] \in Int /\ InPlaceFrom(h) \in Int
                           /\ Active(h)' <=> Active(h)
  BY DEF FieldsOK, InPlaceFrom, Low, Active
<1>3. CASE owner = target
  <2>1. stack_saved' = stack_saved
    BY <1>3 DEF SavePart
  <2>2. \A h \in Greenlets : InPlaceFrom(h)' = InPlaceFrom(h)
    BY <2>1 DEF InPlaceFrom, Low
  <2>3. \A h \in Greenlets : InPlace(h)' <=> h \in Owners
    BY <1>2, <2>2 DEF Owners, InPlace
  <2>4. \A h \in chain : h # target => stack_stop[h] # stack_stop[target]
    BY <1>1, <1>3 DEF SwitchInv
  <2>5. {h \in Greenlets : InPlace(h)'} \ {target} =
                {h \in chain : stack_stop[target] < stack_stop[h]}
    BY <1>1, <1>2, <1>3, <2>3, <2>4 DEF SaveInv, FieldsOK
  <2>6. \A h \in Greenlets \ {target} : InPlace(h)' => stack_stop[target] <= InPlaceFrom(h)'
    BY <1>1, <1>2, <1>3, <2>2, <2>3, <2>4 DEF Stacked, SaveInv
  <2>7. InPlaceFrom(owner) <= stack_stop[owner]
    BY <1>1, <1>2 DEF Owners, InPlace
  <2>8. QED
    BY <1>1, <1>2, <2>1, <2>2, <2>5, <2>6, <2>7 DEF FieldsOK
<1>4. CASE owner # target
  <2>1. SaveUpTo(owner, stack_stop[target])
    BY <1>4 DEF SavePart
  <2>2. /\ stack_saved' \in [Greenlets -> Nat]
        /\ InPlaceFrom(o)' = IF InPlaceFrom(o) < stack_stop[target]
                                 THEN stack_stop[target] ELSE InPlaceFrom(o)
        /\ \A h \in Greenlets : h # o => /\ InPlaceFrom(h)' = InPlaceFrom(h)
                                            /\ stack_saved'[h] = stack_saved[h]
    <3>1. stack_stop[target] \in 0..Infinity
      BY <1>1 DEF FieldsOK
    <3> HIDE DEF Infinity, IInv
    <3>2. QED
      BY <1>1, <1>o, <2>1, <3>1, SaveUpToSlice DEF IInv
  <2>3. InPlaceFrom(o) < stack_stop[owner]
    BY <1>1, <1>o DEF Owners, InPlace
  <2>4. target \notin chain \/ stack_stop[target] < stack_stop[owner]
    BY <1>1, <1>o, <1>2, <1>4 DEF SwitchInv
  <2>5. target \notin Owners
    BY <1>1, <1>o, <1>2, <1>4 DEF SaveInv, SwitchInv
  <2>6. \A h \in Greenlets \ {o} : InPlace(h)' <=> h \in Owners
    BY <1>2, <1>o, <2>2 DEF Owners, InPlace
  <2>7. InPlace(o)' <=> stack_stop[target] < stack_stop[owner]
    BY <1>1, <1>o, <1>2, <2>2, <2>3 DEF Owners, InPlace
  <2>8. \A h \in chain : h # o => stack_stop[h] # stack_stop[owner]
    BY <1>1, <1>o DEF SwitchInv
  <2>9. \A h \in Greenlets : InPlace(h)' /\ h # target
                        <=> h \in chain /\ stack_stop[target] < stack_stop[h]
    <3> SUFFICES ASSUME NEW h \in Greenlets
                 PROVE  InPlace(h)' /\ h # target
                        <=> h \in chain /\ stack_stop[target] < stack_stop[h]
      OBVIOUS
    <3>1. CASE h = o
      BY <1>1, <1>o, <1>4, <2>7, <3>1
    <3>2. CASE h # o
      <4>1. h \in Owners <=> h \in chain /\ stack_stop[owner] <= stack_stop[h]
        BY <1>1 DEF SaveInv
      <4>2. h \in chain => stack_stop[h] < stack_stop[target] \/ stack_stop[owner] < stack_stop[h]
        BY <1>1, <1>o, <1>2, <2>8, <3>2 DEF SaveInv
      <4>3. h \in Owners => h # target
        BY <2>5
      <4>4. QED
        BY <1>1, <1>o, <1>2, <2>6, <3>2, <4>1, <4>2, <4>3
    <3>3. QED
      BY <3>1, <3>2
  <2>10. {h \in Greenlets : InPlace(h)'} \ {target} =
                {h \in chain : stack_stop[target] < stack_stop[h]}
    BY <2>9 DEF FieldsOK
  <2>11. \A h \in Greenlets \ {target} : InPlace(h)' => stack_stop[target] <= InPlaceFrom(h)'
    <3> SUFFICES ASSUME NEW h \in Greenlets \ {target}, InPlace(h)'
                 PROVE  stack_stop[target] <= InPlaceFrom(h)'
      OBVIOUS
    <3>1. CASE h = o
      BY <1>1, <1>o, <1>2, <2>2, <3>1
    <3>2. CASE h # o
      <4>1. h \in Owners /\ stack_stop[owner] <= stack_stop[h]
        BY <1>1, <1>o, <2>6, <3>2 DEF SaveInv
      <4>2. stack_stop[owner] <= InPlaceFrom(h)
        BY <1>1, <1>o, <1>2, <3>2, <4>1 DEF Stacked
      <4>3. QED
        BY <1>1, <1>o, <1>2, <2>2, <3>2, <4>2
    <3>3. QED
      BY <3>1, <3>2
  <2>12. QED
    BY <1>1, <1>o, <1>2, <1>4, <2>2, <2>3, <2>10, <2>11
<1>5. QED
  BY <1>3, <1>4

\* The slices stay well formed in any step that spills up to the target.
LEMMA SavePartSlices ==
  ASSUME IInv, pc = "save", pc' # "run",
         stack_stop[owner] >= stack_stop[target], SavePart,
         stack_start' = stack_start, stack_stop' = stack_stop, current' = current
  PROVE  Slices' /\ Stacked'
<1> USE MainAssumption, TopAssumption DEF Null, Running, Infinity, Cells, IInv
<1>1. /\ SwitchInv /\ SaveInv /\ Slices /\ Stacked
      /\ owner \in chain /\ owner \in Greenlets /\ Active(owner)
      /\ target \in Greenlets
  BY DEF ChainInv, SwitchInv, SaveInv, FieldsOK
<1>2. PICK o \in Greenlets : o = owner
  BY <1>1
<1>3. /\ \A h \in Greenlets : InPlaceFrom(h)' >= InPlaceFrom(h)
      /\ \A h \in Greenlets : h # o => /\ InPlaceFrom(h)' = InPlaceFrom(h)
                                      /\ stack_saved'[h] = stack_saved[h]
      /\ InPlaceFrom(o)' <= stack_stop[o]
      /\ \A h \in Greenlets \ {target} : InPlace(h)' => stack_stop[target] <= InPlaceFrom(h)'
      /\ stack_saved' \in [Greenlets -> Nat]
  BY <1>1, <1>2, SavePartOwners
<1>4. \A h \in Greenlets : /\ Active(h)' <=> Active(h)
                           /\ Started(h)' <=> Started(h)
                           /\ stack_stop[h] \in Int
                           /\ InPlaceFrom(h) \in Int /\ InPlaceFrom(h)' \in Int
  BY <1>3 DEF Active, Started, FieldsOK, InPlaceFrom, Low
<1>5. Slices'
  <2>1. \A h \in Greenlets : InPlaceFrom(h) <= stack_stop[h] => InPlaceFrom(h)' <= stack_stop[h]
    BY <1>2, <1>3
  <2>2. \A h \in Greenlets : ~Active(h) => stack_saved'[h] = 0
    BY <1>1, <1>2, <1>3 DEF Slices
  <2>3. Active(Main) /\ Started(current)
    BY <1>1 DEF Slices
  <2>4. \A h \in Greenlets : \/ /\ stack_start[h] > 1 /\ stack_start[h] < stack_stop[h]
                                /\ InPlaceFrom(h) <= stack_stop[h]
                             \/ ~Active(h)
    BY <1>1 DEF Slices
  <2>5. /\ Active(Main)' /\ stack_stop'[Main] = Top + 1 /\ Started(current)'
        /\ \A h \in Greenlets : /\ Started(h)' => stack_stop'[h] > 2
                                /\ h # Main => stack_stop'[h] <= Top
                                /\ Active(h)' => Started(h)'
    BY <1>1, <1>4, <2>3 DEF Slices, FieldsOK
  <2>6. QED
    BY <1>4, <2>1, <2>2, <2>4, <2>5 DEF Slices
<1>6. Stacked'
  <2>1. \A h \in Greenlets : InPlace(h)' => h \in Owners
    BY <1>3, <1>4 DEF InPlace, Owners
  <2>2. \A h, r \in Owners : h # r =>
            /\ stack_stop[h] # stack_stop[r]
            /\ stack_stop[h] < stack_stop[r] => stack_stop[h] <= InPlaceFrom(r)'
    BY <1>1, <1>3, <1>4 DEF Stacked, Owners
  <2>3. QED
    BY <2>1, <2>2 DEF Stacked, Owners
<1>7. QED
  BY <1>5, <1>6

\* The target is ready to be copied back.
LEMMA SaveLastIInv ==
  ASSUME IInv, SaveLast
  PROVE  IInv'
<1> USE MainAssumption, TopAssumption DEF Null, Running, Infinity, Cells, IInv
<1>0. /\ pc = "save" /\ pc' = "restore" /\ pc' # "run"
      /\ stack_stop[owner] >= stack_stop[target] /\ Active(target) /\ SavePart
      /\ stack_start' = stack_start /\ stack_stop' = stack_stop /\ current' = current
      /\ UNCHANGED <<sp, stack_prev, target, owner, chain>>
  BY DEF SaveLast
<1>1. SwitchInv /\ target \in Greenlets
  BY <1>0 DEF ChainInv, SwitchInv
<1>2. Slices' /\ Stacked'
  BY <1>0, SavePartSlices
<1>3. /\ stack_saved' \in [Greenlets -> Nat]
      /\ {h \in Greenlets : InPlace(h)'} \ {target} =
                {h \in chain : stack_stop[target] < stack_stop[h]}
      /\ \A h \in Greenlets \ {target} : InPlace(h)' => stack_stop[target] <= InPlaceFrom(h)'
  BY <1>0, SavePartOwners
<1>4. FieldsOK'
  BY <1>0, <1>3 DEF FieldsOK
<1>5. SwitchInv'
  BY <1>0, <1>1 DEF SwitchInv, Linked, Lowest, FirstOwner, Active, Started
<1>6. RestoreInv'
  BY <1>0, <1>3 DEF RestoreInv, Owners, Active
<1>7. QED
  BY <1>0, <1>2, <1>4, <1>5, <1>6 DEF ChainInv

\* The copied-back target owns everything from its stack_start.
LEMMA RestoreIInv ==
  ASSUME IInv, Restore
  PROVE  IInv'
<1> USE MainAssumption, TopAssumption DEF Null, Running, Infinity, Cells, IInv
<1>0. /\ pc = "restore" /\ pc' = "relink"
      /\ sp' = stack_start[target]
      /\ stack_saved' = [stack_saved EXCEPT ![target] = 0]
      /\ owner' = FirstOwner
      /\ UNCHANGED <<current, stack_start, stack_stop, stack_prev, target, chain>>
  BY DEF Restore, FreeStackCopy
<1>1. /\ SwitchInv /\ RestoreInv /\ Slices /\ Stacked
      /\ target \in Greenlets /\ Active(target)
      /\ stack_start[target] > 1 /\ stack_start[target] < stack_stop[target]
      /\ stack_stop[target] <= Top + 1
      /\ FirstOwner \in chain
  BY <1>0 DEF ChainInv, SwitchInv, RestoreInv, Slices, Lowest, FieldsOK
<1>2. FieldsOK'
  BY <1>0, <1>1 DEF FieldsOK
<1>3. /\ \A h \in Greenlets : h # target => InPlaceFrom(h)' = InPlaceFrom(h)
      /\ \A h \in Greenlets : h = target => InPlaceFrom(h)' = stack_start[h]
      /\ \A h \in Greenlets : Active(h)' <=> Active(h)
  BY <1>0, <1>1 DEF InPlaceFrom, Low, Active, FieldsOK
<1>4. Owners' = Owners \cup {target}
  BY <1>0, <1>1, <1>3 DEF Owners, InPlace
<1>5. Slices'
  BY <1>0, <1>1, <1>3 DEF Slices, Started, FieldsOK
<1>6. Stacked'
  <2>0. \A r \in Greenlets : stack_stop[r] \in Int /\ InPlaceFrom(r) \in Int
    BY DEF FieldsOK, InPlaceFrom, Low
  <2>1. \A r \in Owners \ {target} : /\ stack_stop[target] <= InPlaceFrom(r)
                                     /\ InPlaceFrom(r) < stack_stop[r]
                                     /\ stack_stop[r] \in Int /\ InPlaceFrom(r) \in Int
    BY <1>1, <2>0 DEF RestoreInv, Owners, InPlace
  <2>2. stack_stop[target] \in Int
    BY <1>1 DEF FieldsOK
  <2>3. QED
    BY <1>0, <1>1, <1>3, <1>4, <2>1, <2>2 DEF Stacked, Owners
<1>7. SwitchInv'
  BY <1>0, <1>1 DEF SwitchInv, Linked, Lowest, FirstOwner, Active, Started
<1>8. RestoreInv'
  BY <1>0, <1>1, <1>3, <1>4 DEF RestoreInv, Owners
<1>9. RelinkInv'
  <2>1. /\ owner' = FirstOwner
        /\ \A r \in chain : stack_stop[FirstOwner] <= stack_stop[r]
    BY <1>0, <1>1 DEF SwitchInv, Lowest
  <2>2. FirstOwner # NoOne
    BY <1>1 DEF FieldsOK
  <2>3. QED
    BY <1>0, <1>1, <2>1, <2>2 DEF RelinkInv, FieldsOK
<1>10. QED
  BY <1>0, <1>2, <1>5, <1>6, <1>7, <1>8, <1>9 DEF ChainInv

\* The second loop only walks the chain.
LEMMA RelinkIInv ==
  ASSUME IInv, Relink
  PROVE  IInv'
<1> USE MainAssumption, TopAssumption DEF Null, Running, Infinity, Cells, IInv
<1>0. /\ pc = "relink" /\ pc' = "relink"
      /\ owner # NoOne
      /\ stack_stop[owner] <= stack_stop[target]
      /\ owner' = stack_prev[owner]
      /\ UNCHANGED <<sp, current, stack_start, stack_stop, stack_saved, stack_prev, target, chain>>
  BY DEF Relink, Passed, state
<1>1. /\ SwitchInv /\ RestoreInv /\ RelinkInv /\ Slices /\ Stacked
      /\ target \in Greenlets /\ owner \in chain /\ owner \in Greenlets
  BY <1>0 DEF ChainInv, SwitchInv, RelinkInv, FieldsOK
<1>2. FieldsOK'
  BY <1>0, <1>1 DEF FieldsOK
<1>3. \A h \in Greenlets : /\ InPlaceFrom(h)' = InPlaceFrom(h)
                           /\ InPlace(h)' <=> InPlace(h)
                           /\ Active(h)' <=> Active(h)
  BY <1>0 DEF InPlaceFrom, Low, Active, InPlace
<1>4. Owners' = Owners
  BY <1>3 DEF Owners
<1>5. Slices' /\ Stacked'
  BY <1>0, <1>1, <1>3, <1>4 DEF Slices, Stacked, Started, Owners
<1>6. SwitchInv' /\ RestoreInv'
  BY <1>0, <1>1, <1>3, <1>4 DEF SwitchInv, RestoreInv, Linked, Lowest, FirstOwner, Active, Started, Owners
<1>7. RelinkInv'
  <2>1. \/ owner = Main /\ stack_prev[owner] = NoOne
        \/ /\ stack_prev[owner] \in chain
           /\ \A r \in chain : stack_stop[owner] < stack_stop[r] =>
                                stack_stop[stack_prev[owner]] <= stack_stop[r]
    BY <1>1 DEF SwitchInv, Linked
  <2>2. \A r \in chain : stack_stop[target] < stack_stop[r] => stack_stop[owner] < stack_stop[r]
    BY <1>0, <1>1 DEF FieldsOK
  <2>3. owner = Main => \A r \in chain : ~(stack_stop[target] < stack_stop[r])
    BY <1>0, <1>1 DEF FieldsOK, Slices
  <2>4. QED
    BY <1>0, <1>1, <2>1, <2>2, <2>3 DEF RelinkInv, FieldsOK
<1>8. QED
  BY <1>0, <1>2, <1>5, <1>6, <1>7 DEF ChainInv

\* A new greenlet starts: its slice is the lowest.
LEMMA EnterNewIInv ==
  ASSUME IInv, EnterNew
  PROVE  IInv'
<1> USE MainAssumption, TopAssumption DEF Null, Running, Infinity, Cells, IInv
<1>0. /\ pc = "save" /\ pc' = "run"
      /\ ~Active(target) /\ SavePart
      /\ stack_start' = [stack_start EXCEPT ![target] = 1]
      /\ current' = target /\ target' = NoOne /\ owner' = NoOne /\ chain' = {}
      /\ UNCHANGED <<sp, stack_stop, stack_prev>>
  BY DEF EnterNew
<1>1. /\ SwitchInv /\ SaveInv /\ Slices /\ Stacked
      /\ owner \in chain /\ owner \in Greenlets /\ Active(owner)
      /\ target \in Greenlets /\ target # owner /\ target # current /\ target # Main
      /\ stack_saved[target] = 0
  BY <1>0 DEF ChainInv, SwitchInv, SaveInv, FieldsOK, Slices
<1>o. PICK o \in Greenlets : o = owner
  BY <1>1
<1>t. PICK t \in Greenlets : t = target
  BY <1>1
<1>2. /\ stack_stop[t] = sp + 1 /\ sp \in Cells
      /\ stack_stop[t] < stack_stop[o]
      /\ stack_prev[t] = o
      /\ Owners = chain
      /\ \A r \in chain : stack_stop[o] <= stack_stop[r]
      /\ t \notin Owners
  BY <1>0, <1>1, <1>o, <1>t DEF SaveInv, SwitchInv, Lowest, FieldsOK, Owners, InPlace
<1>3. /\ stack_saved' \in [Greenlets -> Nat]
      /\ \A h \in Greenlets : h # o => stack_saved'[h] = stack_saved[h]
      /\ stack_saved'[o] = IF stack_start[o] + stack_saved[o] < stack_stop[t]
                           THEN stack_stop[t] - stack_start[o] ELSE stack_saved[o]
  <2>1. CASE Spills(owner, stack_stop[target])
    <3>1. stack_saved' = [stack_saved EXCEPT ![o] = stack_stop[t] - stack_start[o]]
      BY <1>0, <1>1, <1>o, <1>t, <2>1 DEF SavePart, SaveUpTo
    <3>2. QED
      BY <1>1, <1>o, <1>t, <2>1, <3>1 DEF FieldsOK, Spills
  <2>2. CASE ~Spills(owner, stack_stop[target])
    <3>1. stack_saved' = stack_saved
      BY <1>0, <1>1, <2>2 DEF SavePart, SaveUpTo
    <3>2. QED
      BY <1>1, <1>o, <1>t, <2>2, <3>1 DEF FieldsOK, Spills
  <2>3. QED
    BY <2>1, <2>2
<1>4. /\ \A h \in Greenlets : InPlaceFrom(h) = stack_start[h] + stack_saved[h]
      /\ InPlaceFrom(t)' = sp
      /\ \A h \in Greenlets : h # o /\ h # t => InPlaceFrom(h)' = InPlaceFrom(h)
      /\ InPlaceFrom(o)' = IF InPlaceFrom(o) < stack_stop[t] THEN stack_stop[t] ELSE InPlaceFrom(o)
  BY <1>0, <1>1, <1>o, <1>t, <1>3 DEF InPlaceFrom, Low, FieldsOK
<1>5. \A h \in Greenlets : /\ stack_stop[h] \in Int /\ InPlaceFrom(h) \in Int
                           /\ h # t => (Active(h)' <=> Active(h))
  BY <1>0, <1>t, <1>4 DEF FieldsOK, Active
<1>6. FieldsOK'
  <2>1. stack_start' \in [Greenlets -> 0..Top]
    <3>1. 1 \in 0..Top /\ stack_start \in [Greenlets -> 0..Top]
      BY DEF FieldsOK
    <3>2. QED
      BY <1>0, <3>1
  <2>2. stack_saved' \in [Greenlets -> Nat]
    BY <1>3
  <2>3. QED
    BY <1>0, <1>1, <2>1, <2>2 DEF FieldsOK
<1>7. Owners' = chain \cup {t}
  <2>1. Active(t)' /\ InPlace(t)'
    BY <1>0, <1>t, <1>2, <1>4 DEF InPlace, Active, FieldsOK
  <2>2. o \in Owners /\ InPlaceFrom(o) < stack_stop[o]
    BY <1>1, <1>o, <1>2 DEF Owners, InPlace
  <2>3. InPlace(o)'
    BY <1>0, <1>1, <1>o, <1>t, <1>2, <1>4, <1>5, <2>2 DEF InPlace
  <2>4. \A h \in Greenlets : h # o /\ h # t => (InPlace(h)' <=> InPlace(h))
    BY <1>0, <1>4, <1>5 DEF InPlace
  <2>5. QED
    BY <1>1, <1>2, <2>1, <2>2, <2>3, <2>4 DEF Owners
<1>8. Slices'
  <2>1. \A h \in Greenlets : InPlaceFrom(h) <= stack_stop[h] /\ h # t => InPlaceFrom(h)' <= stack_stop[h]
    BY <1>2, <1>4, <1>5
  <2>2. \A h \in Greenlets : ~Active(h)' => stack_saved'[h] = 0
    <3>1. Active(t)' /\ Active(o)'
      BY <1>0, <1>1, <1>o, <1>t, <1>5 DEF Active, FieldsOK
    <3>2. QED
      BY <1>1, <1>3, <1>5, <3>1 DEF Slices
  <2>3. Started(t) /\ (\A h \in Greenlets : Started(h)' <=> Started(h))
    BY <1>0, <1>1, <1>t DEF Started, SwitchInv
  <2>4. current' = t /\ (\A h \in Greenlets : h # t => h # current')
    BY <1>0, <1>t
  <2>5. \A h \in Greenlets : h # t => stack_start'[h] = stack_start[h]
    BY <1>0, <1>t DEF FieldsOK
  <2>6. QED
    BY <1>0, <1>1, <1>5, <1>t, <2>1, <2>2, <2>3, <2>4, <2>5 DEF Slices
<1>9. \A r \in chain : stack_stop[t] < stack_stop[r] /\ stack_stop[t] <= InPlaceFrom(r)'
  <2> SUFFICES ASSUME NEW r \in chain
               PROVE  stack_stop[t] < stack_stop[r] /\ stack_stop[t] <= InPlaceFrom(r)'
    OBVIOUS
  <2>0. r \in Greenlets /\ r \in Owners /\ r # t
    BY <1>2 DEF Owners
  <2>1. stack_stop[t] < stack_stop[r]
    BY <1>2, <1>5, <2>0
  <2>2. CASE r = o
    BY <1>4, <1>5, <2>1, <2>2
  <2>3. CASE r # o
    <3>1. stack_stop[o] < stack_stop[r]
      BY <1>1, <1>2, <1>5, <1>o, <2>0, <2>3 DEF SwitchInv
    <3>2. stack_stop[o] <= InPlaceFrom(r)
      BY <1>1, <1>2, <1>o, <2>0, <2>3, <3>1 DEF Stacked
    <3>3. QED
      BY <1>2, <1>4, <1>5, <2>0, <2>1, <2>3, <3>2
  <2>4. QED
    BY <2>2, <2>3
<1>10. Stacked'
  <2>1. \A h, r \in chain : h # r =>
            /\ stack_stop[h] # stack_stop[r]
            /\ stack_stop[h] < stack_stop[r] => stack_stop[h] <= InPlaceFrom(r)'
    <3> SUFFICES ASSUME NEW h \in chain, NEW r \in chain, h # r
                 PROVE  /\ stack_stop[h] # stack_stop[r]
                        /\ stack_stop[h] < stack_stop[r] => stack_stop[h] <= InPlaceFrom(r)'
      OBVIOUS
    <3>1. h \in Greenlets /\ r \in Greenlets /\ r # t /\ h \in Owners /\ r \in Owners
      BY <1>2 DEF Owners
    <3>2. r = o => ~(stack_stop[h] < stack_stop[r])
      BY <1>2, <1>5, <3>1
    <3>3. QED
      BY <1>1, <1>4, <3>1, <3>2 DEF Stacked
  <2>2. \A r \in chain : r \in Greenlets
    BY <1>2 DEF Owners
  <2>3. QED
    BY <1>0, <1>5, <1>7, <1>9, <2>1, <2>2 DEF Stacked
<1>11. RunInv'
  <2>1. stack_saved'[t] = 0 /\ sp' < stack_stop'[t] /\ current' = t
    BY <1>0, <1>1, <1>2, <1>3, <1>o, <1>t DEF FieldsOK
  <2>2. /\ stack_prev' = stack_prev /\ stack_stop' = stack_stop /\ stack_prev[t] = o
        /\ o \in chain /\ t \notin chain /\ t # Main
        /\ chain \subseteq Greenlets
    BY <1>0, <1>1, <1>2, <1>o, <1>t DEF Owners
  <2>3. Owners' \ {t} = chain
    BY <1>7, <2>2
  <2>4. Lowest(Owners \ {t}, o)'
    <3>1. \A r \in chain : stack_stop'[o] <= stack_stop'[r]
      BY <1>2, <2>2
    <3>2. QED
      BY <2>2, <2>3, <3>1 DEF Lowest
  <2>5. Linked(Owners)'
    <3> SUFFICES ASSUME NEW h \in chain \cup {t}
                 PROVE  \/ h = Main /\ stack_prev[h] = NoOne
                        \/ /\ h # Main
                           /\ stack_prev[h] \in chain \cup {t}
                           /\ stack_stop[h] < stack_stop[stack_prev[h]]
                           /\ \A r \in chain \cup {t} : stack_stop[h] < stack_stop[r] =>
                                          stack_stop[stack_prev[h]] <= stack_stop[r]
      BY <1>7, <2>2 DEF Linked
    <3>1. CASE h = t
      BY <1>2, <1>5, <2>2, <3>1
    <3>2. CASE h # t
      <4>1. h \in chain /\ h \in Greenlets /\ ~(stack_stop[h] < stack_stop[t])
        BY <1>5, <1>9, <2>2, <3>2
      <4>2. \/ h = Main /\ stack_prev[h] = NoOne
            \/ /\ h # Main
               /\ stack_prev[h] \in chain
               /\ stack_stop[h] < stack_stop[stack_prev[h]]
               /\ \A r \in chain : stack_stop[h] < stack_stop[r] =>
                                       stack_stop[stack_prev[h]] <= stack_stop[r]
        BY <1>1, <4>1 DEF SwitchInv, Linked
      <4>3. QED
        BY <4>1, <4>2
    <3>3. QED
      BY <3>1, <3>2
  <2>6. /\ Main \in Owners'
        /\ \A r \in Owners' \ {t} : stack_stop'[t] <= InPlaceFrom(r)'
    BY <1>1, <1>7, <1>9, <2>2, <2>3 DEF SwitchInv
  <2>7. current' = t /\ current' # Main /\ stack_prev'[t] = o
    BY <2>1, <2>2
  <2>8. Lowest(Owners \ {current}, stack_prev[current])'
    BY <2>4, <2>7 DEF Lowest
  <2>9. stack_saved'[current'] = 0 /\ sp' < stack_stop'[current']
    BY <2>1
  <2>10. \A r \in Owners' \ {current'} : stack_stop'[current'] <= InPlaceFrom(r)'
    BY <2>6, <2>7
  <2>11. QED
    BY <2>5, <2>6, <2>7, <2>8, <2>9, <2>10 DEF RunInv
<1>12. QED
  BY <1>0, <1>6, <1>8, <1>10, <1>11 DEF ChainInv

\* The loop has found the owner of what lies above the target.
LEMMA ResumeIInv ==
  ASSUME IInv, Resume
  PROVE  IInv'
<1> USE MainAssumption, TopAssumption DEF Null, Running, Infinity, Cells, IInv
<1>0. /\ pc = "relink" /\ pc' = "run"
      /\ owner # NoOne => ~(stack_stop[owner] <= stack_stop[target])
      /\ stack_prev' = [stack_prev EXCEPT ![target] = owner]
      /\ current' = target /\ target' = NoOne /\ owner' = NoOne /\ chain' = {}
      /\ UNCHANGED <<sp, stack_start, stack_stop, stack_saved>>
  BY DEF Resume, Passed
<1>1. /\ SwitchInv /\ RestoreInv /\ RelinkInv /\ Slices /\ Stacked
      /\ target \in Greenlets /\ Active(target)
  BY <1>0 DEF ChainInv, SwitchInv, RestoreInv
<1>t. PICK t \in Greenlets : t = target
  BY <1>1
<1>2. FieldsOK'
  BY <1>0, <1>1 DEF FieldsOK
<1>3. \A h \in Greenlets : /\ InPlaceFrom(h) = stack_start[h] + stack_saved[h]
                           /\ InPlaceFrom(h)' = InPlaceFrom(h)
                           /\ InPlace(h)' <=> InPlace(h)
                           /\ Active(h)' <=> Active(h)
                           /\ Started(h)' <=> Started(h)
                           /\ stack_stop[h] \in Int /\ InPlaceFrom(h) \in Int
  BY <1>0, <1>1 DEF InPlaceFrom, Low, Active, Started, InPlace, RelinkInv, FieldsOK
<1>4. /\ Owners' = Owners
      /\ \A h \in Owners : h \in Greenlets /\ Active(h) /\ InPlaceFrom(h) < stack_stop[h]
  BY <1>3 DEF Owners, InPlace
<1>5. Slices' /\ Stacked'
  <2>1. Stacked'
    BY <1>0, <1>1, <1>3, <1>4 DEF Stacked
  <2>2. Started(target)
    BY <1>1 DEF SwitchInv
  <2>3. \A h \in Greenlets : Active(h) => /\ stack_start[h] > 1
                                          /\ stack_start[h] < stack_stop[h]
                                          /\ InPlaceFrom(h) <= stack_stop[h]
    BY <1>0, <1>1 DEF Slices
  <2>4. Slices'
    BY <1>0, <1>1, <1>3, <2>2, <2>3 DEF Slices
  <2>5. QED
    BY <2>1, <2>4
<1>6. /\ t \in Owners /\ sp < stack_stop[t] /\ stack_saved[t] = 0
      /\ Owners \ {t} = {h \in chain : stack_stop[t] < stack_stop[h]}
      /\ \A r \in Owners \ {t} : stack_stop[t] <= InPlaceFrom(r)
  <2>1. InPlace(t)
    BY <1>1, <1>3, <1>t DEF RelinkInv, InPlace, FieldsOK
  <2>2. QED
    BY <1>1, <1>t, <2>1 DEF RestoreInv, RelinkInv, Owners
<1>7. \/ /\ owner = NoOne
         /\ Owners = {t} /\ t = Main
      \/ owner # NoOne /\ Lowest(Owners \ {t}, owner)
  <2>1. CASE owner = NoOne
    <3>1. Owners = {t}
      BY <1>1, <1>6, <1>t, <2>1 DEF RelinkInv
    <3>2. Main \in chain /\ stack_stop[Main] = Top + 1
      BY <1>1 DEF SwitchInv, Slices
    <3>3. t # Main => stack_stop[t] <= Top
      BY <1>1 DEF Slices
    <3>4. QED
      BY <1>3, <1>6, <2>1, <3>1, <3>2, <3>3
  <2>2. CASE owner # NoOne
    <3>1. owner \in chain /\ owner \in Greenlets
      BY <1>1, <2>2 DEF RelinkInv, FieldsOK
    <3>2. stack_stop[t] < stack_stop[owner]
      BY <1>0, <1>3, <1>t, <2>2, <3>1
    <3>3. QED
      BY <1>1, <1>6, <1>t, <2>2, <3>1, <3>2 DEF RelinkInv, Lowest
  <2>3. QED
    BY <2>1, <2>2
<1>8. t # Main <=> owner # NoOne
  <2>1. CASE t = Main
    <3>1. \A h \in Greenlets : ~(stack_stop[Main] < stack_stop[h])
      BY <1>1 DEF Slices, FieldsOK
    <3>2. Owners \ {t} = {}
      BY <1>4, <1>6, <2>1, <3>1
    <3>3. QED
      BY <1>7, <2>1, <3>2 DEF Lowest
  <2>2. QED
    BY <1>7, <2>1
<1>9. Main \in Owners
  <2>1. Main \in chain /\ stack_stop[Main] = Top + 1
    BY <1>1 DEF SwitchInv, Slices
  <2>2. t # Main => stack_stop[t] < stack_stop[Main]
    BY <1>1, <1>3, <2>1 DEF Slices
  <2>3. QED
    BY <1>6, <2>1, <2>2
<1>10. \A h \in Owners \ {t} : h # Main => stack_prev[h] \in Owners \ {t}
                                        /\ stack_stop[h] < stack_stop[stack_prev[h]]
                                        /\ \A r \in Owners : stack_stop[h] < stack_stop[r] =>
                                               stack_stop[stack_prev[h]] <= stack_stop[r]
  <2> SUFFICES ASSUME NEW h \in Owners \ {t}, h # Main
               PROVE  /\ stack_prev[h] \in Owners \ {t}
                      /\ stack_stop[h] < stack_stop[stack_prev[h]]
                      /\ \A r \in Owners : stack_stop[h] < stack_stop[r] =>
                             stack_stop[stack_prev[h]] <= stack_stop[r]
    OBVIOUS
  <2>1. /\ h \in chain /\ h \in Greenlets /\ stack_stop[t] < stack_stop[h]
        /\ stack_prev[h] \in chain
        /\ stack_stop[h] < stack_stop[stack_prev[h]]
        /\ \A r \in chain : stack_stop[h] < stack_stop[r] =>
                stack_stop[stack_prev[h]] <= stack_stop[r]
    BY <1>1, <1>4, <1>6 DEF SwitchInv, Linked
  <2>2. stack_prev[h] \in Greenlets
    BY <1>1, <2>1 DEF FieldsOK
  <2>3. stack_prev[h] \in Owners \ {t}
    BY <1>3, <1>6, <2>1, <2>2
  <2>4. ~(stack_stop[h] < stack_stop[t])
    BY <1>3, <2>1
  <2>5. QED
    BY <1>6, <2>1, <2>3, <2>4
<1>11. RunInv'
  <2>1. current' = t /\ Owners' = Owners
    BY <1>0, <1>4, <1>t
  <2>2. /\ stack_prev'[t] = owner
        /\ \A h \in Greenlets : h # t => stack_prev'[h] = stack_prev[h]
    BY <1>0, <1>t DEF FieldsOK
  <2>3. Linked(Owners)'
    <3> SUFFICES ASSUME NEW h \in Owners
                 PROVE  \/ h = Main /\ stack_prev'[h] = NoOne
                        \/ /\ h # Main
                           /\ stack_prev'[h] \in Owners
                           /\ stack_stop[h] < stack_stop[stack_prev'[h]]
                           /\ \A r \in Owners : stack_stop[h] < stack_stop[r] =>
                                                   stack_stop[stack_prev'[h]] <= stack_stop[r]
      BY <1>0, <2>1 DEF Linked
    <3>1. CASE h = t /\ t = Main
      BY <1>8, <2>2, <3>1
    <3>2. CASE h = t /\ t # Main
      <4>1. Lowest(Owners \ {t}, owner)
        BY <1>7, <3>2
      <4>2. owner \in Owners \ {t} /\ stack_stop[t] < stack_stop[owner]
        BY <1>6, <4>1 DEF Lowest
      <4>3. ~(stack_stop[t] < stack_stop[t])
        BY <1>3
      <4>4. QED
        BY <2>2, <3>2, <4>1, <4>2, <4>3 DEF Lowest
    <3>3. CASE h # t /\ h = Main
      <4>1. h \in chain
        BY <1>6, <3>3
      <4>2. stack_prev[h] = NoOne
        BY <1>1, <3>3, <4>1 DEF SwitchInv, Linked
      <4>3. QED
        BY <1>4, <2>2, <3>3, <4>2
    <3>4. CASE h # t /\ h # Main
      BY <1>4, <1>10, <2>2, <3>4
    <3>5. QED
      BY <3>1, <3>2, <3>3, <3>4
  <2>4. /\ stack_saved'[current'] = 0 /\ sp' < stack_stop'[current']
        /\ Main \in Owners'
        /\ \A r \in Owners' \ {current'} : stack_stop'[current'] <= InPlaceFrom(r)'
    BY <1>0, <1>3, <1>4, <1>6, <1>9, <2>1
  <2>5. \/ current' = Main /\ stack_prev'[current'] = NoOne
        \/ current' # Main /\ Lowest(Owners \ {current}, stack_prev[current])'
    BY <1>0, <1>7, <1>8, <2>1, <2>2 DEF Lowest
  <2>6. QED
    BY <2>3, <2>4, <2>5 DEF RunInv
<1>12. QED
  BY <1>0, <1>2, <1>5, <1>11 DEF ChainInv

\* The steps that end the program, and steps of others.
LEMMA StutterIInv ==
  ASSUME IInv, OutOfMemory \/ Aborted \/ UNCHANGED vars
  PROVE  IInv'
<1> USE DEF IInv
<1>0. /\ pc' = "fatal" \/ pc' = pc
      /\ pc = "run" => pc' = "run"
      /\ UNCHANGED <<stack, sp, current, state, target, owner, chain>>
  BY DEF OutOfMemory, Aborted, vars, state
<1>1. FieldsOK'
  BY <1>0 DEF FieldsOK, state
<1>2. \A h \in Greenlets : /\ InPlaceFrom(h)' = InPlaceFrom(h)
                           /\ InPlace(h)' <=> InPlace(h)
                           /\ Active(h)' <=> Active(h)
  BY <1>0 DEF InPlaceFrom, Low, Active, InPlace, state
<1>3. Owners' = Owners
  BY <1>2 DEF Owners
<1>4. Slices' /\ Stacked'
  <2>1. Stacked'
    BY <1>0, <1>2, <1>3 DEF ChainInv, Stacked, Owners, state
  <2>2. stack_start' = stack_start /\ stack_stop' = stack_stop /\ stack_saved' = stack_saved
        /\ current' = current /\ Slices
    BY <1>0 DEF state, ChainInv
  <2>3. \A g \in Greenlets : \/ g = current' /\ pc' = "run"
                             \/ ~(g = current /\ pc = "run")
    BY <1>0
  <2>4. Slices'
    BY <1>2, <2>2, <2>3, MainAssumption DEF Slices, Started
  <2>5. QED
    BY <2>1, <2>4
<1>5. CASE pc' = "fatal"
  BY <1>1, <1>4, <1>5 DEF ChainInv
<1>6. CASE pc' = pc
  <2>1. RunInv => RunInv'
    BY <1>0, <1>2, <1>3 DEF RunInv, Linked, Lowest, Owners, state
  <2>2. SwitchInv => SwitchInv'
    BY <1>0, <1>2, <1>3 DEF SwitchInv, Linked, Lowest, FirstOwner, Active, Started, state
  <2>3. SaveInv => SaveInv'
    BY <1>0, <1>2, <1>3 DEF SaveInv, FirstOwner, Active, state
  <2>4. RestoreInv => RestoreInv'
    BY <1>0, <1>2, <1>3 DEF RestoreInv, Active, Owners, state
  <2>5. RelinkInv => RelinkInv'
    BY <1>0, <1>2, <1>3 DEF RelinkInv, state
  <2>6. QED
    BY <1>1, <1>4, <1>6, <2>1, <2>2, <2>3, <2>4, <2>5 DEF ChainInv
<1>7. QED
  BY <1>0, <1>5, <1>6

LEMMA NextIInv ==
  ASSUME IInv, [Next]_vars
  PROVE  IInv'
<1>1. CASE Push \/ Pop
  BY <1>1, PushPopIInv
<1>2. CASE Die
  BY <1>2, DieIInv
<1>3. ASSUME NEW g \in Greenlets, SwitchTo(g)
      PROVE  IInv'
  BY <1>3, SwitchToIInv
<1>4. ASSUME NEW g \in Greenlets, InitialStub(g)
      PROVE  IInv'
  BY <1>4, InitialStubIInv
<1>5. ASSUME NEW g \in Greenlets, Recycle(g)
      PROVE  IInv'
  BY <1>5, RecycleIInv
<1>6. CASE SaveWhole
  BY <1>6, SaveWholeIInv
<1>7. CASE EnterNew
  BY <1>7, EnterNewIInv
<1>8. CASE SaveLast
  BY <1>8, SaveLastIInv
<1>9. CASE Restore
  BY <1>9, RestoreIInv
<1>10. CASE Relink
  BY <1>10, RelinkIInv
<1>11. CASE Resume
  BY <1>11, ResumeIInv
<1>12. CASE OutOfMemory \/ Aborted \/ UNCHANGED vars
  BY <1>12, StutterIInv
<1>13. QED
  BY <1>1, <1>2, <1>3, <1>4, <1>5, <1>6, <1>7, <1>8, <1>9, <1>10, <1>11, <1>12
     DEF Next, SlpSwitch

\* Whatever the greenlets do, the fields of every StackState, the chain and
\* the progress of a switch through slp_save_state() and slp_restore_state()
\* fit together.
THEOREM InvariantHolds == Spec => [](FieldsOK /\ ChainInv)
<1>1. Init => IInv
  BY InitIInv
<1>2. IInv /\ [Next]_vars => IInv'
  BY NextIInv
<1>3. QED
  BY <1>1, <1>2, PTL DEF Spec, IInv

\* The loops of copy_stack_to_heap() never follow a null pointer and never
\* save a greenlet that has finished (assert(this->_stack_start)).
THEOREM SaveHasOwnerHolds == Spec => []SaveHasOwner
<1>1. FieldsOK /\ ChainInv => SaveHasOwner
  BY MainAssumption DEF FieldsOK, ChainInv, SaveInv, SwitchInv, SaveHasOwner
<1>2. QED
  BY <1>1, InvariantHolds, PTL

\* Whenever Python code runs, stack_prev links the owners of the C stack in
\* address order up to main, and no two slices overlap.
THEOREM ChainOfOwnersHolds == Spec => []ChainOfOwners
<1>1. FieldsOK /\ ChainInv => ChainOfOwners
  <2> SUFFICES ASSUME FieldsOK, ChainInv, pc = "run"
               PROVE  /\ \A h \in Owners \cup {current} :
                            IF h = Main THEN stack_prev[h] = NoOne
                                        ELSE NextAbove(h, stack_prev[h])
                      /\ \A h \in Owners \cup {current}, r \in Owners :
                            h # r => \/ stack_stop[h] <= InPlaceFrom(r)
                                    \/ stack_stop[r] <= InPlaceFrom(h)
    BY DEF ChainOfOwners
  <2>1. RunInv /\ Slices /\ Stacked
    BY DEF ChainInv
  <2>2. \A h \in Greenlets : stack_stop[h] \in Int /\ InPlaceFrom(h) \in Int
    BY DEF FieldsOK, InPlaceFrom, Low, Cells
  <2>3. \A r \in Owners \ {current} : stack_stop[current] < stack_stop[r]
    <3> SUFFICES ASSUME NEW r \in Owners \ {current}
                 PROVE  stack_stop[current] < stack_stop[r]
      OBVIOUS
    <3>1. r \in Greenlets /\ stack_stop[current] <= InPlaceFrom(r)
                          /\ InPlaceFrom(r) < stack_stop[r]
      BY <2>1 DEF RunInv, Owners, InPlace
    <3>2. QED
      BY <2>2, <3>1 DEF FieldsOK
  <2>4. ASSUME NEW h \in Owners \cup {current}
        PROVE  IF h = Main THEN stack_prev[h] = NoOne ELSE NextAbove(h, stack_prev[h])
    <3>1. CASE h \in Owners
      BY <2>1, <3>1 DEF RunInv, Linked, NextAbove
    <3>2. CASE h \notin Owners
      <4>1. h = current
        BY <3>2
      <4>2. CASE current = Main
        BY <2>1, <4>1, <4>2 DEF RunInv
      <4>3. CASE current # Main
        BY <2>1, <2>3, <3>2, <4>1, <4>3 DEF RunInv, Lowest, NextAbove
      <4>4. QED
        BY <4>2, <4>3
    <3>3. QED
      BY <3>1, <3>2
  <2>5. ASSUME NEW h \in Owners \cup {current}, NEW r \in Owners, h # r
        PROVE  \/ stack_stop[h] <= InPlaceFrom(r)
               \/ stack_stop[r] <= InPlaceFrom(h)
    <3>1. CASE h \in Owners
      BY <2>1, <2>2, <2>5, <3>1 DEF Stacked, Owners
    <3>2. CASE h \notin Owners
      BY <2>1, <2>5, <3>2 DEF RunInv
    <3>3. QED
      BY <3>1, <3>2
  <2>6. QED
    BY <2>4, <2>5
<1>2. QED
  BY <1>1, InvariantHolds, PTL

\* Only suspended greenlets have a heap copy: assert(owner->_stack_saved == 0)
\* of copy_heap_to_stack() holds of whoever runs next.
THEOREM HeapOnlySuspendedHolds == Spec => []HeapOnlySuspended
<1>1. FieldsOK /\ ChainInv => HeapOnlySuspended
  BY DEF FieldsOK, ChainInv, Slices, RunInv, HeapOnlySuspended
<1>2. QED
  BY <1>1, InvariantHolds, PTL

-----------------------------------------------------------------------------
\* The part of TypeOK that speaks of what the cells hold.
CopiesOK ==
    /\ stack \in [Cells -> Contents]
    /\ DOMAIN stack_copy = Greenlets
    /\ \A g \in Greenlets : stack_copy[g] \in [0..(stack_saved[g] - 1) -> Contents]

\* A greenlet's heap copy can only grow by cells of its own slice.
LEMMA SaveUpToCopies ==
  ASSUME IInv, CopiesOK, NEW g \in Greenlets, NEW stop \in 0..Infinity,
         pc = "save", Active(g), SaveUpTo(g, stop)
  PROVE  /\ DOMAIN stack_copy' = Greenlets
         /\ \A h \in Greenlets : stack_copy'[h] \in [0..(stack_saved'[h] - 1) -> Contents]
<1> USE TopAssumption DEF CopiesOK
<1>1. /\ stack_start[g] > 1 /\ stack_start[g] \in Nat /\ stop \in Nat /\ stop <= Top + 1
      /\ stack_saved[g] \in Nat /\ stack_saved \in [Greenlets -> Nat]
  BY DEF IInv, FieldsOK, ChainInv, Slices, Infinity
<1>2. CASE Spills(g, stop)
  <2> DEFINE Copy == [i \in 0..(stop - stack_start[g] - 1) |->
                       IF i < stack_saved[g] THEN stack_copy[g][i]
                                             ELSE stack[stack_start[g] + i]]
  <2>1. /\ stack_copy' = [stack_copy EXCEPT ![g] = Copy]
        /\ stack_saved' = [stack_saved EXCEPT ![g] = stop - stack_start[g]]
    BY <1>2 DEF SaveUpTo
  <2>2. \A i \in 0..(stop - stack_start[g] - 1) :
            (IF i < stack_saved[g] THEN stack_copy[g][i] ELSE stack[stack_start[g] + i]) \in Contents
    <3> SUFFICES ASSUME NEW i \in 0..(stop - stack_start[g] - 1)
                 PROVE  (IF i < stack_saved[g] THEN stack_copy[g][i]
                                               ELSE stack[stack_start[g] + i]) \in Contents
      OBVIOUS
    <3>1. CASE i < stack_saved[g]
      <4>1. i \in 0..(stack_saved[g] - 1)
        BY <1>1, <3>1
      <4>2. QED
        BY <3>1, <4>1
    <3>2. CASE ~(i < stack_saved[g])
      <4>1. stack_start[g] + i \in Cells
        BY <1>1 DEF Cells
      <4>2. QED
        BY <3>2, <4>1
    <3>3. QED
      BY <3>1, <3>2
  <2>3. Copy \in [0..(stop - stack_start[g] - 1) -> Contents]
    BY <2>2
  <2> HIDE DEF Copy
  <2>4. QED
    BY <1>1, <2>1, <2>3
<1>3. CASE ~Spills(g, stop)
  BY <1>3 DEF SaveUpTo
<1>4. QED
  BY <1>2, <1>3

LEMMA InitCopies == Init => CopiesOK
<1> SUFFICES ASSUME Init PROVE CopiesOK
  OBVIOUS
<1>1. /\ stack \in [Cells -> Contents]
      /\ DOMAIN stack_copy = Greenlets
  BY DEF Init, Contents
<1>2. ASSUME NEW g \in Greenlets
      PROVE  stack_copy[g] \in [0..(stack_saved[g] - 1) -> Contents]
  <2>1. stack_copy[g] = <<>> /\ stack_saved[g] = 0
    BY DEF Init
  <2>2. 0..(0 - 1) = {}
    OBVIOUS
  <2>3. <<>> \in [{} -> Contents]
    OBVIOUS
  <2>4. QED
    BY <2>1, <2>2, <2>3
<1>3. QED
  BY <1>1, <1>2 DEF CopiesOK

LEMMA NextCopies ==
  ASSUME IInv, CopiesOK, [Next]_vars
  PROVE  CopiesOK'
<1> USE DEF CopiesOK
<1>f. FieldsOK /\ ChainInv
  BY DEF IInv
<1>c. Frames \subseteq Contents /\ Garbage \in Contents
  BY DEF Contents
<1>1. CASE UNCHANGED <<stack, stack_copy, stack_saved>>
  BY <1>1
<1>2. ASSUME UNCHANGED <<stack_copy, stack_saved>>,
             \/ \E a \in Int, f \in Contents : stack' = [stack EXCEPT ![a] = f]
      PROVE  CopiesOK'
  BY <1>2
<1>3. CASE Push \/ Pop \/ \E g \in Greenlets : InitialStub(g)
  <2>1. sp \in Int /\ sp - 1 \in Int
    BY <1>f DEF FieldsOK, Cells
  <2>2. UNCHANGED <<stack_copy, stack_saved>>
    BY <1>3 DEF Push, Pop, InitialStub, state
  <2>3. \E a \in Int, f \in Contents : stack' = [stack EXCEPT ![a] = f]
    <3>1. CASE Push
      BY <1>c, <2>1, <3>1 DEF Push
    <3>2. CASE Pop
      BY <1>c, <2>1, <3>2 DEF Pop
    <3>3. CASE \E g \in Greenlets : InitialStub(g)
      BY <1>c, <2>1, <3>3 DEF InitialStub
    <3>4. QED
      BY <1>3, <3>1, <3>2, <3>3
  <2>4. QED
    BY <1>2, <2>2, <2>3
<1>4. CASE SaveWhole \/ EnterNew \/ SaveLast
  <2>1. PICK o \in Greenlets : o = owner /\ Active(o)
    BY <1>f, <1>4 DEF ChainInv, SaveInv, SwitchInv, FieldsOK, SaveWhole, EnterNew, SaveLast
  <2>2. pc = "save" /\ stack' = stack
    BY <1>4 DEF SaveWhole, EnterNew, SaveLast
  <2>3. PICK t \in Greenlets : t = target
    BY <1>f, <2>2 DEF ChainInv, SwitchInv
  <2>4. stack_stop[o] \in 0..Infinity /\ stack_stop[t] \in 0..Infinity
    BY <1>f DEF FieldsOK
  <2>5. \/ SaveUpTo(o, stack_stop[o]) \/ SaveUpTo(o, stack_stop[t])
        \/ UNCHANGED <<stack_copy, stack_saved>>
    BY <1>4, <2>1, <2>3 DEF SaveWhole, EnterNew, SaveLast, SavePart
  <2>6. CASE UNCHANGED <<stack_copy, stack_saved>>
    BY <2>2, <2>6
  <2>7. CASE SaveUpTo(o, stack_stop[o])
    BY <2>1, <2>2, <2>4, <2>7, SaveUpToCopies
  <2>8. CASE SaveUpTo(o, stack_stop[t])
    BY <2>1, <2>2, <2>4, <2>8, SaveUpToCopies
  <2>9. QED
    BY <2>5, <2>6, <2>7, <2>8
<1>5. CASE Restore
  <2>0. PICK t \in Greenlets : t = target /\ Active(t)
    BY <1>f, <1>5 DEF Restore, ChainInv, SwitchInv, RestoreInv
  <2>1. /\ stack_start[t] > 1 /\ stack_start[t] \in Nat /\ stack_saved[t] \in Nat
        /\ InPlaceFrom(t) = stack_start[t] + stack_saved[t]
        /\ stack_saved \in [Greenlets -> Nat]
    BY <1>f, <1>5, <2>0 DEF Restore, ChainInv, Slices, FieldsOK, InPlaceFrom, Low
  <2>2. stack' \in [Cells -> Contents]
    <3> SUFFICES ASSUME NEW a \in Cells
                 PROVE  (IF a < stack_start[t] THEN Garbage
                         ELSE IF a < InPlaceFrom(t)
                              THEN stack_copy[t][a - stack_start[t]]
                              ELSE stack[a]) \in Contents
      BY <1>5, <2>0 DEF Restore, CopiedBack
    <3>1. CASE a < stack_start[t]
      BY <1>c, <3>1
    <3>2. CASE ~(a < stack_start[t]) /\ a < InPlaceFrom(t)
      <4>1. a - stack_start[t] \in 0..(stack_saved[t] - 1)
        BY <2>1, <3>2 DEF Cells
      <4>2. QED
        BY <3>2, <4>1
    <3>3. CASE ~(a < stack_start[t]) /\ ~(a < InPlaceFrom(t))
      BY <3>3
    <3>4. QED
      BY <3>1, <3>2, <3>3
  <2>3. /\ stack_copy' = [stack_copy EXCEPT ![t] = <<>>]
        /\ stack_saved' = [stack_saved EXCEPT ![t] = 0]
    BY <1>5, <2>0 DEF Restore, FreeStackCopy
  <2>4. 0..(0 - 1) = {} /\ <<>> \in [{} -> Contents]
    OBVIOUS
  <2>5. QED
    BY <2>1, <2>2, <2>3, <2>4
<1>6. CASE Die
  <2>1. /\ stack_copy' = [stack_copy EXCEPT ![current] = <<>>]
        /\ stack_saved' = [stack_saved EXCEPT ![current] = 0]
        /\ stack' = stack /\ stack_saved \in [Greenlets -> Nat]
    BY <1>6, <1>f DEF Die, FreeStackCopy, FieldsOK
  <2>2. 0..(0 - 1) = {} /\ <<>> \in [{} -> Contents]
    OBVIOUS
  <2>3. QED
    BY <2>1, <2>2
<1>7. CASE \/ \E g \in Greenlets : SwitchTo(g) \/ Recycle(g)
          \/ Relink \/ Resume \/ OutOfMemory \/ Aborted \/ UNCHANGED vars
  BY <1>1, <1>7 DEF SwitchTo, Recycle, Relink, Resume, OutOfMemory, Aborted, vars, state
<1>8. QED
  BY <1>3, <1>4, <1>5, <1>6, <1>7 DEF Next, SlpSwitch

\* Every cell holds a frame or garbage, and every heap copy has exactly the
\* stack_saved cells that copy_heap_to_stack() will copy back.
THEOREM TypeCorrect == Spec => []TypeOK
<1>1. Init => CopiesOK
  BY InitCopies
<1>2. IInv /\ CopiesOK /\ [Next]_vars => CopiesOK'
  BY NextCopies
<1>3. IInv /\ CopiesOK => TypeOK
  BY DEF IInv, CopiesOK, TypeOK
<1>4. Spec => []IInv
  BY InvariantHolds DEF IInv
<1>5. QED
  BY <1>1, <1>2, <1>3, <1>4, PTL DEF Spec
=============================================================================

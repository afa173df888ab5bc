------------------------ MODULE ThreadCleanupProofs ------------------------
(***************************************************************************)
(* The exit of any number of threads with any number of greenlets: no      *)
(* thread state is used after it is deleted, deleted twice or forgotten,   *)
(* and no parked greenlet is lost, whatever happens between the steps.     *)
(***************************************************************************)
EXTENDS ThreadCleanup, TLAPS, SequenceTheorems

IInv == TypeOK /\ CleanupInv

\* What does not speak of the lock.
ReachInv == StateInv /\ QueueInv /\ DropInv /\ ParkedHasReaper

-----------------------------------------------------------------------------
(* The queue as a set of threads. *)

\* AddToCleanupQueue() adds one state.
LEMMA AppendElements ==
    ASSUME NEW s \in Seq(Threads), NEW t \in Threads
    PROVE  /\ Append(s, t) \in Seq(Threads)
           /\ ToSet(Append(s, t)) = ToSet(s) \cup {t}
<1>1. /\ Append(s, t) \in Seq(Threads)
      /\ Len(s) \in Nat
      /\ DOMAIN s = 1..Len(s) /\ DOMAIN Append(s, t) = 1..(Len(s) + 1)
      /\ \A i \in 1..Len(s) : Append(s, t)[i] = s[i]
      /\ Append(s, t)[Len(s) + 1] = t
  OBVIOUS
<1>2. \A i \in 1..(Len(s) + 1) : i \in 1..Len(s) \/ i = Len(s) + 1
  BY <1>1
<1>3. \A i \in 1..Len(s) : i \in 1..(Len(s) + 1)
  BY <1>1
<1>4. Len(s) + 1 \in 1..(Len(s) + 1)
  BY <1>1
<1>5. ToSet(Append(s, t)) = ToSet(s) \cup {t}
  BY <1>1, <1>2, <1>3, <1>4 DEF ToSet
<1> QED
  BY <1>1, <1>5

\* It adds none twice, for it adds one that is not there.
LEMMA AppendDistinct ==
    ASSUME NEW s \in Seq(Threads), NEW t \in Threads, t \notin ToSet(s),
           \A i, j \in DOMAIN s : s[i] = s[j] => i = j,
           NEW i \in DOMAIN Append(s, t), NEW j \in DOMAIN Append(s, t),
           Append(s, t)[i] = Append(s, t)[j]
    PROVE  i = j
<1>1. /\ Len(s) \in Nat
      /\ DOMAIN s = 1..Len(s) /\ DOMAIN Append(s, t) = 1..(Len(s) + 1)
      /\ \A k \in 1..Len(s) : Append(s, t)[k] = s[k]
      /\ Append(s, t)[Len(s) + 1] = t
  OBVIOUS
<1>2. \A k \in 1..Len(s) : s[k] # t
  BY <1>1 DEF ToSet
<1> QED
  BY <1>1, <1>2

\* take_next_to_destroy() takes one out.
LEMMA FrontProperties ==
    ASSUME NEW s \in Seq(Threads), s # <<>>,
           \A i, j \in DOMAIN s : s[i] = s[j] => i = j
    PROVE  /\ Front(s) \in Seq(Threads) /\ Last(s) \in Threads
           /\ Last(s) \in ToSet(s) /\ Last(s) \notin ToSet(Front(s))
           /\ ToSet(Front(s)) \subseteq ToSet(s)
           /\ \A i, j \in DOMAIN Front(s) : Front(s)[i] = Front(s)[j] => i = j
<1>1. Len(s) \in Nat \ {0} /\ DOMAIN s = 1..Len(s)
  BY EmptySeq
<1>2. Front(s) = SubSeq(s, 1, Len(s) - 1) /\ Last(s) = s[Len(s)]
  BY DEF Front, Last
<1>3. /\ SubSeq(s, 1, Len(s) - 1) \in Seq(Threads)
      /\ Len(SubSeq(s, 1, Len(s) - 1)) = Len(s) - 1
      /\ \A i \in 1..(Len(s) - 1) : SubSeq(s, 1, Len(s) - 1)[i] = s[i]
  BY <1>1
<1>4. /\ Front(s) \in Seq(Threads) /\ DOMAIN Front(s) = 1..(Len(s) - 1)
      /\ \A i \in 1..(Len(s) - 1) : i \in DOMAIN s /\ i # Len(s) /\ Front(s)[i] = s[i]
  <2>1. Front(s) \in Seq(Threads) /\ Len(Front(s)) = Len(s) - 1
    BY <1>2, <1>3
  <2>2. DOMAIN Front(s) = 1..(Len(s) - 1)
    BY <2>1
  <2>3. \A i \in 1..(Len(s) - 1) : i \in 1..Len(s) /\ i # Len(s)
    <3>1. ASSUME NEW n \in Nat, NEW i \in 1..(n - 1) PROVE i \in 1..n /\ i # n
      OBVIOUS
    <3> QED
      BY <1>1, <3>1
  <2> QED
    BY <1>1, <1>2, <1>3, <2>1, <2>2, <2>3
<1>5. Len(s) \in DOMAIN s /\ Last(s) \in Threads /\ Last(s) \in ToSet(s)
  BY <1>1, <1>2 DEF ToSet
<1>6. Last(s) \notin ToSet(Front(s)) /\ ToSet(Front(s)) \subseteq ToSet(s)
  BY <1>2, <1>4, <1>5 DEF ToSet
<1>7. \A i, j \in DOMAIN Front(s) : Front(s)[i] = Front(s)[j] => i = j
  BY <1>4
<1> QED
  BY <1>4, <1>5, <1>6, <1>7

LEMMA FrontLastType ==
    ASSUME NEW s \in Seq(Threads), s # <<>>
    PROVE  Front(s) \in Seq(Threads) /\ Last(s) \in Threads
<1>1. Len(s) \in Nat \ {0} /\ DOMAIN s = 1..Len(s)
  BY EmptySeq
<1>2. SubSeq(s, 1, Len(s) - 1) \in Seq(Threads)
  BY <1>1
<1> QED
  BY <1>1, <1>2 DEF Front, Last

LEMMA QueuedThreads ==
    ASSUME NEW s \in Seq(Threads)
    PROVE  ToSet(s) \subseteq Threads
BY DEF ToSet

\* A thread that runs Python code has no state on the queue.
LEMMA RunningNotDoomed ==
    ASSUME StateInv, NEW t \in Threads, pc[t] \in {"running", "mark", "check", "queue"}
    PROVE  t \notin Doomed
BY DEF StateInv

\* RunsPython() needs the GIL.
LEMMA RunsPythonFacts ==
    ASSUME IInv, NEW t \in Threads, RunsPython(t)
    PROVE  pc[t] = "running" /\ drop = NoOne /\ t \notin Doomed /\ tstate[t] # "deleted"
BY RunningNotDoomed DEF RunsPython, IInv, CleanupInv, StateInv

-----------------------------------------------------------------------------
LEMMA InitIInv == Init => IInv
<1> SUFFICES ASSUME Init PROVE IInv
  OBVIOUS
<1>1. ToSet(to_destroy) = {} /\ Doomed = {}
  BY DEF Init, ToSet, Doomed
<1>2. TypeOK
  <2>1. <<>> \in Seq(Threads) /\ scheduled + foreign <= NPendingCalls
    BY PendingAssumption DEF Init
  <2>2. \A t \in Threads : deleteme[t] = {} /\ batch[t] = {}
    BY DEF Init
  <2> QED
    BY <2>1, <2>2 DEF Init, TypeOK
<1>3. CleanupInv
  BY <1>1, ThreadsAssumption DEF Init, CleanupInv, LockInv, StateInv, QueueInv, DropInv, ParkedHasReaper
<1> QED
  BY <1>2, <1>3 DEF IInv

\* Steps that leave the states, the lists and the queue alone, and put no greenlet among
\* the parked ones.
LEMMA SameStates ==
    ASSUME IInv, UNCHANGED <<pc, tstate, linked, deleteme, batch, to_destroy, runner, taken>>,
           drop' # NoOne /\ seen' =>
               /\ tstate[OwnerOf[drop']] = "live"
               /\ OwnerOf[drop'] # taken,
           \A g \in Greenlets : fate'[g] = "parked" => fate[g] = "parked"
    PROVE  ReachInv'
<1>1. StateInv /\ QueueInv /\ ParkedHasReaper
  BY DEF IInv, CleanupInv
<1>2. StateInv'
  BY <1>1 DEF StateInv, Doomed
<1>3. QueueInv'
  BY <1>1 DEF QueueInv
<1>4. DropInv'
  BY DEF DropInv
<1>5. ParkedHasReaper'
  BY <1>1 DEF ParkedHasReaper
<1> QED
  BY <1>2, <1>3, <1>4, <1>5 DEF ReachInv

-----------------------------------------------------------------------------
(* Type correctness is inductive by itself. *)

\* The list of t is taken out.
LEMMA SwapOutType ==
    ASSUME TypeOK, NEW t \in Threads, SwapOut(t)
    PROVE  /\ deleteme' \in [Threads -> SUBSET Greenlets]
           /\ batch' \in [Threads -> SUBSET Greenlets]
           /\ \A u \in Threads : \A g \in deleteme'[u] \cup batch'[u] : OwnerOf[g] = u
           /\ fate' \in [Greenlets -> {"new", "suspended", "parked", "killed", "murdered", "leaked"}]
           /\ deleteme'[t] = {}
           /\ \A u \in Threads : u # t => deleteme'[u] = deleteme[u] /\ batch'[u] = batch[u]
           /\ interp = "running" => fate' = fate /\ batch'[t] = batch[t] \cup deleteme[t]
           /\ interp # "running" =>
                 /\ batch' = batch
                 /\ \A g \in Greenlets :
                       fate'[g] = IF g \in deleteme[t] THEN "leaked" ELSE fate[g]
<1>1. /\ deleteme \in [Threads -> SUBSET Greenlets]
      /\ batch \in [Threads -> SUBSET Greenlets]
      /\ \A u \in Threads : \A g \in deleteme[u] \cup batch[u] : OwnerOf[g] = u
      /\ fate \in [Greenlets -> {"new", "suspended", "parked", "killed", "murdered", "leaked"}]
  BY DEF TypeOK
<1>2. CASE interp = "running"
  BY <1>1, <1>2 DEF SwapOut
<1>3. CASE interp # "running"
  BY <1>1, <1>3 DEF SwapOut
<1> QED
  BY <1>2, <1>3

LEMMA PythonType ==
    ASSUME TypeOK, NEW g \in Greenlets,
           \/ StartGreenlet(g) \/ DropInThread(g) \/ DropFinalizing(g)
           \/ \E t \in Threads : DropElsewhere(t, g) \/ ClearOne(t, g)
           \/ ReapOne(g)
    PROVE  TypeOK'
<1> USE ThreadsAssumption, OwnerAssumption DEF threadVars, queueVars, AccessState
<1>1. OwnerOf[g] \in Threads /\ g # NoOne
  OBVIOUS
<1>2. CASE StartGreenlet(g)
  BY <1>1, <1>2 DEF TypeOK, StartGreenlet
<1>3. CASE DropInThread(g)
  BY <1>3 DEF TypeOK, DropInThread
<1>4. CASE DropFinalizing(g)
  BY <1>4 DEF TypeOK, DropFinalizing
<1>5. ASSUME NEW t \in Threads, DropElsewhere(t, g) PROVE TypeOK'
  <2>1. seen' \in BOOLEAN
    BY <1>1, <1>5 DEF TypeOK, DropElsewhere
  <2>2. tstate' \in [Threads -> {"unset", "live", "deleted"}] /\ linked' \in [Threads -> BOOLEAN]
    BY <1>5 DEF TypeOK, DropElsewhere
  <2> QED
    BY <1>1, <1>5, <2>1, <2>2 DEF TypeOK, DropElsewhere
<1>6. ASSUME NEW t \in Threads, ClearOne(t, g) PROVE TypeOK'
  <2>1. fate' \in [Greenlets -> {"new", "suspended", "parked", "killed", "murdered", "leaked"}]
    BY <1>6 DEF TypeOK, ClearOne
  <2>2. /\ batch' \in [Threads -> SUBSET Greenlets]
        /\ \A u \in Threads : batch'[u] \subseteq batch[u]
    BY <1>6 DEF TypeOK, ClearOne
  <2> QED
    BY <1>6, <2>1, <2>2 DEF TypeOK, ClearOne
<1>7. CASE ReapOne(g)
  <2>1. /\ batch' \in [Threads -> SUBSET Greenlets]
        /\ \A u \in Threads : batch'[u] \subseteq batch[u]
    BY <1>7 DEF TypeOK, ReapOne
  <2> QED
    BY <1>7, <2>1 DEF TypeOK, ReapOne
<1> QED
  BY <1>2, <1>3, <1>4, <1>5, <1>6, <1>7

LEMMA FinishDropType == ASSUME TypeOK, FinishDrop PROVE TypeOK'
<1> USE ThreadsAssumption, OwnerAssumption DEF threadVars, queueVars
<1>1. drop \in Greenlets /\ OwnerOf[drop] \in Threads
  BY DEF TypeOK, FinishDrop
<1>2. /\ deleteme' \in [Threads -> SUBSET Greenlets]
      /\ \A u \in Threads : \A g \in deleteme'[u] : g \in deleteme[u] \/ OwnerOf[g] = u
  BY <1>1 DEF TypeOK, FinishDrop, Park
<1>3. fate' \in [Greenlets -> {"new", "suspended", "parked", "killed", "murdered", "leaked"}]
  BY <1>1 DEF TypeOK, FinishDrop
<1> QED
  BY <1>2, <1>3 DEF TypeOK, FinishDrop

LEMMA ListType ==
    ASSUME TypeOK, NEW t \in Threads, ClearBegin(t) \/ Exit(t)
    PROVE  TypeOK'
<1> USE DEF threadVars, queueVars
<1>1. CASE ClearBegin(t)
  <2>1. SwapOut(t)
    BY <1>1 DEF ClearBegin
  <2> QED
    BY <1>1, <2>1, SwapOutType DEF TypeOK, ClearBegin
<1>2. CASE Exit(t)
  <2>1. /\ batch' \in [Threads -> SUBSET Greenlets]
        /\ \A u \in Threads : batch'[u] \subseteq batch[u]
    BY <1>2 DEF TypeOK, Exit
  <2>2. fate' \in [Greenlets -> {"new", "suspended", "parked", "killed", "murdered", "leaked"}]
    BY <1>2 DEF TypeOK, Exit
  <2> QED
    BY <1>2, <2>1, <2>2 DEF TypeOK, Exit
<1> QED
  BY <1>1, <1>2

LEMMA DestructorType ==
    ASSUME TypeOK, NEW t \in Threads, Destructor(t)
    PROVE  TypeOK'
<1> USE DEF greenletVars, queueVars
<1>1. CASE Mark(t)
  BY <1>1 DEF TypeOK, Mark
<1>2. CASE CheckInterpreter(t)
  BY <1>2 DEF TypeOK, CheckInterpreter
<1>3. CASE Enqueue(t)
  <2>1. to_destroy' \in Seq(Threads)
    BY <1>3, AppendElements DEF TypeOK, Enqueue
  <2> QED
    BY <1>3, <2>1 DEF TypeOK, Enqueue
<1>4. CASE SkipShuttingDown(t)
  BY <1>4 DEF TypeOK, SkipShuttingDown
<1>5. CASE SeeRunning(t)
  BY <1>5 DEF TypeOK, SeeRunning
<1>6. CASE AddPending(t)
  <2>1. scheduled' \in Nat /\ scheduled' + foreign <= NPendingCalls
    BY <1>6, PendingAssumption DEF TypeOK, AddPending
  <2> QED
    BY <1>6, <2>1 DEF TypeOK, AddPending
<1> QED
  BY <1>1, <1>2, <1>3, <1>4, <1>5, <1>6 DEF Destructor

LEMMA PendingType ==
    ASSUME TypeOK, ForeignPending \/ RunPending \/ TakeOne \/ LoopEnds \/ DestroyEnd
    PROVE  TypeOK'
<1> USE DEF threadVars, greenletVars
<1>1. CASE ForeignPending
  <2>1. foreign' \in Nat /\ scheduled + foreign' <= NPendingCalls
    BY <1>1, PendingAssumption DEF TypeOK, ForeignPending
  <2> QED
    BY <1>1, <2>1 DEF TypeOK, ForeignPending
<1>2. CASE RunPending
  <2>1. scheduled' \in Nat /\ scheduled' + foreign <= NPendingCalls
    BY <1>2, PendingAssumption DEF TypeOK, RunPending
  <2> QED
    BY <1>2, <2>1 DEF TypeOK, RunPending
<1>3. CASE TakeOne
  <2>1. /\ to_destroy \in Seq(Threads) /\ to_destroy # <<>>
        /\ to_destroy' = Front(to_destroy) /\ taken' = Last(to_destroy)
    BY <1>3 DEF TypeOK, TakeOne, TakeNext
  <2>2. Front(to_destroy) \in Seq(Threads) /\ Last(to_destroy) \in Threads
    BY <2>1, FrontLastType
  <2>3. SwapOut(Last(to_destroy))
    BY <1>3 DEF TakeOne
  <2> QED
    BY <1>3, <2>1, <2>2, <2>3, SwapOutType DEF TypeOK, TakeOne
<1>4. CASE LoopEnds
  BY <1>4 DEF TypeOK, LoopEnds
<1>5. CASE DestroyEnd
  BY <1>5 DEF TypeOK, DestroyEnd
<1> QED
  BY <1>1, <1>2, <1>3, <1>4, <1>5

LEMMA TypeNext == ASSUME TypeOK, [Next]_vars PROVE TypeOK'
<1>1. CASE Finalize
  BY <1>1 DEF TypeOK, Finalize, threadVars, greenletVars, queueVars
<1>2. CASE UNCHANGED vars
  BY <1>2 DEF TypeOK, vars
<1> QED
  BY <1>1, <1>2, PythonType, FinishDropType, ListType, DestructorType, PendingType
  DEF Next, DestroyQueue, Ended

-----------------------------------------------------------------------------
(* Every action preserves CleanupInv. *)

\* A thread state is created, or found, in a thread that runs Python code.
LEMMA AccessStateInv ==
    ASSUME TypeOK, StateInv, NEW t \in Threads, pc[t] = "running", tstate[t] # "deleted",
           AccessState(t), UNCHANGED <<pc, deleteme, batch, to_destroy, taken>>
    PROVE  /\ StateInv'
           /\ \A u \in Threads : tstate[u] = "live" => tstate'[u] = "live"
<1>1. /\ tstate'[t] = "live" /\ linked'[t] = TRUE
      /\ \A u \in Threads : u # t => tstate'[u] = tstate[u] /\ linked'[u] = linked[u]
  BY DEF TypeOK, AccessState
<1>2. t \notin Doomed /\ Doomed' = Doomed
  BY RunningNotDoomed DEF Doomed
<1> QED
  BY <1>1, <1>2 DEF StateInv

LEMMA StartGreenletInv ==
    ASSUME IInv, NEW g \in Greenlets, StartGreenlet(g)
    PROVE  ReachInv'
<1> USE OwnerAssumption
<1>1. TypeOK /\ StateInv /\ QueueInv /\ DropInv /\ ParkedHasReaper
  BY DEF IInv, CleanupInv
<1>2. OwnerOf[g] \in Threads /\ RunsPython(OwnerOf[g]) /\ AccessState(OwnerOf[g])
  BY DEF StartGreenlet
<1>3. UNCHANGED <<pc, deleteme, batch, drop, seen, to_destroy, runner, taken>>
  BY DEF StartGreenlet, queueVars
<1>4. StateInv' /\ \A u \in Threads : tstate[u] = "live" => tstate'[u] = "live"
  BY <1>1, <1>2, <1>3, RunsPythonFacts, AccessStateInv
<1>5. QueueInv' /\ DropInv'
  BY <1>1, <1>2, <1>3, RunsPythonFacts DEF QueueInv, DropInv
<1>6. \A x \in Greenlets : fate'[x] = "parked" => fate[x] = "parked"
  BY <1>1 DEF TypeOK, StartGreenlet
<1>7. ParkedHasReaper'
  BY <1>1, <1>3, <1>4, <1>6 DEF ParkedHasReaper
<1> QED
  BY <1>4, <1>5, <1>7 DEF ReachInv

LEMMA DropInThreadInv ==
    ASSUME IInv, NEW g \in Greenlets, DropInThread(g) \/ DropFinalizing(g)
    PROVE  ReachInv'
<1>1. TypeOK /\ DropInv
  BY DEF IInv, CleanupInv
<1>2. UNCHANGED <<pc, tstate, linked, deleteme, batch, drop, seen, to_destroy, runner, taken>>
  BY DEF DropInThread, DropFinalizing, threadVars, queueVars
<1>3. \A x \in Greenlets : fate'[x] = "parked" => fate[x] = "parked"
  BY <1>1 DEF TypeOK, DropInThread, DropFinalizing
<1> QED
  BY <1>1, <1>2, <1>3, SameStates DEF DropInv

LEMMA DropElsewhereInv ==
    ASSUME IInv, NEW t \in Threads, NEW g \in Greenlets, DropElsewhere(t, g)
    PROVE  ReachInv'
<1> USE OwnerAssumption
<1>1. TypeOK /\ StateInv /\ QueueInv /\ ParkedHasReaper
  BY DEF IInv, CleanupInv
<1>2. OwnerOf[g] \in Threads /\ RunsPython(t) /\ drop' = g /\ seen' = linked[OwnerOf[g]]
  BY DEF DropElsewhere
<1>3. UNCHANGED <<pc, deleteme, batch, fate, to_destroy, runner, taken>>
  BY DEF DropElsewhere, queueVars
<1>4. StateInv' /\ \A u \in Threads : tstate[u] = "live" => tstate'[u] = "live"
  <2>1. CASE linked[OwnerOf[g]]
    <3>1. AccessState(t)
      BY <2>1 DEF DropElsewhere
    <3> QED
      BY <1>1, <1>2, <1>3, <3>1, RunsPythonFacts, AccessStateInv
  <2>2. CASE ~linked[OwnerOf[g]]
    <3>1. UNCHANGED <<tstate, linked>>
      BY <2>2 DEF DropElsewhere
    <3> QED
      BY <1>1, <1>3, <3>1 DEF StateInv, Doomed
  <2> QED
    BY <2>1, <2>2
<1>5. QueueInv'
  BY <1>1, <1>3 DEF QueueInv
<1>6. linked[OwnerOf[g]] => tstate[OwnerOf[g]] = "live" /\ OwnerOf[g] # taken
  <2>1. ASSUME linked[OwnerOf[g]]
        PROVE  tstate[OwnerOf[g]] = "live" /\ pc[OwnerOf[g]] \in {"running", "mark"}
    BY <1>1, <1>2, <2>1 DEF StateInv
  <2>2. ASSUME linked[OwnerOf[g]] PROVE OwnerOf[g] # taken
    BY <1>1, <1>2, <2>1, <2>2, RunningNotDoomed, ThreadsAssumption DEF Doomed
  <2> QED
    BY <2>1, <2>2
<1>7. DropInv'
  BY <1>2, <1>3, <1>4, <1>6 DEF DropInv
<1>8. ParkedHasReaper'
  BY <1>1, <1>3, <1>4 DEF ParkedHasReaper
<1> QED
  BY <1>4, <1>5, <1>7, <1>8 DEF ReachInv

LEMMA FinishDropInv == ASSUME IInv, FinishDrop PROVE ReachInv'
<1> USE OwnerAssumption
<1>1. TypeOK /\ StateInv /\ QueueInv /\ DropInv /\ ParkedHasReaper
  BY DEF IInv, CleanupInv
<1>2. /\ drop \in Greenlets /\ drop # NoOne /\ drop' = NoOne
      /\ UNCHANGED <<pc, tstate, linked, batch, to_destroy, runner, taken>>
  BY <1>1 DEF TypeOK, FinishDrop, threadVars, queueVars
<1>3. CASE seen
  <2>1. tstate[OwnerOf[drop]] = "live" /\ OwnerOf[drop] # taken /\ OwnerOf[drop] \in Threads
    BY <1>1, <1>2, <1>3 DEF DropInv
  <2>2. /\ drop \in deleteme'[OwnerOf[drop]]
        /\ \A u \in Threads : u # OwnerOf[drop] => deleteme'[u] = deleteme[u]
        /\ \A u \in Threads : deleteme[u] \subseteq deleteme'[u]
        /\ \A g \in Greenlets : fate'[g] = "parked" => fate[g] = "parked" \/ g = drop
    BY <1>1, <1>3, <2>1 DEF TypeOK, FinishDrop, Park
  <2>3. StateInv'
    BY <1>1, <1>2, <2>1, <2>2 DEF StateInv, Doomed
  <2>4. QueueInv'
    BY <1>1, <1>2, <2>1, <2>2 DEF QueueInv, TypeOK
  <2>5. DropInv'
    BY <1>2 DEF DropInv
  <2>6. ParkedHasReaper'
    BY <1>1, <1>2, <2>1, <2>2 DEF ParkedHasReaper
  <2> QED
    BY <2>3, <2>4, <2>5, <2>6 DEF ReachInv
<1>4. CASE ~seen
  <2>1. UNCHANGED deleteme /\ \A g \in Greenlets : fate'[g] = "parked" => fate[g] = "parked"
    BY <1>1, <1>4 DEF TypeOK, FinishDrop
  <2> QED
    BY <1>2, <2>1, SameStates
<1> QED
  BY <1>3, <1>4

\* The list of t is taken out; if t is the one to be destroyed, nobody parks there later.
LEMMA SwapOutReaper ==
    ASSUME TypeOK, StateInv, ParkedHasReaper, NEW t \in Threads, SwapOut(t), tstate' = tstate
    PROVE  ParkedHasReaper'
<1>1. SUFFICES ASSUME NEW g \in Greenlets, fate'[g] = "parked"
               PROVE  /\ g \in deleteme'[OwnerOf[g]] \cup batch'[OwnerOf[g]]
                      /\ tstate[OwnerOf[g]] = "live"
  BY DEF ParkedHasReaper
<1>2. OwnerOf[g] \in Threads
  BY OwnerAssumption
<1>3. fate[g] = "parked"
  BY <1>1, SwapOutType
<1>4. g \in deleteme[OwnerOf[g]] \cup batch[OwnerOf[g]] /\ tstate[OwnerOf[g]] = "live"
  BY <1>3 DEF ParkedHasReaper
<1>5. CASE OwnerOf[g] # t
  BY <1>2, <1>4, <1>5, SwapOutType
<1>6. CASE OwnerOf[g] = t /\ interp = "running"
  BY <1>4, <1>6, SwapOutType
<1>7. CASE OwnerOf[g] = t /\ interp # "running"
  <2>1. g \notin deleteme[t]
    BY <1>1, <1>7, SwapOutType
  <2>2. batch' = batch
    BY <1>7, SwapOutType
  <2> QED
    BY <1>4, <1>7, <2>1, <2>2
<1> QED
  BY <1>5, <1>6, <1>7

LEMMA ClearBeginInv ==
    ASSUME IInv, NEW t \in Threads, ClearBegin(t)
    PROVE  ReachInv'
<1>1. TypeOK /\ StateInv /\ QueueInv /\ DropInv /\ ParkedHasReaper
  BY DEF IInv, CleanupInv
<1>2. /\ deleteme[t] # {} /\ SwapOut(t)
      /\ UNCHANGED <<pc, tstate, linked, drop, seen, to_destroy, runner, taken>>
  BY DEF ClearBegin, threadVars, queueVars
<1>3. tstate[t] = "live"
  BY <1>1, <1>2 DEF StateInv
<1>4. StateInv'
  <2>1. \A u \in Threads : tstate[u] # "live" => deleteme'[u] = deleteme[u] /\ batch'[u] = batch[u]
    BY <1>1, <1>2, <1>3, SwapOutType
  <2> QED
    BY <1>1, <1>2, <2>1 DEF StateInv, Doomed
<1>5. QueueInv'
  <2>1. \A u \in Threads : deleteme[u] = {} => deleteme'[u] = {}
    BY <1>1, <1>2, SwapOutType
  <2> QED
    BY <1>1, <1>2, <2>1 DEF QueueInv, TypeOK
<1>6. DropInv'
  BY <1>1, <1>2 DEF DropInv
<1>7. ParkedHasReaper'
  BY <1>1, <1>2, SwapOutReaper
<1> QED
  BY <1>4, <1>5, <1>6, <1>7 DEF ReachInv

\* One greenlet of a batch is freed.
LEMMA OneFreedInv ==
    ASSUME IInv, NEW t \in Threads, NEW g \in Greenlets,
           batch' = [batch EXCEPT ![t] = @ \ {g}], fate' = [fate EXCEPT ![g] = fate'[g]],
           fate'[g] # "parked",
           UNCHANGED <<pc, tstate, linked, deleteme, drop, seen, to_destroy, runner, taken>>
    PROVE  ReachInv'
<1>1. TypeOK /\ StateInv /\ QueueInv /\ DropInv /\ ParkedHasReaper
  BY DEF IInv, CleanupInv
<1>2. /\ \A u \in Threads : batch'[u] \subseteq batch[u] /\ batch[u] \subseteq batch'[u] \cup {g}
      /\ \A x \in Greenlets : fate'[x] = "parked" => x # g /\ fate[x] = "parked"
  BY <1>1 DEF TypeOK
<1>3. StateInv'
  BY <1>1, <1>2 DEF StateInv, Doomed
<1>4. QueueInv' /\ DropInv'
  BY <1>1 DEF QueueInv, DropInv
<1>5. ParkedHasReaper'
  <2> SUFFICES ASSUME NEW x \in Greenlets, fate'[x] = "parked"
               PROVE  /\ x \in deleteme[OwnerOf[x]] \cup batch'[OwnerOf[x]]
                      /\ tstate[OwnerOf[x]] = "live"
    BY DEF ParkedHasReaper
  <2>1. x # g /\ OwnerOf[x] \in Threads
    BY <1>2, OwnerAssumption
  <2> QED
    BY <1>1, <1>2, <2>1 DEF ParkedHasReaper
<1> QED
  BY <1>3, <1>4, <1>5 DEF ReachInv

LEMMA ClearOneInv ==
    ASSUME IInv, NEW t \in Threads, NEW g \in Greenlets, ClearOne(t, g)
    PROVE  ReachInv'
<1>1. /\ batch' = [batch EXCEPT ![t] = @ \ {g}]
      /\ fate'[g] # "parked" /\ fate' = [fate EXCEPT ![g] = fate'[g]]
      /\ UNCHANGED <<pc, tstate, linked, deleteme, drop, seen, to_destroy, runner, taken>>
  BY DEF ClearOne, threadVars, queueVars, IInv, TypeOK
<1> QED
  BY <1>1, OneFreedInv

LEMMA ReapOneInv ==
    ASSUME IInv, NEW g \in Greenlets, ReapOne(g)
    PROVE  ReachInv'
<1>1. /\ batch' = [batch EXCEPT ![taken] = @ \ {g}]
      /\ fate'[g] # "parked" /\ fate' = [fate EXCEPT ![g] = fate'[g]]
      /\ UNCHANGED <<pc, tstate, linked, deleteme, drop, seen, to_destroy, runner, taken>>
  BY DEF ReapOne, threadVars, queueVars, IInv, TypeOK
<1>2. taken \in Threads
  BY DEF ReapOne, IInv, TypeOK, CleanupInv, QueueInv
<1> QED
  BY <1>1, <1>2, OneFreedInv

\* A thread ends; what it was working through is leaked.
LEMMA ExitInv ==
    ASSUME IInv, NEW t \in Threads, Exit(t)
    PROVE  ReachInv'
<1>1. TypeOK /\ StateInv /\ QueueInv /\ DropInv /\ ParkedHasReaper
  BY DEF IInv, CleanupInv
<1>2. /\ pc[t] = "running"
      /\ pc' = [pc EXCEPT ![t] = IF tstate[t] = "live" THEN "mark" ELSE "exited"]
      /\ batch' = [batch EXCEPT ![t] = {}]
      /\ \A g \in Greenlets : fate'[g] = IF g \in batch[t] THEN "leaked" ELSE fate[g]
      /\ UNCHANGED <<tstate, linked, deleteme, drop, seen, to_destroy, runner, taken>>
  BY DEF Exit, queueVars
<1>3. /\ pc'[t] = (IF tstate[t] = "live" THEN "mark" ELSE "exited") /\ batch'[t] = {}
      /\ \A u \in Threads : u # t => pc'[u] = pc[u] /\ batch'[u] = batch[u]
  BY <1>1, <1>2 DEF TypeOK
<1>4. t \notin Doomed /\ Doomed' = Doomed
  BY <1>1, <1>2, RunningNotDoomed DEF Doomed
<1>5. StateInv'
  BY <1>1, <1>2, <1>3, <1>4 DEF StateInv
<1>6. QueueInv' /\ DropInv'
  BY <1>1, <1>2, <1>3 DEF QueueInv, DropInv, TypeOK
<1>7. ParkedHasReaper'
  <2> SUFFICES ASSUME NEW g \in Greenlets, fate'[g] = "parked"
               PROVE  /\ g \in deleteme[OwnerOf[g]] \cup batch'[OwnerOf[g]]
                      /\ tstate[OwnerOf[g]] = "live"
    BY <1>2 DEF ParkedHasReaper
  <2>1. g \notin batch[t] /\ fate[g] = "parked" /\ OwnerOf[g] \in Threads
    BY <1>2, OwnerAssumption
  <2> QED
    BY <1>1, <1>3, <2>1 DEF ParkedHasReaper
<1> QED
  BY <1>5, <1>6, <1>7 DEF ReachInv

\* A destructor goes on, without a change of the queue.
LEMMA PcInv ==
    ASSUME IInv, NEW t \in Threads, pc[t] \notin {"running", "exited"},
           tstate[t] = "live" \/ pc'[t] = "exited",
           pc' = [pc EXCEPT ![t] = pc'[t]],
           linked'[t] = FALSE, linked' = [linked EXCEPT ![t] = linked'[t]],
           pc'[t] \notin {"running", "mark"},
           t \in Doomed => pc'[t] \in {"pend", "exited"},
           UNCHANGED <<tstate, deleteme, batch, fate, drop, seen, to_destroy, runner, taken>>
    PROVE  ReachInv'
<1>1. TypeOK /\ StateInv /\ QueueInv /\ DropInv /\ ParkedHasReaper
  BY DEF IInv, CleanupInv
<1>2. \A u \in Threads : u # t => pc'[u] = pc[u] /\ linked'[u] = linked[u]
  BY <1>1 DEF TypeOK
<1>3. Doomed' = Doomed
  BY DEF Doomed
<1>4. StateInv'
  BY <1>1, <1>2, <1>3 DEF StateInv
<1>5. QueueInv' /\ DropInv' /\ ParkedHasReaper'
  BY <1>1, <1>2 DEF QueueInv, DropInv, ParkedHasReaper, TypeOK
<1> QED
  BY <1>4, <1>5 DEF ReachInv

LEMMA DestructorInv ==
    ASSUME IInv, NEW t \in Threads, Destructor(t), ~Enqueue(t)
    PROVE  ReachInv'
<1>1. TypeOK /\ StateInv
  BY DEF IInv, CleanupInv
<1>2. CASE Mark(t)
  <2>1. t \notin Doomed /\ tstate[t] = "live"
    BY <1>1, <1>2, RunningNotDoomed DEF Mark, StateInv
  <2> QED
    BY <1>1, <1>2, <2>1, PcInv DEF TypeOK, Mark, greenletVars, queueVars
<1>3. CASE CheckInterpreter(t)
  <2>1. t \notin Doomed /\ tstate[t] = "live" /\ linked[t] = FALSE
    BY <1>1, <1>3, RunningNotDoomed DEF CheckInterpreter, StateInv, TypeOK
  <2> QED
    BY <1>1, <1>3, <2>1, PcInv DEF TypeOK, CheckInterpreter, greenletVars, queueVars
<1>4. CASE SkipShuttingDown(t)
  <2>1. linked[t] = FALSE
    BY <1>1, <1>4 DEF SkipShuttingDown, StateInv, TypeOK
  <2> QED
    BY <1>1, <1>4, <2>1, PcInv DEF TypeOK, SkipShuttingDown, greenletVars
<1>5. CASE SeeRunning(t)
  <2>1. linked[t] = FALSE /\ tstate[t] = "live"
    BY <1>1, <1>5 DEF SeeRunning, StateInv, TypeOK
  <2> QED
    BY <1>1, <1>5, <2>1, PcInv DEF TypeOK, SeeRunning, greenletVars, queueVars
<1>6. CASE AddPending(t)
  <2>1. linked[t] = FALSE
    BY <1>1, <1>6 DEF AddPending, StateInv, TypeOK
  <2> QED
    BY <1>1, <1>6, <2>1, PcInv DEF TypeOK, AddPending, greenletVars
<1> QED
  BY <1>2, <1>3, <1>4, <1>5, <1>6 DEF Destructor

LEMMA EnqueueInv ==
    ASSUME IInv, NEW t \in Threads, Enqueue(t)
    PROVE  ReachInv'
<1>1. TypeOK /\ StateInv /\ QueueInv /\ DropInv /\ ParkedHasReaper
  BY DEF IInv, CleanupInv
<1>2. /\ pc[t] = "queue" /\ to_destroy' = Append(to_destroy, t)
      /\ UNCHANGED <<tstate, linked, deleteme, batch, fate, drop, seen, runner, taken>>
  BY DEF Enqueue, greenletVars
<1>3. /\ pc'[t] \in {"schedule", "exited"}
      /\ \A u \in Threads : u # t => pc'[u] = pc[u]
  BY <1>1 DEF TypeOK, Enqueue
<1>4. t \notin Doomed /\ tstate[t] = "live" /\ linked[t] = FALSE
  BY <1>1, <1>2, RunningNotDoomed DEF StateInv, TypeOK
<1>5. to_destroy \in Seq(Threads)
  BY <1>1 DEF TypeOK
<1>6. ToSet(to_destroy)' = ToSet(to_destroy) \cup {t}
  BY <1>2, <1>5, AppendElements
<1>7. Doomed' = Doomed \cup {t} /\ t \notin ToSet(to_destroy) /\ t # taken
  BY <1>2, <1>4, <1>6, ThreadsAssumption DEF Doomed
<1>8. StateInv'
  BY <1>1, <1>2, <1>3, <1>4, <1>7 DEF StateInv
<1>9. QueueInv'
  <2>1. \A i, j \in DOMAIN to_destroy' : to_destroy'[i] = to_destroy'[j] => i = j
    BY <1>1, <1>2, <1>5, <1>7, AppendDistinct DEF QueueInv
  <2>2. taken' \notin ToSet(to_destroy')
    BY <1>1, <1>2, <1>6, <1>7 DEF QueueInv
  <2>3. \A u \in Threads : pc[u] = "exited" => pc'[u] = "exited"
    BY <1>2, <1>3
  <2> QED
    BY <1>1, <1>2, <2>1, <2>2, <2>3 DEF QueueInv, TypeOK
<1>10. DropInv' /\ ParkedHasReaper'
  BY <1>1, <1>2 DEF DropInv, ParkedHasReaper
<1> QED
  BY <1>8, <1>9, <1>10 DEF ReachInv

LEMMA TakeOneInv == ASSUME IInv, TakeOne PROVE ReachInv'
<1> DEFINE t == Last(to_destroy)
<1>1. TypeOK /\ StateInv /\ QueueInv /\ DropInv /\ ParkedHasReaper
  BY DEF IInv, CleanupInv
<1>2. /\ runner = "loop" /\ runner' = "destroy" /\ to_destroy # <<>>
      /\ taken' = t /\ to_destroy' = Front(to_destroy) /\ SwapOut(t)
      /\ UNCHANGED <<pc, tstate, linked, drop, seen>>
  BY DEF TakeOne, TakeNext, threadVars
<1>3. lock = NoOne /\ drop = NoOne
  BY DEF TakeOne, RunsPython
<1>4. /\ to_destroy \in Seq(Threads)
      /\ \A i, j \in DOMAIN to_destroy : to_destroy[i] = to_destroy[j] => i = j
  BY <1>1 DEF TypeOK, QueueInv
<1> HIDE DEF t
<1>5. /\ t \in Threads /\ t \in ToSet(to_destroy) /\ t \notin ToSet(to_destroy')
      /\ ToSet(to_destroy') \subseteq ToSet(to_destroy)
      /\ \A i, j \in DOMAIN to_destroy' : to_destroy'[i] = to_destroy'[j] => i = j
  BY <1>2, <1>4, FrontProperties DEF t
<1>6. t \in Doomed /\ tstate[t] = "live" /\ Doomed' \subseteq Doomed
  <2>1. t \in Doomed
    BY <1>5 DEF Doomed
  <2>2. Doomed' \subseteq Doomed
    BY <1>2, <1>5 DEF Doomed
  <2> QED
    BY <1>1, <1>5, <2>1, <2>2 DEF StateInv
<1>7. StateInv'
  <2>1. \A u \in Threads : tstate[u] # "live" => deleteme'[u] = deleteme[u] /\ batch'[u] = batch[u]
    BY <1>1, <1>2, <1>5, <1>6, SwapOutType
  <2> QED
    BY <1>1, <1>2, <1>6, <2>1 DEF StateInv
<1>8. QueueInv'
  <2>1. pc[t] = "exited"
    BY <1>1, <1>3, <1>5, <1>6, ThreadsAssumption DEF StateInv, IInv, CleanupInv, LockInv
  <2>2. deleteme'[t] = {} /\ t # NoOne
    BY <1>1, <1>2, <1>5, SwapOutType, ThreadsAssumption
  <2> QED
    BY <1>2, <1>5, <2>1, <2>2 DEF QueueInv
<1>9. DropInv'
  BY <1>2, <1>3 DEF DropInv
<1>10. ParkedHasReaper'
  BY <1>1, <1>2, <1>5, SwapOutReaper
<1> QED
  BY <1>7, <1>8, <1>9, <1>10 DEF ReachInv

LEMMA DestroyEndInv == ASSUME IInv, DestroyEnd PROVE ReachInv'
<1>1. TypeOK /\ StateInv /\ QueueInv /\ DropInv /\ ParkedHasReaper
  BY DEF IInv, CleanupInv
<1>2. /\ runner = "destroy" /\ batch[taken] = {} /\ runner' = "loop" /\ taken' = NoOne
      /\ tstate' = [tstate EXCEPT ![taken] = "deleted"] /\ drop = NoOne
      /\ UNCHANGED <<pc, linked, deleteme, batch, fate, drop, seen, to_destroy>>
  BY DEF DestroyEnd, RunsPython, greenletVars
<1>3. taken \in Threads /\ deleteme[taken] = {}
  BY <1>1, <1>2 DEF TypeOK, QueueInv
<1>4. taken \in Doomed /\ taken \notin Doomed' /\ Doomed' \subseteq Doomed
  BY <1>1, <1>2, <1>3, ThreadsAssumption DEF Doomed, QueueInv
<1>5. /\ tstate'[taken] = "deleted"
      /\ \A u \in Threads : u # taken => tstate'[u] = tstate[u]
  BY <1>1, <1>2, <1>3 DEF TypeOK
<1>6. pc[taken] = "exited" /\ ~linked[taken]
  BY <1>1, <1>3, <1>4, ThreadsAssumption DEF StateInv, QueueInv
<1>7. StateInv'
  BY <1>1, <1>2, <1>3, <1>4, <1>5, <1>6 DEF StateInv
<1>8. QueueInv' /\ DropInv'
  <2>1. NoOne \notin ToSet(to_destroy)
    BY <1>1, ThreadsAssumption, QueuedThreads DEF TypeOK
  <2> QED
    BY <1>1, <1>2, <2>1 DEF QueueInv, DropInv
<1>9. ParkedHasReaper'
  <2> SUFFICES ASSUME NEW g \in Greenlets, fate[g] = "parked"
               PROVE  /\ g \in deleteme[OwnerOf[g]] \cup batch[OwnerOf[g]]
                      /\ tstate'[OwnerOf[g]] = "live"
    BY <1>2 DEF ParkedHasReaper
  <2>1. /\ g \in deleteme[OwnerOf[g]] \cup batch[OwnerOf[g]]
        /\ tstate[OwnerOf[g]] = "live" /\ OwnerOf[g] \in Threads
    BY <1>1, OwnerAssumption DEF ParkedHasReaper
  <2>2. OwnerOf[g] # taken
    BY <1>2, <1>3, <2>1
  <2> QED
    BY <1>5, <2>1, <2>2
<1> QED
  BY <1>7, <1>8, <1>9 DEF ReachInv

-----------------------------------------------------------------------------
\* The lock: Enqueue takes it for the thread that schedules, which gives it back.
LEMMA LockNext == ASSUME TypeOK, LockInv, Next PROVE LockInv'
<1>1. ASSUME NEW t \in Threads, Enqueue(t) PROVE LockInv'
  BY <1>1, ThreadsAssumption DEF TypeOK, LockInv, Enqueue
<1>2. ASSUME NEW t \in Threads,
             \/ Mark(t) \/ CheckInterpreter(t) \/ SkipShuttingDown(t) \/ SeeRunning(t)
             \/ AddPending(t) \/ Exit(t)
      PROVE  LockInv'
  <2>1. CASE Mark(t)
    BY <1>2, <2>1 DEF TypeOK, LockInv, Mark, queueVars
  <2>2. CASE CheckInterpreter(t)
    BY <1>2, <2>2 DEF TypeOK, LockInv, CheckInterpreter, queueVars
  <2>3. CASE SkipShuttingDown(t)
    BY <1>2, <2>3 DEF TypeOK, LockInv, SkipShuttingDown
  <2>4. CASE SeeRunning(t)
    BY <1>2, <2>4 DEF TypeOK, LockInv, SeeRunning, queueVars
  <2>5. CASE AddPending(t)
    BY <1>2, <2>5 DEF TypeOK, LockInv, AddPending
  <2>6. CASE Exit(t)
    BY <1>2, <2>6 DEF TypeOK, LockInv, Exit, queueVars
  <2> QED
    BY <1>2, <2>1, <2>2, <2>3, <2>4, <2>5, <2>6
<1>3. CASE UNCHANGED <<pc, lock>>
  BY <1>3 DEF LockInv
<1>4. ASSUME NEW g \in Greenlets,
             \/ StartGreenlet(g) \/ DropInThread(g) \/ DropFinalizing(g) \/ ReapOne(g)
             \/ \E t \in Threads : DropElsewhere(t, g) \/ ClearOne(t, g)
      PROVE  UNCHANGED <<pc, lock>>
  BY <1>4 DEF StartGreenlet, DropInThread, DropFinalizing, ReapOne, DropElsewhere, ClearOne,
         threadVars, queueVars
<1>5. ASSUME \/ FinishDrop \/ \E t \in Threads : ClearBegin(t)
             \/ ForeignPending \/ RunPending \/ TakeOne \/ LoopEnds \/ DestroyEnd
             \/ Finalize \/ Ended
      PROVE  UNCHANGED <<pc, lock>>
  BY <1>5 DEF FinishDrop, ClearBegin, ForeignPending, RunPending, TakeOne, LoopEnds,
         DestroyEnd, Finalize, Ended, threadVars, queueVars, vars
<1> QED
  BY <1>1, <1>2, <1>3, <1>4, <1>5 DEF Next, Destructor, DestroyQueue

LEMMA QuietInv ==
    ASSUME IInv, ForeignPending \/ RunPending \/ LoopEnds \/ Finalize \/ UNCHANGED vars
    PROVE  ReachInv'
<1>1. StateInv /\ QueueInv /\ DropInv /\ ParkedHasReaper
  BY DEF IInv, CleanupInv
<1>2. UNCHANGED <<pc, tstate, linked, deleteme, batch, fate, drop, seen, to_destroy, taken>>
  BY DEF ForeignPending, RunPending, LoopEnds, Finalize, threadVars, greenletVars, queueVars, vars
<1>3. runner' = "destroy" <=> runner = "destroy"
  BY DEF ForeignPending, RunPending, LoopEnds, Finalize, queueVars, vars
<1>4. StateInv' /\ QueueInv'
  BY <1>1, <1>2, <1>3 DEF StateInv, QueueInv, Doomed
<1>5. DropInv' /\ ParkedHasReaper'
  BY <1>1, <1>2 DEF DropInv, ParkedHasReaper
<1> QED
  BY <1>4, <1>5 DEF ReachInv

LEMMA NextIInv == ASSUME IInv, [Next]_vars PROVE IInv'
<1>1. TypeOK'
  BY TypeNext DEF IInv
<1>2. LockInv'
  <2>1. CASE UNCHANGED vars
    BY <2>1 DEF IInv, CleanupInv, LockInv, vars
  <2> QED
    BY <2>1, LockNext DEF IInv, CleanupInv
<1>3. ReachInv'
  BY StartGreenletInv, DropInThreadInv, DropElsewhereInv, FinishDropInv, ClearBeginInv,
     ClearOneInv, ReapOneInv, ExitInv, DestructorInv, EnqueueInv, TakeOneInv, DestroyEndInv,
     QuietInv DEF Next, DestroyQueue, Ended
<1> QED
  BY <1>1, <1>2, <1>3 DEF IInv, CleanupInv, ReachInv

LEMMA SpecIInv == Spec => []IInv
BY InitIInv, NextIInv, PTL DEF Spec

-----------------------------------------------------------------------------
\* The types: greenlets are parked with the thread they were started in, and never more
\* calls are pending than there are slots.
THEOREM CleanupTypeCorrect == Spec => []TypeOK
<1>1. IInv => TypeOK
  BY DEF IInv
<1> QED
  BY <1>1, SpecIInv, PTL

\* At every step of a thread's exit and of the pending call it is clear who may still
\* reach a thread state, with the lock held where AddToCleanupQueue() holds it.
THEOREM CleanupInvHolds == Spec => []CleanupInv
<1>1. IInv => CleanupInv
  BY DEF IInv
<1> QED
  BY <1>1, SpecIInv, PTL

\* A ThreadState is on the queue once, leaves it before it is destroyed, and is by then
\* unlinked from its main greenlet: it is destroyed at most once.
THEOREM DestroyedOnceHolds == Spec => []DestroyedOnce
<1>1. ASSUME IInv PROVE DestroyedOnce
  <2>1. StateInv /\ QueueInv /\ TypeOK
    BY <1>1 DEF IInv, CleanupInv
  <2>2. ASSUME NEW t \in Doomed
        PROVE  tstate[t] = "live" /\ ~linked[t] /\ pc[t] \in {"schedule", "pend", "exited"}
    <3>1. t \in Threads
      BY <2>1, QueuedThreads DEF Doomed, TypeOK
    <3>2. tstate[t] = "live" /\ pc[t] \in {"schedule", "pend", "exited"}
      BY <2>1, <2>2, <3>1 DEF StateInv
    <3> QED
      BY <2>1, <3>1, <3>2 DEF StateInv
  <2> QED
    BY <2>1, <2>2 DEF QueueInv, DestroyedOnce
<1> QED
  BY <1>1, SpecIInv, PTL

\* A linked thread state exists, and so does the one that a drop in another thread has
\* seen, until that drop has parked its greenlet.
THEOREM NoDanglingStateHolds == Spec => []NoDanglingState
<1>1. IInv => NoDanglingState
  BY DEF IInv, CleanupInv, StateInv, DropInv, NoDanglingState
<1> QED
  BY <1>1, SpecIInv, PTL

\* A parked greenlet is on the list of its thread, or in what was taken out of it, and
\* the state of that thread is not deleted before.
THEOREM ParkedHasReaperHolds == Spec => []ParkedHasReaper
<1>1. IInv => ParkedHasReaper
  BY DEF IInv, CleanupInv
<1> QED
  BY <1>1, SpecIInv, PTL

\* The comment in AddToCleanupQueue(): whoever makes the queue non-empty schedules the
\* call under the same lock, and the callback does not stop before the queue is empty.
THEOREM NothingStrandedHolds == Spec => []NothingStranded
<1>1. Init => NothingStranded
  BY DEF Init, NothingStranded
<1>2. ASSUME TypeOK, NothingStranded, [Next]_vars PROVE NothingStranded'
  <2>1. CASE UNCHANGED <<pc, to_destroy, scheduled, runner, warned, interp>>
    BY <1>2, <2>1 DEF NothingStranded
  <2>2. ASSUME NEW t \in Threads, Exit(t) PROVE NothingStranded'
    <3>1. \A u \in Threads : pc[u] \in {"schedule", "pend"} => pc'[u] = pc[u]
      BY <1>2, <2>2 DEF TypeOK, Exit
    <3> QED
      BY <1>2, <2>2, <3>1 DEF NothingStranded, Exit, queueVars
  <2>3. ASSUME NEW t \in Threads, Mark(t) \/ CheckInterpreter(t) PROVE NothingStranded'
    <3>1. /\ \A u \in Threads : pc[u] \in {"schedule", "pend"} => pc'[u] = pc[u]
          /\ UNCHANGED <<to_destroy, scheduled, runner, warned, interp>>
      BY <1>2, <2>3 DEF TypeOK, Mark, CheckInterpreter, queueVars
    <3> QED
      BY <1>2, <3>1 DEF NothingStranded
  <2>4. ASSUME NEW t \in Threads, Enqueue(t) PROVE NothingStranded'
    <3>1. UNCHANGED <<scheduled, runner, warned, interp>>
      BY <2>4 DEF Enqueue
    <3>2. CASE to_destroy = <<>>
      <4>1. pc'[t] = "schedule"
        BY <1>2, <2>4, <3>2 DEF TypeOK, Enqueue
      <4> QED
        BY <4>1 DEF NothingStranded
    <3>3. CASE to_destroy # <<>>
      <4>1. \A u \in Threads : pc[u] \in {"schedule", "pend"} => pc'[u] = pc[u]
        BY <1>2, <2>4 DEF TypeOK, Enqueue
      <4> QED
        BY <1>2, <3>1, <3>3, <4>1 DEF NothingStranded
    <3> QED
      BY <3>2, <3>3
  <2>5. ASSUME NEW t \in Threads, SkipShuttingDown(t) PROVE NothingStranded'
    BY <2>5 DEF SkipShuttingDown, NothingStranded
  <2>6. ASSUME NEW t \in Threads, SeeRunning(t) PROVE NothingStranded'
    <3>1. pc'[t] = "pend"
      BY <1>2, <2>6 DEF TypeOK, SeeRunning
    <3> QED
      BY <3>1 DEF NothingStranded
  <2>7. ASSUME NEW t \in Threads, AddPending(t) PROVE NothingStranded'
    <3>1. scheduled' > 0 \/ warned'
      BY <1>2, <2>7 DEF TypeOK, AddPending
    <3> QED
      BY <3>1 DEF NothingStranded
  <2>8. CASE RunPending \/ TakeOne \/ DestroyEnd
    <3>1. runner' # "idle"
      BY <2>8 DEF RunPending, TakeOne, DestroyEnd
    <3> QED
      BY <3>1 DEF NothingStranded
  <2>9. CASE LoopEnds
    BY <2>9 DEF LoopEnds, NothingStranded
  <2>10. CASE Finalize
    BY <2>10 DEF Finalize, NothingStranded
  <2>11. ASSUME NEW g \in Greenlets,
                \/ StartGreenlet(g) \/ DropInThread(g) \/ DropFinalizing(g) \/ ReapOne(g)
                \/ \E t \in Threads : DropElsewhere(t, g) \/ ClearOne(t, g)
         PROVE  UNCHANGED <<pc, to_destroy, scheduled, runner, warned, interp>>
    BY <2>11 DEF StartGreenlet, DropInThread, DropFinalizing, ReapOne, DropElsewhere, ClearOne,
           threadVars, queueVars
  <2>12. ASSUME FinishDrop \/ ForeignPending \/ UNCHANGED vars \/ \E t \in Threads : ClearBegin(t)
         PROVE  UNCHANGED <<pc, to_destroy, scheduled, runner, warned, interp>>
    BY <2>12 DEF FinishDrop, ClearBegin, ForeignPending, threadVars, queueVars, vars
  <2> QED
    BY <1>2, <2>1, <2>2, <2>3, <2>4, <2>5, <2>6, <2>7, <2>8, <2>9, <2>10, <2>11, <2>12
    DEF Next, Destructor, DestroyQueue, Ended
<1> QED
  BY <1>1, <1>2, CleanupTypeCorrect, PTL DEF Spec
=============================================================================

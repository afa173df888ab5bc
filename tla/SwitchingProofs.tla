-------------------------- MODULE SwitchingProofs --------------------------
(***************************************************************************)
(* Where control goes, for any threads, greenlets and lookups of `run`:    *)
(* ControlInv is preserved by every step, whatever Python code does while  *)
(* a `run` attribute is being looked up.                                   *)
(***************************************************************************)
EXTENDS Switching, TLAPS, SequenceTheorems, FiniteSetTheorems

IInv == TypeOK /\ ControlInv

LEMMA MainsAreGreenlets ==
    /\ \A t \in Threads : MainOf[t] \in Greenlets /\ MainOf[t] \in Mains /\ MainOf[t] # NoOne
    /\ Mains \subseteq Greenlets
BY ThreadsAssumption, MainOfAssumption DEF Mains

\* The values that travel are Things.
LEMMA ThingsType ==
    /\ None \in Things /\ Exit \in Things /\ Exit # None /\ Values \subseteq Things
    /\ \A n \in 0..MaxSends : n < MaxSends => /\ n + 1 \in Values
                                             /\ n + 1 # None
BY BoundsAssumption DEF Things, None, Exit, Values

LEMMA CallType ==
    ASSUME NEW t \in Threads, NEW g \in Greenlets, NEW v \in Things, NEW b \in {"switch", "die"}
    PROVE  /\ Call(t, g, b, v) \in Calls
           /\ Call(t, g, b, v).thread = t
           /\ Call(t, g, b, v).this = g
           /\ Call(t, g, b, v).target = g
           /\ Call(t, g, b, v).back = b
BY ThingsType DEF Call, Calls

\* A current greenlet has started, and is current in one thread only.
LEMMA CurrentStarted ==
    ASSUME TypeOK, CurrentInv, NEW t \in Threads
    PROVE  current[t] \in Greenlets /\ Started(current[t])
<1>1. /\ current \in [Threads -> Greenlets]
      /\ \A g \in Greenlets : Started(g) <=> home[g] # NoOne
  BY DEF TypeOK
<1>2. home[current[t]] = MainOf[t]
  BY DEF CurrentInv
<1> QED
  BY <1>1, <1>2, MainsAreGreenlets

LEMMA CurrentOnce ==
    ASSUME TypeOK, CurrentInv, NEW t \in Threads, NEW u \in Threads, current[t] = current[u]
    PROVE  t = u
BY MainOfAssumption DEF CurrentInv

LEMMA ReceivedType ==
    ASSUME got \in [Values -> Nat], NEW v
    PROVE  Received(v) \in [Values -> Nat]
BY DEF Received

LEMMA MoveType ==
    ASSUME args \in [Greenlets -> Things], NEW a \in Greenlets, NEW b \in Greenlets
    PROVE  /\ Move(a, b) \in [Greenlets -> Things]
           /\ \A g \in Greenlets : g # a /\ g # b => Move(a, b)[g] = args[g]
           /\ a # b => Move(a, b)[a] = None
BY ThingsType DEF Move

\* What is left of a sequence of lookups when the last one returns.
LEMMA FrontProperties ==
    ASSUME NEW S, NEW s \in Seq(S), s # <<>>
    PROVE  /\ Front(s) \in Seq(S) /\ Last(s) \in S
           /\ Len(Front(s)) = Len(s) - 1
           /\ \A i \in DOMAIN Front(s) : i \in DOMAIN s /\ Front(s)[i] = s[i]
           /\ Front(s) = <<>> => Last(s) = s[1]
           /\ Len(s) \in DOMAIN s /\ Last(s) = s[Len(s)]
<1>1. Len(s) \in Nat \ {0} /\ DOMAIN s = 1..Len(s)
  BY EmptySeq
<1>2. Front(s) = SubSeq(s, 1, Len(s) - 1) /\ Last(s) = s[Len(s)]
  BY DEF Front, Last
<1>3. /\ SubSeq(s, 1, Len(s) - 1) \in Seq(S)
      /\ Len(SubSeq(s, 1, Len(s) - 1)) = Len(s) - 1
      /\ \A i \in 1..(Len(s) - 1) : SubSeq(s, 1, Len(s) - 1)[i] = s[i]
  BY <1>1
<1>4. Front(s) \in Seq(S) /\ Len(Front(s)) = Len(s) - 1
  BY <1>2, <1>3
<1>5. DOMAIN Front(s) = 1..(Len(s) - 1)
  BY <1>4
<1>6. \A i \in DOMAIN Front(s) : i \in DOMAIN s /\ Front(s)[i] = s[i]
  BY <1>1, <1>2, <1>3, <1>5
<1>7. Front(s) = <<>> => Last(s) = s[1]
  <2>1. ASSUME Front(s) = <<>> PROVE Len(s) = 1
    <3>1. Len(<<>>) = 0
      OBVIOUS
    <3>2. Len(Front(s)) = 0
      BY <2>1, <3>1
    <3>3. Len(s) - 1 = 0
      BY <1>4, <3>2
    <3>4. Len(s) \in Nat
      OBVIOUS
    <3> QED
      BY <3>3, <3>4
  <2> QED
    BY <2>1, <1>2
<1> QED
  BY <1>1, <1>2, <1>4, <1>6, <1>7
\* What g_switch_finish() and inner_bootstrap() capture.
LEMMA CaptureType ==
    ASSUME TypeOK, NEW v \in Things, NEW e \in {"none", "error", "exit"}, NEW b \in BOOLEAN,
           NEW g \in Greenlets
    PROVE  Capture(v, e, b, g) \in Captures
<1>1. Len(frames[g]) \in Nat
  BY DEF TypeOK
<1> QED
  BY <1>1 DEF Capture, Captures

\* TraceInv is about traced, life and runs only.
LEMMA SameTraces ==
    ASSUME TraceInv, UNCHANGED <<life, runs, traced>>
    PROVE  TraceInv'
BY DEF TraceInv
-----------------------------------------------------------------------------
LEMMA InitIInv == Init => IInv
<1> SUFFICES ASSUME Init PROVE IInv
  OBVIOUS
<1>1. TypeOK
  BY MainsAreGreenlets, ThingsType, BoundsAssumption, ThreadsAssumption, MainOfAssumption
  DEF Init, TypeOK, Started, Idle
<1>2. \A t \in Threads : home[current[t]] = MainOf[t] /\ life[current[t]] = "active"
  BY MainsAreGreenlets, MainOfAssumption DEF Init
<1>3. ControlInv
  BY <1>2, MainsAreGreenlets
  DEF Init, ControlInv, FramesInv, CurrentInv, CallInv, ArgsInv, RunsInv, TraceInv, Started
<1> QED
  BY <1>1, <1>3 DEF IInv

-----------------------------------------------------------------------------
\* The steps that begin a call of g_switch() from Python code.
LEMMA SwitchIInv ==
    ASSUME IInv, NEW t \in Threads, NEW g \in Greenlets, Switch(t, g)
    PROVE  IInv'
<1> USE DEF Switch, tracing, greenlets
<1>1. TypeOK /\ FramesInv /\ CurrentInv /\ CallInv /\ ArgsInv /\ RunsInv /\ TraceInv
  BY DEF IInv, ControlInv
<1>2. sent + 1 \in Values /\ sent + 1 \in Things /\ sent + 1 # None /\ sent + 1 \in 0..MaxSends
  BY <1>1, ThingsType, BoundsAssumption DEF TypeOK
<1>3. /\ sw' \in Calls /\ sw'.thread = t /\ sw'.this = g /\ sw'.target = g
      /\ sw'.back = "switch"
  BY <1>2, CallType
<1>4. TypeOK'
  BY <1>1, <1>2, <1>3 DEF TypeOK, Started
<1>5. FramesInv' /\ RunsInv'
  BY <1>1 DEF FramesInv, LookUpOK, RunsInv, Started
<1>6. CurrentInv'
  BY <1>1 DEF CurrentInv
<1>7. CallInv'
  BY <1>3 DEF CallInv
<1>8. ArgsInv'
  BY <1>1, <1>3, CurrentStarted DEF ArgsInv, TypeOK
<1>9. TraceInv'
  BY <1>1, SameTraces
<1> QED
  BY <1>4, <1>5, <1>6, <1>7, <1>8, <1>9 DEF IInv, ControlInv

LEMMA ThrowIInv ==
    ASSUME IInv, NEW t \in Threads, NEW g \in Greenlets, NEW e \in {"error", "exit"},
           Throw(t, g, e)
    PROVE  IInv'
<1> USE DEF Throw, tracing, greenlets
<1>1. TypeOK /\ FramesInv /\ CurrentInv /\ CallInv /\ ArgsInv /\ RunsInv /\ TraceInv
  BY DEF IInv, ControlInv
<1> DEFINE v == IF life[g] = "dead" /\ e = "exit" THEN Exit ELSE None
<1>2. /\ v \in Things
      /\ args' = [args EXCEPT ![g] = v]
      /\ err' \in {"none", "error", "exit"}
      /\ sw' = Call(t, g, "switch", v)
  BY ThingsType
<1>3. /\ sw' \in Calls /\ sw'.thread = t /\ sw'.this = g /\ sw'.target = g
      /\ sw'.back = "switch"
  <2> HIDE DEF v
  <2> QED BY <1>2, CallType
<1>4. TypeOK'
  <2> HIDE DEF v
  <2>1. thrown' \in 0..MaxThrows
    BY <1>1, BoundsAssumption DEF TypeOK
  <2> QED BY <1>1, <1>2, <1>3, <2>1 DEF TypeOK, Started, ghosts
<1>5. FramesInv' /\ RunsInv'
  BY <1>1 DEF FramesInv, LookUpOK, RunsInv, Started
<1>6. CurrentInv'
  BY <1>1 DEF CurrentInv
<1>7. CallInv'
  BY <1>3 DEF CallInv
<1>8. ArgsInv'
  <2> HIDE DEF v
  <2> QED BY <1>1, <1>2, <1>3, CurrentStarted DEF ArgsInv, TypeOK
<1>9. TraceInv'
  BY <1>1, SameTraces
<1> QED
  BY <1>4, <1>5, <1>6, <1>7, <1>8, <1>9 DEF IInv, ControlInv

LEMMA SetParentIInv ==
    ASSUME IInv, NEW g \in Greenlets, NEW p \in Greenlets, SetParent(g, p)
    PROVE  IInv'
<1> USE DEF SetParent, tracing, ghosts
<1>1. TypeOK /\ FramesInv /\ CurrentInv /\ CallInv /\ ArgsInv /\ RunsInv /\ TraceInv
  BY DEF IInv, ControlInv
<1>2. TypeOK'
  BY <1>1, ThreadsAssumption DEF TypeOK, Started
<1>3. FramesInv' /\ RunsInv'
  BY <1>1 DEF FramesInv, LookUpOK, RunsInv, Started
<1>4. CurrentInv' /\ CallInv' /\ ArgsInv'
  BY <1>1 DEF CurrentInv, CallInv, ArgsInv
<1>5. TraceInv'
  BY <1>1, SameTraces
<1> QED
  BY <1>2, <1>3, <1>4, <1>5 DEF IInv, ControlInv

LEMMA FinishIInv ==
    ASSUME IInv, NEW t \in Threads, Finish(t)
    PROVE  IInv'
<1> USE DEF Finish, tracing, greenlets
<1> DEFINE g == current[t]
<1>1. TypeOK /\ FramesInv /\ CurrentInv /\ CallInv /\ ArgsInv /\ RunsInv /\ TraceInv
  BY DEF IInv, ControlInv
<1>2. g \in Greenlets /\ Started(g)
  BY <1>1, CurrentStarted
<1>3. life[g] = "active"
  BY <1>1, <1>2 DEF CurrentInv, Started, TypeOK
<1>4. \E v \in Things : sw' = Call(t, g, "die", v)
  BY <1>1, ThingsType DEF TypeOK
<1>5. /\ sw' \in Calls /\ sw'.thread = t /\ sw'.this = g /\ sw'.back = "die"
  BY <1>2, <1>4, CallType
<1>6. sent' \in 0..MaxSends /\ err' \in {"none", "error", "exit"}
  BY <1>1, BoundsAssumption DEF TypeOK
<1>7. TypeOK'
  BY <1>1, <1>5, <1>6 DEF TypeOK, Started
<1>8. FramesInv' /\ RunsInv'
  BY <1>1 DEF FramesInv, LookUpOK, RunsInv, Started
<1>9. CurrentInv'
  BY <1>1 DEF CurrentInv
<1>10. CallInv'
  BY <1>1, <1>2, <1>3, <1>5 DEF CallInv, Mains
<1>11. ArgsInv'
  BY <1>1 DEF ArgsInv
<1>12. TraceInv'
  BY <1>1, SameTraces
<1> QED
  BY <1>7, <1>8, <1>9, <1>10, <1>11, <1>12 DEF IInv, ControlInv

-----------------------------------------------------------------------------
\* A call that fails, while or before `run` is looked up.
LEMMA FailIInv ==
    ASSUME IInv, NEW c \in Calls, Fail(c),
           UNCHANGED <<greenlets, current, sent, thrown, got, runs, tracing>>,
           frames' \in [Greenlets -> Seq(Calls)],
           FramesInv',
           c.back = "die" => life[current[c.thread]] = "dead",
           \A t \in Threads : args[current[t]] # None => current[t] = c.this,
           \A t \in Threads : life[current[t]] = "dead" /\ frames'[current[t]] = <<>> =>
               c.thread = t /\ c.back = "die"
    PROVE  IInv'
<1> USE DEF Fail, tracing, greenlets
<1>1. TypeOK /\ CurrentInv /\ RunsInv /\ TraceInv
  BY DEF IInv, ControlInv
<1>2. c.this \in Greenlets /\ c.thread \in Threads /\ c.back \in {"switch", "die"}
  BY DEF Calls
<1>3. args' = [args EXCEPT ![c.this] = None]
  OBVIOUS
<1>4. \/ c.back = "switch" /\ pc' = "python" /\ err' = "none" /\ sw' = Idle
      \/ c.back = "die" /\ pc' = "die" /\ err' = "error" /\ sw' = c
  BY <1>2
<1>5. TypeOK'
  <2>1. args' \in [Greenlets -> Things] /\ told' \subseteq Values
    BY <1>1, <1>2, <1>3, ThingsType DEF TypeOK
  <2>2. /\ err' \in {"none", "error", "exit"}
        /\ pc' \in {"python", "die"}
        /\ IF pc' = "python" THEN sw' = Idle /\ err' = "none" ELSE sw' \in Calls
    BY <1>4
  <2> QED
    BY <1>1, <2>1, <2>2 DEF TypeOK, Started
<1>6. CurrentInv'
  BY <1>1, <1>4 DEF CurrentInv
<1>7. CallInv'
  BY <1>4 DEF CallInv
<1>8. ArgsInv'
  BY <1>1, <1>2, <1>3 DEF ArgsInv, TypeOK
<1>9. RunsInv'
  BY <1>1 DEF RunsInv, Started
<1>10. TraceInv'
  BY <1>1, SameTraces
<1> QED
  BY <1>5, <1>6, <1>7, <1>8, <1>9, <1>10 DEF IInv, ControlInv

\* The same for a failure that leaves the suspended lookups alone.
LEMMA FailHereIInv ==
    ASSUME IInv, pc \in {"check", "lookup", "start"}, Fail(sw),
           UNCHANGED <<greenlets, current, frames, sent, thrown, got, runs, tracing>>
    PROVE  IInv'
<1> USE DEF tracing, greenlets
<1>1. TypeOK /\ FramesInv /\ CurrentInv /\ CallInv /\ ArgsInv
  BY DEF IInv, ControlInv
<1>2. sw \in Calls
  BY <1>1 DEF TypeOK
<1>3. frames' \in [Greenlets -> Seq(Calls)]
  BY <1>1 DEF TypeOK
<1>4. FramesInv'
  BY <1>1 DEF FramesInv, LookUpOK, Started
<1>5. sw.back = "die" => life[current[sw.thread]] = "dead"
  BY <1>1 DEF CallInv
<1>6. \A t \in Threads : args[current[t]] # None => current[t] = sw.this
  BY <1>1 DEF ArgsInv
<1>7. \A t \in Threads : life[current[t]] = "dead" /\ frames'[current[t]] = <<>> =>
          sw.thread = t /\ sw.back = "die"
  BY <1>1 DEF CurrentInv
<1> QED
  BY <1>2, <1>3, <1>4, <1>5, <1>6, <1>7, FailIInv

LEMMA RefuseIInv == ASSUME IInv, Refuse PROVE IInv'
BY FailHereIInv DEF Refuse

LEMMA NotFoundIInv == ASSUME IInv, NotFound PROVE IInv'
BY FailHereIInv DEF NotFound

LEMMA RefuseStartIInv == ASSUME IInv, RefuseStart PROVE IInv'
BY FailHereIInv DEF RefuseStart

-----------------------------------------------------------------------------
\* A greenlet that may be switched to and has started is in the thread.
LEMMA AllowedStarted ==
    ASSUME NEW t, NEW g, SwitchAllowed(t, g), Started(g)
    PROVE  home[g] = MainOf[t]
BY DEF SwitchAllowed, MainInLineage

LEMMA AllowIInv == ASSUME IInv, Allow PROVE IInv'
<1> USE DEF Allow, tracing, greenlets, ghosts
<1>1. TypeOK /\ FramesInv /\ CurrentInv /\ CallInv /\ ArgsInv /\ RunsInv /\ TraceInv
  BY DEF IInv, ControlInv
<1>2. TypeOK'
  BY <1>1 DEF TypeOK, Started
<1>3. FramesInv' /\ RunsInv'
  BY <1>1 DEF FramesInv, LookUpOK, RunsInv, Started
<1>4. CurrentInv' /\ ArgsInv'
  BY <1>1 DEF CurrentInv, ArgsInv
<1>5. CallInv'
  BY <1>1, AllowedStarted DEF CallInv, Started
<1>6. TraceInv'
  BY <1>1, SameTraces
<1> QED
  BY <1>2, <1>3, <1>4, <1>5, <1>6 DEF IInv, ControlInv

LEMMA SkipDeadIInv == ASSUME IInv, SkipDead PROVE IInv'
<1> USE DEF SkipDead, tracing, greenlets, ghosts
<1>1. TypeOK /\ FramesInv /\ CurrentInv /\ CallInv /\ ArgsInv /\ RunsInv /\ TraceInv
  BY DEF IInv, ControlInv
<1>2. sw \in Calls /\ sw.target \in Greenlets
  BY <1>1 DEF TypeOK, Calls
<1>3. parent[sw.target] \in Greenlets
  BY <1>1, <1>2 DEF TypeOK
<1>4. /\ sw' \in Calls /\ sw'.thread = sw.thread /\ sw'.this = sw.this
      /\ sw'.back = sw.back /\ sw'.target = parent[sw.target]
  BY <1>2, <1>3 DEF Calls
<1>5. TypeOK'
  BY <1>1, <1>4 DEF TypeOK, Started
<1>6. FramesInv' /\ RunsInv'
  BY <1>1 DEF FramesInv, LookUpOK, RunsInv, Started
<1>7. CurrentInv' /\ ArgsInv'
  BY <1>1, <1>4 DEF CurrentInv, ArgsInv
<1>8. CallInv'
  BY <1>1, <1>4 DEF CallInv, Started
<1>9. TraceInv'
  BY <1>1, SameTraces
<1> QED
  BY <1>5, <1>6, <1>7, <1>8, <1>9 DEF IInv, ControlInv

LEMMA LookUpRunIInv == ASSUME IInv, LookUpRun PROVE IInv'
<1> USE DEF LookUpRun, tracing, greenlets, ghosts
<1>1. TypeOK /\ FramesInv /\ CurrentInv /\ CallInv /\ ArgsInv /\ RunsInv /\ TraceInv
  BY DEF IInv, ControlInv
<1>2. sw \in Calls /\ sw.target \in Greenlets /\ sw.this \in Greenlets /\ sw.thread \in Threads
  BY <1>1 DEF TypeOK, Calls
<1>3. /\ args' \in [Greenlets -> Things]
      /\ \A g \in Greenlets : g # sw.this /\ g # sw.target => args'[g] = args[g]
      /\ sw.this # sw.target => args'[sw.this] = None
  BY <1>1, <1>2, MoveType DEF TypeOK
<1>4. /\ sw' \in Calls /\ sw'.thread = sw.thread /\ sw'.this = sw.this
      /\ sw'.back = sw.back /\ sw'.target = sw.target
  <2>1. args'[sw.target] \in Things /\ err \in {"none", "error", "exit"}
    BY <1>1, <1>2, <1>3 DEF TypeOK
  <2> QED
    BY <1>2, <2>1 DEF Calls
<1>5. ~Started(sw.target) /\ \A t \in Threads : current[t] # sw.target
  BY <1>1, CurrentStarted DEF Started
<1>6. TypeOK'
  BY <1>1, <1>3, <1>4 DEF TypeOK, Started
<1>7. FramesInv' /\ RunsInv'
  BY <1>1 DEF FramesInv, LookUpOK, RunsInv, Started
<1>8. CurrentInv'
  BY <1>1, <1>4 DEF CurrentInv
<1>9. home[current[sw.thread]] = MainOf[sw.thread]
  BY <1>1, <1>2 DEF CurrentInv
<1>10. CallInv'
  BY <1>1, <1>2, <1>4, <1>5, <1>9 DEF CallInv, LookUpOK, Started
<1>11. ArgsInv'
  <2> SUFFICES ASSUME NEW t \in Threads PROVE args'[current[t]] = None
    BY DEF ArgsInv
  <2>1. current[t] \in Greenlets /\ current[t] # sw.target
    BY <1>1, <1>5, CurrentStarted
  <2>2. CASE current[t] = sw.this
    BY <1>3, <2>1, <2>2
  <2>3. CASE current[t] # sw.this
    BY <1>1, <1>3, <2>1, <2>3 DEF ArgsInv
  <2> QED
    BY <2>2, <2>3
<1>12. TraceInv'
  BY <1>1, SameTraces
<1> QED
  BY <1>6, <1>7, <1>8, <1>10, <1>11, <1>12 DEF IInv, ControlInv

LEMMA FoundIInv == ASSUME IInv, Found PROVE IInv'
<1> USE DEF Found, tracing, greenlets, ghosts
<1>1. TypeOK /\ FramesInv /\ CurrentInv /\ CallInv /\ ArgsInv /\ RunsInv /\ TraceInv
  BY DEF IInv, ControlInv
<1>2. TypeOK'
  BY <1>1 DEF TypeOK, Started
<1>3. FramesInv' /\ RunsInv'
  BY <1>1 DEF FramesInv, LookUpOK, RunsInv, Started
<1>4. CurrentInv' /\ ArgsInv' /\ CallInv'
  BY <1>1 DEF CurrentInv, ArgsInv, CallInv, LookUpOK, Started
<1>5. TraceInv'
  BY <1>1, SameTraces
<1> QED
  BY <1>2, <1>3, <1>4, <1>5 DEF IInv, ControlInv
-----------------------------------------------------------------------------
\* The suspended lookups that are left when the current greenlet is left.
LEMMA LeaveProperties ==
    ASSUME TypeOK, FramesInv, NEW h \in Greenlets
    PROVE  /\ Leave(h) \in [Greenlets -> Seq(Calls)]
           /\ \A g \in Greenlets : Leave(h)[g] = frames[g] \/ (g = h /\ Leave(h)[g] = <<>>)
<1>1. frames \in [Greenlets -> Seq(Calls)]
  BY DEF TypeOK
<1>2. <<>> \in Seq(Calls)
  OBVIOUS
<1>3. Leave(h) = frames \/ Leave(h) = [frames EXCEPT ![h] = <<>>]
  BY DEF Leave
<1> QED
  BY <1>1, <1>2, <1>3

\* Nothing is current in a thread that is left for another greenlet of it.
LEMMA OthersWait ==
    ASSUME IInv, NEW t \in Threads, t # sw.thread, NEW h,
           h = current[sw.thread], sw.thread \in Threads, pc # "end"
    PROVE  /\ current[t] # h
           /\ ~(life[current[t]] = "dead" /\ Leave(h)[current[t]] = <<>>)
<1>1. TypeOK /\ CurrentInv /\ FramesInv
  BY DEF IInv, ControlInv
<1>2. current[t] # h
  BY <1>1, CurrentOnce
<1>3. h \in Greenlets /\ current[t] \in Greenlets
  BY <1>1, CurrentStarted
<1>4. Leave(h)[current[t]] = frames[current[t]]
  BY <1>1, <1>2, <1>3, LeaveProperties
<1> QED
  BY <1>1, <1>2, <1>4 DEF CurrentInv

\* FramesInv says nothing of a greenlet without suspended lookups.
LEMMA FewerFrames ==
    ASSUME FramesInv, UNCHANGED <<life, home>>,
           \A g \in Greenlets : frames'[g] = frames[g] \/ frames'[g] = <<>>
    PROVE  FramesInv'
<1> SUFFICES ASSUME NEW g \in Greenlets
             PROVE  /\ ~Started(g)' => frames'[g] = <<>>
                    /\ \A i \in DOMAIN frames'[g] : LookUpOK(frames[g][i], g)'
                    /\ life'[g] = "dead" /\ frames'[g] # <<>> => frames'[g][1].back = "die"
  BY DEF FramesInv
<1>1. CASE frames'[g] = frames[g]
  BY <1>1 DEF FramesInv, LookUpOK, Started
<1>2. CASE frames'[g] = <<>>
  <2>1. DOMAIN <<>> = {}
    OBVIOUS
  <2> QED
    BY <1>2, <2>1
<1> QED
  BY <1>1, <1>2

\* The trace function is called in an active greenlet.
LEMMA AppendedTrace ==
    ASSUME TraceInv, traced \in [Greenlets -> Seq(Captures)], NEW g \in Greenlets, NEW c \in Captures,
           UNCHANGED runs, \A x \in Greenlets : x # g => life'[x] = life[x],
           life'[g] = "active",
           c.first => traced[g] = <<>> /\ g \notin Mains /\ runs[g] = 0 /\ c.depth = 0,
           traced' = [traced EXCEPT ![g] = Append(@, c)]
    PROVE  TraceInv'
<1> SUFFICES ASSUME NEW x \in Greenlets
             PROVE  /\ traced'[x] # <<>> => life'[x] = "active"
                    /\ \A i \in DOMAIN traced'[x] : traced'[x][i].first =>
                          i = 1 /\ x \notin Mains /\ runs[x] = 0 /\ traced'[x][i].depth = 0
  BY DEF TraceInv
<1>1. CASE x # g
  <2>1. traced'[x] = traced[x] /\ life'[x] = life[x]
    BY <1>1
  <2> QED
    BY <2>1 DEF TraceInv
<1>2. CASE x = g
  <2> DEFINE s == traced[g]
  <2>1. /\ s \in Seq(Captures) /\ traced'[g] = Append(s, c)
        /\ Len(s) \in Nat /\ DOMAIN s = 1..Len(s)
        /\ s = <<>> => Len(s) = 0
    BY EmptySeq
  <2> HIDE DEF s
  <2>2. /\ DOMAIN Append(s, c) = 1..(Len(s) + 1)
        /\ \A i \in 1..Len(s) : Append(s, c)[i] = s[i]
        /\ Append(s, c)[Len(s) + 1] = c
    BY <2>1
  <2>3. ASSUME NEW i \in 1..(Len(s) + 1), Append(s, c)[i].first
        PROVE  i = 1 /\ g \notin Mains /\ runs[g] = 0 /\ Append(s, c)[i].depth = 0
    <3>1. CASE i = Len(s) + 1
      BY <2>1, <2>2, <2>3, <3>1 DEF s
    <3>2. CASE i # Len(s) + 1
      <4>1. i \in 1..Len(s) /\ s[i].first /\ Append(s, c)[i] = s[i]
        BY <2>1, <2>2, <2>3, <3>2
      <4> QED
        BY <2>1, <4>1 DEF TraceInv, s
    <3> QED
      BY <3>1, <3>2
  <2> QED
    BY <1>2, <2>1, <2>2, <2>3
<1> QED
  BY <1>1, <1>2

LEMMA SwitchStackIInv == ASSUME IInv, SwitchStack PROVE IInv'
<1> USE DEF SwitchStack, tracing, greenlets
<1>1. TypeOK /\ FramesInv /\ CurrentInv /\ CallInv /\ ArgsInv /\ RunsInv /\ TraceInv
  BY DEF IInv, ControlInv
<1>2. sw \in Calls /\ sw.target \in Greenlets /\ sw.this \in Greenlets /\ sw.thread \in Threads
  BY <1>1 DEF TypeOK, Calls
<1>3. home[sw.target] = MainOf[sw.thread]
  OBVIOUS
<1> DEFINE moved == Move(sw.this, sw.target)
           h == current[sw.thread]
<1>4. /\ args' = [moved EXCEPT ![sw.target] = None]
      /\ frames' = Leave(h)
      /\ current' = [current EXCEPT ![sw.thread] = sw.target]
      /\ err' = "none" /\ pc' = "python" /\ sw' = Idle
  BY <1>3
<1>5. /\ moved \in [Greenlets -> Things]
      /\ \A g \in Greenlets : g # sw.this /\ g # sw.target => moved[g] = args[g]
      /\ sw.this # sw.target => moved[sw.this] = None
  BY <1>1, <1>2, MoveType DEF TypeOK
<1>6. h \in Greenlets
  BY <1>1, <1>2, CurrentStarted
<1>7. /\ frames' \in [Greenlets -> Seq(Calls)]
      /\ \A g \in Greenlets : frames'[g] = frames[g] \/ (g = h /\ frames'[g] = <<>>)
  BY <1>1, <1>4, <1>6, LeaveProperties
<1> HIDE DEF moved, h
<1>8. /\ args' \in [Greenlets -> Things]
      /\ args'[sw.target] = None
      /\ \A g \in Greenlets : g # sw.target => args'[g] = moved[g]
  BY <1>2, <1>4, <1>5, ThingsType
<1>9. \/ /\ got' = got /\ seen' = [seen EXCEPT ![sw.thread] = sw.target]
         /\ \E c \in Captures : c.first = FALSE /\
               traced' = [traced EXCEPT ![sw.target] = Append(@, c)]
      \/ got' \in [Values -> Nat] /\ traced' = traced /\ seen' = seen
  <2>1. moved[sw.target] \in Things /\ err \in {"none", "error", "exit"}
    BY <1>1, <1>2, <1>5 DEF TypeOK
  <2>2. /\ Capture(moved[sw.target], err, FALSE, sw.target) \in Captures
        /\ Capture(moved[sw.target], err, FALSE, sw.target).first = FALSE
    BY <1>1, <1>2, <2>1, CaptureType DEF Capture
  <2>3. CASE sw.thread \in tracer
    BY <1>3, <2>2, <2>3 DEF Trace, moved
  <2>4. CASE sw.thread \notin tracer
    BY <1>1, <1>3, <2>4, ReceivedType DEF Arrive, TypeOK
  <2> QED
    BY <2>3, <2>4
<1>10. TypeOK'
  <2>1. current' \in [Threads -> Greenlets]
    BY <1>1, <1>2, <1>4 DEF TypeOK
  <2>2. got' \in [Values -> Nat] /\ seen' \in [Threads -> Greenlets]
    BY <1>1, <1>2, <1>9 DEF TypeOK
  <2>3. traced' \in [Greenlets -> Seq(Captures)]
    <3>1. traced \in [Greenlets -> Seq(Captures)]
      BY <1>1 DEF TypeOK
    <3>2. ASSUME NEW c \in Captures, traced' = [traced EXCEPT ![sw.target] = Append(@, c)]
          PROVE  traced' \in [Greenlets -> Seq(Captures)]
      <4>1. Append(traced[sw.target], c) \in Seq(Captures)
        BY <1>2, <3>1, <3>2
      <4> HIDE DEF SwitchStack
      <4> QED
        BY <1>2, <3>1, <3>2, <4>1
    <3> QED
      BY <1>9, <3>1, <3>2
  <2> QED
    BY <1>1, <1>4, <1>7, <1>8, <2>1, <2>2, <2>3 DEF TypeOK, Started
<1>11. FramesInv' /\ RunsInv'
  BY <1>1, <1>7, FewerFrames DEF RunsInv, Started
<1>12. CurrentInv'
  <2> SUFFICES ASSUME NEW t \in Threads
               PROVE  /\ home[current'[t]] = MainOf[t]
                      /\ ~(life[current'[t]] = "dead" /\ frames'[current'[t]] = <<>>)
    BY DEF CurrentInv
  <2>1. CASE t = sw.thread
    BY <1>1, <1>2, <1>3, <1>4, <2>1 DEF TypeOK
  <2>2. CASE t # sw.thread
    <3>1. current'[t] = current[t]
      BY <1>1, <1>4, <2>2 DEF TypeOK
    <3>2. ~(life[current[t]] = "dead" /\ frames'[current[t]] = <<>>)
      BY <1>2, <1>4, <2>2, OthersWait DEF h
    <3> QED
      BY <1>1, <3>1, <3>2 DEF CurrentInv
  <2> QED
    BY <2>1, <2>2
<1>13. CallInv'
  BY <1>4 DEF CallInv
<1>14. ArgsInv'
  <2> SUFFICES ASSUME NEW t \in Threads PROVE args'[current'[t]] = None
    BY DEF ArgsInv
  <2>1. CASE t = sw.thread
    BY <1>1, <1>2, <1>4, <1>8, <2>1 DEF TypeOK
  <2>2. CASE t # sw.thread
    <3>1. current'[t] = current[t] /\ current[t] \in Greenlets
      BY <1>1, <1>4, <2>2 DEF TypeOK
    <3>2. home[current[t]] # MainOf[sw.thread]
      BY <1>1, <1>2, <2>2, MainOfAssumption DEF CurrentInv
    <3>3. current[t] # sw.target
      BY <1>3, <3>2
    <3>4. current[t] # sw.this
      BY <1>1, <3>2, CurrentStarted DEF CallInv
    <3>5. args[current[t]] = None
      BY <1>1, <3>4 DEF ArgsInv
    <3> QED
      BY <1>5, <1>8, <3>1, <3>3, <3>4, <3>5
  <2> QED
    BY <2>1, <2>2
<1>15. TraceInv'
  <2>1. CASE traced' = traced
    BY <1>1, <2>1, SameTraces
  <2>2. ASSUME NEW c \in Captures, c.first = FALSE,
               traced' = [traced EXCEPT ![sw.target] = Append(@, c)]
        PROVE  TraceInv'
    <3>1. life[sw.target] = "active" /\ traced \in [Greenlets -> Seq(Captures)]
      BY <1>1 DEF TypeOK
    <3> QED
      BY <1>1, <1>2, <2>2, <3>1, AppendedTrace
  <2> QED
    BY <1>9, <2>1, <2>2
<1> QED
  BY <1>10, <1>11, <1>12, <1>13, <1>14, <1>15 DEF IInv, ControlInv
-----------------------------------------------------------------------------
\* A call that begins to wait in the current greenlet of its thread, for a lookup or
\* for the trace function of another thread.
LEMMA WaitsHere ==
    ASSUME TypeOK, FramesInv, CurrentInv, pc \notin {"python", "end"}, NEW c \in Calls,
           c.thread = sw.thread, c.back = sw.back, NEW h, h = current[sw.thread], LookUpOK(c, h),
           UNCHANGED <<life, home>>,
           frames' = [frames EXCEPT ![h] = Append(@, c)]
    PROVE  /\ frames' \in [Greenlets -> Seq(Calls)]
           /\ FramesInv'
           /\ \A t \in Threads : ~(life[current[t]] = "dead" /\ frames'[current[t]] = <<>>)
<1>1. sw.thread \in Threads
  BY DEF Calls
<1>2. h \in Greenlets /\ Started(h)
  BY <1>1, CurrentStarted
<1>3. PICK s \in Seq(Calls) : s = frames[h]
  BY <1>2 DEF TypeOK
<1>4. /\ Append(s, c) \in Seq(Calls)
      /\ DOMAIN s = 1..Len(s) /\ DOMAIN Append(s, c) = 1..(Len(s) + 1)
      /\ \A i \in 1..Len(s) : Append(s, c)[i] = s[i]
      /\ Append(s, c)[Len(s) + 1] = c
      /\ Len(s) \in Nat /\ (s = <<>> <=> Len(s) = 0)
      /\ Append(s, c) # <<>>
  BY EmptySeq
<1>5. frames' \in [Greenlets -> Seq(Calls)]
  BY <1>2, <1>3, <1>4 DEF TypeOK
<1>6. /\ frames'[h] = Append(s, c)
      /\ \A g \in Greenlets : g # h => frames'[g] = frames[g]
  BY <1>2, <1>3 DEF TypeOK
<1>7. life[h] = "dead" /\ s = <<>> => c.back = "die"
  BY <1>1, <1>3 DEF CurrentInv
<1>8. FramesInv'
  <2> SUFFICES ASSUME NEW g \in Greenlets
               PROVE  /\ ~Started(g)' => frames'[g] = <<>>
                      /\ \A i \in DOMAIN frames'[g] : LookUpOK(frames[g][i], g)'
                      /\ life'[g] = "dead" /\ frames'[g] # <<>> => frames'[g][1].back = "die"
    BY DEF FramesInv
  <2>1. CASE g # h
    BY <1>6, <2>1 DEF FramesInv, LookUpOK, Started
  <2>2. CASE g = h
    <3>1. ASSUME NEW i \in DOMAIN frames'[h] PROVE LookUpOK(frames'[h][i], h)
      <4>1. CASE i = Len(s) + 1
        BY <1>4, <1>6, <4>1
      <4>2. CASE i # Len(s) + 1
        <5>1. i \in DOMAIN frames[h] /\ frames'[h][i] = frames[h][i]
          BY <1>3, <1>4, <1>6, <4>2
        <5> QED
          BY <1>2, <5>1 DEF FramesInv
      <4> QED
        BY <4>1, <4>2
    <3>2. life[h] = "dead" => frames'[h][1].back = "die"
      <4>1. CASE s = <<>>
        BY <1>4, <1>6, <1>7, <4>1
      <4>2. CASE s # <<>>
        BY <1>2, <1>3, <1>4, <1>6, <4>2 DEF FramesInv
      <4> QED
        BY <4>1, <4>2
    <3> QED
      BY <1>2, <2>2, <3>1, <3>2 DEF LookUpOK, Started
  <2> QED
    BY <2>1, <2>2
<1>9. ASSUME NEW t \in Threads PROVE ~(life[current[t]] = "dead" /\ frames'[current[t]] = <<>>)
  <2>1. CASE current[t] = h
    BY <1>4, <1>6, <2>1
  <2>2. CASE current[t] # h
    BY <1>6, <2>2, CurrentStarted DEF CurrentInv
  <2> QED
    BY <2>1, <2>2
<1> QED
  BY <1>5, <1>8, <1>9

\* The innermost of the calls that wait in a current greenlet stops waiting.
LEMMA ReturnsHere ==
    ASSUME IInv, pc = "python", NEW t \in Threads, frames[current[t]] # <<>>,
           UNCHANGED <<life, home>>,
           frames' = [frames EXCEPT ![current[t]] = Front(frames[current[t]])]
    PROVE  /\ frames' \in [Greenlets -> Seq(Calls)]
           /\ FramesInv'
           /\ Last(frames[current[t]]) \in Calls
           /\ Last(frames[current[t]]).thread = t
           /\ LookUpOK(Last(frames[current[t]]), current[t])
           /\ \A u \in Threads : life[current[u]] = "dead" /\ frames'[current[u]] = <<>> =>
                  Last(frames[current[t]]).thread = u /\ Last(frames[current[t]]).back = "die"
<1> DEFINE h == current[t]
           c == Last(frames[h])
<1>1. TypeOK /\ FramesInv /\ CurrentInv
  BY DEF IInv, ControlInv
<1>2. h \in Greenlets /\ Started(h) /\ frames[h] \in Seq(Calls)
  BY <1>1, CurrentStarted DEF TypeOK
<1>3. /\ Front(frames[h]) \in Seq(Calls) /\ c \in Calls
      /\ \A i \in DOMAIN Front(frames[h]) :
            i \in DOMAIN frames[h] /\ Front(frames[h])[i] = frames[h][i]
      /\ Front(frames[h]) = <<>> => c = frames[h][1]
      /\ Len(frames[h]) \in DOMAIN frames[h] /\ c = frames[h][Len(frames[h])]
  BY <1>2, FrontProperties
<1>4. /\ frames'[h] = Front(frames[h])
      /\ \A g \in Greenlets : g # h => frames'[g] = frames[g]
  BY <1>1, <1>2 DEF TypeOK
<1>5. LookUpOK(c, h)
  BY <1>1, <1>2, <1>3 DEF FramesInv
<1>6. c.thread = t
  <2>1. home[h] = MainOf[t] /\ home[h] = MainOf[c.thread] /\ c.thread \in Threads
    BY <1>1, <1>3, <1>5 DEF CurrentInv, LookUpOK, Calls
  <2> QED
    BY <2>1, MainOfAssumption
<1>7. frames' \in [Greenlets -> Seq(Calls)]
  BY <1>1, <1>3 DEF TypeOK
<1>8. ASSUME NEW u \in Threads, life[current[u]] = "dead", frames'[current[u]] = <<>>
      PROVE  c.thread = u /\ c.back = "die"
  <2>1. CASE u = t
    BY <1>1, <1>2, <1>3, <1>4, <1>6, <1>8, <2>1 DEF FramesInv
  <2>2. CASE u # t
    <3>1. current[u] # h /\ current[u] \in Greenlets
      BY <1>1, <2>2, CurrentOnce, CurrentStarted
    <3> QED
      BY <1>1, <1>4, <1>8, <3>1 DEF CurrentInv
  <2> QED
    BY <2>1, <2>2
<1>9. FramesInv'
  <2> SUFFICES ASSUME NEW g \in Greenlets
               PROVE  /\ ~Started(g)' => frames'[g] = <<>>
                      /\ \A i \in DOMAIN frames'[g] : LookUpOK(frames[g][i], g)'
                      /\ life'[g] = "dead" /\ frames'[g] # <<>> => frames'[g][1].back = "die"
    BY DEF FramesInv
  <2>1. CASE g # h
    BY <1>1, <1>4, <2>1 DEF FramesInv, LookUpOK, Started
  <2>2. CASE g = h
    <3>1. frames'[h] # <<>> => 1 \in DOMAIN frames'[h]
      BY <1>3, <1>4, EmptySeq
    <3> QED
      BY <1>1, <1>2, <1>3, <1>4, <2>2, <3>1 DEF FramesInv, LookUpOK, Started
  <2> QED
    BY <2>1, <2>2
<1> QED
  BY <1>3, <1>5, <1>6, <1>7, <1>8, <1>9

\* The lookup of `run` calls Python code, and that code returns.
LEMMA EnterCallbackIInv == ASSUME IInv, EnterCallback PROVE IInv'
<1> USE DEF EnterCallback, tracing, greenlets, ghosts
<1> DEFINE h == current[sw.thread]
<1>1. TypeOK /\ FramesInv /\ CurrentInv /\ CallInv /\ ArgsInv /\ RunsInv /\ TraceInv
  BY DEF IInv, ControlInv
<1>2. sw \in Calls /\ LookUpOK(sw, h)
  BY <1>1 DEF TypeOK, CallInv
<1>3. /\ frames' \in [Greenlets -> Seq(Calls)]
      /\ FramesInv'
      /\ \A t \in Threads : ~(life[current[t]] = "dead" /\ frames'[current[t]] = <<>>)
  BY <1>1, <1>2, WaitsHere
<1>4. TypeOK'
  <2>1. pc' = "python" /\ sw' = Idle /\ err' = "none"
    BY <1>1 DEF CallInv
  <2> QED
    BY <1>1, <1>3, <2>1 DEF TypeOK, Started
<1>5. CurrentInv'
  BY <1>1, <1>3 DEF CurrentInv
<1>6. CallInv' /\ ArgsInv' /\ RunsInv'
  BY <1>1 DEF CallInv, ArgsInv, RunsInv, Started
<1>7. TraceInv'
  BY <1>1, SameTraces
<1> QED
  BY <1>3, <1>4, <1>5, <1>6, <1>7 DEF IInv, ControlInv

LEMMA LeaveCallbackIInv ==
    ASSUME IInv, NEW t \in Threads, LeaveCallback(t)
    PROVE  IInv'
<1> USE DEF LeaveCallback, tracing, greenlets
<1> DEFINE h == current[t]
           c == Last(frames[h])
<1>1. TypeOK /\ FramesInv /\ CurrentInv /\ CallInv /\ ArgsInv /\ RunsInv /\ TraceInv
  BY DEF IInv, ControlInv
<1>2. /\ frames' \in [Greenlets -> Seq(Calls)]
      /\ FramesInv'
      /\ c \in Calls /\ c.thread = t /\ LookUpOK(c, h)
      /\ \A u \in Threads : life[current[u]] = "dead" /\ frames'[current[u]] = <<>> =>
             c.thread = u /\ c.back = "die"
  <2>1. /\ pc = "python" /\ frames[current[t]] # <<>> /\ UNCHANGED <<life, home>>
        /\ frames' = [frames EXCEPT ![current[t]] = Front(frames[current[t]])]
    OBVIOUS
  <2> HIDE DEF LeaveCallback
  <2> QED
    BY <2>1, ReturnsHere
<1>3. \A u \in Threads : args[current[u]] = None
  BY <1>1 DEF ArgsInv
<1> HIDE DEF h, c
<1>4. c.back = "die" => life[h] = "dead"
  BY <1>2 DEF LookUpOK
<1>5. CASE sw' = c /\ pc' = "start" /\ UNCHANGED <<args, err, told>>
  <2>1. TypeOK'
    BY <1>1, <1>2, <1>5 DEF TypeOK, Started
  <2>2. CurrentInv'
    BY <1>1, <1>2, <1>5 DEF CurrentInv
  <2>3. CallInv'
    <3>1. err' = "none"
      BY <1>1, <1>5 DEF TypeOK
    <3> QED
      BY <1>2, <1>4, <1>5, <3>1 DEF CallInv, LookUpOK, Started, h
  <2>4. ArgsInv' /\ RunsInv'
    BY <1>1, <1>3, <1>5 DEF ArgsInv, RunsInv, Started
  <2>5. TraceInv'
    BY <1>1, SameTraces
  <2> QED
    BY <1>2, <2>1, <2>2, <2>3, <2>4, <2>5 DEF IInv, ControlInv
<1>6. CASE Fail(c)
  <2>1. UNCHANGED <<greenlets, current, sent, thrown, got, runs, tracing>>
    OBVIOUS
  <2>2. c.back = "die" => life[current[c.thread]] = "dead"
    BY <1>2, <1>4 DEF h
  <2> QED
    BY <1>2, <1>3, <1>6, <2>1, <2>2, FailIInv
<1> QED
  BY <1>5, <1>6 DEF c, h
-----------------------------------------------------------------------------
\* g_switch() returns where it was called, without a switch.
LEMMA ComeBackIInv ==
    ASSUME IInv, NEW c \in Calls, NEW v \in Things, NEW e \in {"none", "error", "exit"},
           ComeBack(c, v, e),
           UNCHANGED <<greenlets, current, sent, thrown, runs, traced>>,
           tracer' \subseteq Tracing, seen' \in [Threads -> Greenlets], told' \subseteq Values,
           args' \in [Greenlets -> Things], \A t \in Threads : args'[current[t]] = None,
           frames' \in [Greenlets -> Seq(Calls)], FramesInv',
           c.back = "die" => life[current[c.thread]] = "dead",
           \A t \in Threads : life[current[t]] = "dead" /\ frames'[current[t]] = <<>> =>
               c.thread = t /\ c.back = "die"
    PROVE  IInv'
<1> USE DEF greenlets
<1>1. TypeOK /\ CurrentInv /\ RunsInv /\ TraceInv
  BY DEF IInv, ControlInv
<1>2. c.this \in Greenlets /\ c.thread \in Threads /\ c.back \in {"switch", "die"}
  BY DEF Calls
<1>3. PICK call \in Calls : call = Call(c.thread, c.this, "die", v)
  BY <1>2, CallType
<1>4. call.thread = c.thread /\ call.back = "die"
  BY <1>3 DEF Call
<1>5. \/ c.back = "switch" /\ pc' = "python" /\ err' = "none" /\ sw' = Idle
      \/ c.back = "die" /\ pc' = "die" /\ err' = e /\ sw' = call
  BY <1>2, <1>3 DEF ComeBack
<1>6. got' \in [Values -> Nat]
  BY <1>1, ReceivedType DEF ComeBack, Arrive, TypeOK
<1>7. TypeOK'
  BY <1>1, <1>5, <1>6 DEF TypeOK, Started
<1>8. CurrentInv'
  BY <1>1, <1>4, <1>5 DEF CurrentInv
<1>9. CallInv'
  BY <1>4, <1>5 DEF CallInv
<1>10. ArgsInv' /\ RunsInv'
  BY <1>1 DEF ArgsInv, RunsInv, Started
<1>11. TraceInv'
  BY <1>1, SameTraces
<1> QED
  BY <1>7, <1>8, <1>9, <1>10, <1>11 DEF IInv, ControlInv

\* A greenlet that is current in another thread is not one that was switched to, and
\* nothing of what was sent is left with either of them.
LEMMA NowhereMoved ==
    ASSUME IInv, SwitchNowhere, NEW v, v = Move(sw.this, sw.target)[sw.target]
    PROVE  /\ sw \in Calls /\ v \in Things /\ sw.target \in Greenlets
           /\ home[sw.target] # MainOf[sw.thread]
           /\ sw.this # sw.target /\ Started(sw.this) /\ home[sw.this] = MainOf[sw.thread]
           /\ args' \in [Greenlets -> Things]
           /\ \A t \in Threads : args'[current[t]] = None
<1>1. TypeOK /\ CurrentInv /\ CallInv /\ ArgsInv /\ pc = "walk"
  BY DEF IInv, ControlInv, SwitchNowhere
<1>2. sw \in Calls /\ sw.target \in Greenlets /\ sw.this \in Greenlets /\ sw.thread \in Threads
  BY <1>1 DEF TypeOK, Calls
<1>3. PICK u \in Threads \ {sw.thread} : current[u] = sw.target
  BY DEF SwitchNowhere
<1>4. home[sw.target] # MainOf[sw.thread] /\ Started(sw.target)
  BY <1>1, <1>2, <1>3, MainOfAssumption, CurrentStarted DEF CurrentInv
<1>5. sw.this # sw.target /\ Started(sw.this) /\ home[sw.this] = MainOf[sw.thread]
  BY <1>1, <1>4 DEF CallInv
<1>6. PICK moved \in [Greenlets -> Things] : moved = Move(sw.this, sw.target)
  BY <1>1, <1>2, MoveType DEF TypeOK
<1>7. /\ \A g \in Greenlets : g # sw.this /\ g # sw.target => moved[g] = args[g]
      /\ moved[sw.this] = None
  BY <1>1, <1>2, <1>5, <1>6 DEF Move, TypeOK
<1>8. args' = [moved EXCEPT ![sw.target] = None]
  BY <1>6 DEF SwitchNowhere
<1>9. ASSUME NEW t \in Threads PROVE args'[current[t]] = None
  <2>1. current[t] \in Greenlets
    BY <1>1 DEF TypeOK
  <2>2. current[t] # sw.this => args[current[t]] = None
    BY <1>1 DEF ArgsInv
  <2> QED
    BY <1>2, <1>6, <1>7, <1>8, <2>1, <2>2
<1>10. args' \in [Greenlets -> Things]
  BY <1>6, <1>8, ThingsType
<1> QED
  BY <1>2, <1>4, <1>5, <1>6, <1>9, <1>10

LEMMA SwitchNowhereIInv == ASSUME IInv, SwitchNowhere PROVE IInv'
<1>1. TypeOK /\ FramesInv /\ CurrentInv /\ CallInv /\ ArgsInv /\ RunsInv /\ TraceInv
  BY DEF IInv, ControlInv
<1>2. PICK v : v = Move(sw.this, sw.target)[sw.target]
  OBVIOUS
<1>3. /\ sw \in Calls /\ v \in Things /\ sw.target \in Greenlets
      /\ home[sw.target] # MainOf[sw.thread]
      /\ sw.this # sw.target /\ Started(sw.this) /\ home[sw.this] = MainOf[sw.thread]
      /\ args' \in [Greenlets -> Things]
      /\ \A t \in Threads : args'[current[t]] = None
  BY <1>2, NowhereMoved
<1>4. PICK e \in {"none", "error", "exit"} : e = err
  BY <1>1 DEF TypeOK
<1>5. PICK h \in Greenlets : h = current[sw.thread]
  BY <1>1, <1>3 DEF TypeOK, Calls
<1>6. PICK waiting : waiting = [sw EXCEPT !.savedArgs = v, !.savedErr = e, !.waits = "trace"]
  OBVIOUS
<1>7. PICK u \in Threads \ {sw.thread} :
          /\ pc = "walk" /\ life[sw.target] = "active" /\ current[u] = sw.target
          /\ IF u \in tracer
             THEN /\ frames' = [frames EXCEPT ![h] = Append(@, waiting)]
                  /\ seen' = [seen EXCEPT ![u] = sw.target]
                  /\ pc' = "python" /\ err' = "none" /\ sw' = Idle
                  /\ UNCHANGED got
             ELSE ComeBack(sw, v, e) /\ UNCHANGED <<frames, seen>>
          /\ UNCHANGED <<greenlets, current, sent, thrown, told, runs, tracer, traced>>
  BY <1>2, <1>4, <1>5, <1>6 DEF SwitchNowhere
<1>8. sw.thread \in Threads /\ home[h] = MainOf[sw.thread] /\ (sw.back = "die" => life[h] = "dead")
  BY <1>1, <1>3, <1>5, <1>7 DEF Calls, CurrentInv, CallInv
<1>9. CASE u \in tracer
  <2>1. /\ waiting \in Calls /\ waiting.thread = sw.thread /\ waiting.back = sw.back
        /\ waiting.this = sw.this /\ waiting.target = sw.target
    BY <1>3, <1>4, <1>6 DEF Calls
  <2>2. LookUpOK(waiting, h)
    BY <1>3, <1>8, <2>1 DEF LookUpOK
  <2>3. /\ frames' \in [Greenlets -> Seq(Calls)]
        /\ FramesInv'
        /\ \A t \in Threads : ~(life[current[t]] = "dead" /\ frames'[current[t]] = <<>>)
    BY <1>1, <1>5, <1>7, <1>9, <2>1, <2>2, WaitsHere DEF greenlets
  <2>4. seen' \in [Threads -> Greenlets]
    BY <1>1, <1>3, <1>7, <1>9 DEF TypeOK
  <2>5. TypeOK'
    BY <1>1, <1>3, <1>7, <1>9, <2>3, <2>4 DEF TypeOK, Started, greenlets
  <2>6. CurrentInv' /\ CallInv' /\ ArgsInv' /\ RunsInv'
    BY <1>1, <1>3, <1>7, <1>9, <2>3 DEF CurrentInv, CallInv, ArgsInv, RunsInv, Started, greenlets
  <2>7. TraceInv'
    BY <1>1, <1>7, SameTraces DEF greenlets
  <2> QED
    BY <2>3, <2>5, <2>6, <2>7 DEF IInv, ControlInv
<1>10. CASE u \notin tracer
  <2>1. ComeBack(sw, v, e) /\ UNCHANGED <<frames, seen>>
    BY <1>7, <1>10
  <2>2. /\ frames' \in [Greenlets -> Seq(Calls)] /\ FramesInv'
        /\ tracer' \subseteq Tracing /\ seen' \in [Threads -> Greenlets] /\ told' \subseteq Values
    BY <1>1, <1>7, <2>1 DEF TypeOK, FramesInv, LookUpOK, Started, greenlets
  <2>3. \A t \in Threads : life[current[t]] = "dead" /\ frames'[current[t]] = <<>> =>
            sw.thread = t /\ sw.back = "die"
    BY <1>1, <2>1 DEF CurrentInv
  <2> QED
    BY <1>3, <1>5, <1>7, <1>8, <2>1, <2>2, <2>3, ComeBackIInv
<1> QED
  BY <1>9, <1>10

LEMMA SwitchForeignIInv == ASSUME IInv, SwitchForeign PROVE IInv'
<1> USE DEF SwitchForeign, tracing, greenlets, ghosts
<1>1. TypeOK /\ FramesInv /\ CurrentInv /\ CallInv /\ ArgsInv /\ RunsInv /\ TraceInv
  BY DEF IInv, ControlInv
<1>2. TypeOK'
  BY <1>1 DEF TypeOK, Started
<1>3. FramesInv' /\ RunsInv'
  BY <1>1 DEF FramesInv, LookUpOK, RunsInv, Started
<1>4. CurrentInv' /\ ArgsInv' /\ CallInv'
  BY <1>1 DEF CurrentInv, ArgsInv, CallInv
<1>5. TraceInv'
  BY <1>1, SameTraces
<1> QED
  BY <1>2, <1>3, <1>4, <1>5 DEF IInv, ControlInv

\* The trace function of the other thread returns, or raises.
LEMMA ForeignIInv ==
    ASSUME IInv, NEW t \in Threads, ForeignReturn(t) \/ \E e \in {"error", "exit"} : ForeignRaise(t, e)
    PROVE  IInv'
<1>1. TypeOK /\ ArgsInv
  BY DEF IInv, ControlInv
<1>2. PICK h \in Greenlets : h = current[t]
  BY <1>1 DEF TypeOK
<1>3. PICK c : c = Last(frames[h])
  OBVIOUS
<1>4. /\ pc = "python" /\ frames[h] # <<>> /\ frames' = [frames EXCEPT ![h] = Front(@)]
      /\ UNCHANGED <<greenlets, current, sent, thrown, runs, traced, seen>>
  BY <1>2, <1>3 DEF ForeignReturn, ForeignRaise, tracing
<1>5. /\ frames' \in [Greenlets -> Seq(Calls)]
      /\ FramesInv'
      /\ c \in Calls /\ c.thread = t /\ LookUpOK(c, h)
      /\ \A u \in Threads : life[current[u]] = "dead" /\ frames'[current[u]] = <<>> =>
             c.thread = u /\ c.back = "die"
  <2>1. /\ pc = "python" /\ frames[current[t]] # <<>> /\ UNCHANGED <<life, home>>
        /\ frames' = [frames EXCEPT ![current[t]] = Front(frames[current[t]])]
    BY <1>2, <1>4 DEF greenlets
  <2> QED
    BY <1>2, <1>3, <2>1, ReturnsHere
<1>6. c.back = "die" => life[current[c.thread]] = "dead"
  BY <1>2, <1>5 DEF LookUpOK
<1>7. PICK v \in Things, e \in {"none", "error", "exit"} : ComeBack(c, v, e)
  <2>1. c.savedArgs \in Things /\ c.savedErr \in {"none", "error", "exit"} /\ None \in Things
    BY <1>5, ThingsType DEF Calls
  <2> QED
    BY <1>2, <1>3, <2>1 DEF ForeignReturn, ForeignRaise
<1>8. args' = args \/ args' = [args EXCEPT ![c.target] = None]
  BY <1>2, <1>3 DEF ForeignReturn, ForeignRaise
<1>9. args' \in [Greenlets -> Things] /\ \A u \in Threads : args'[current[u]] = None
  <2>1. \A u \in Threads : args[current[u]] = None /\ current[u] \in Greenlets
    BY <1>1, <1>4 DEF ArgsInv, TypeOK
  <2>2. args \in [Greenlets -> Things] /\ None \in Things
    BY <1>1, ThingsType DEF TypeOK
  <2> QED
    BY <1>8, <2>1, <2>2
<1>10. tracer' \subseteq Tracing /\ told' \subseteq Values /\ seen' \in [Threads -> Greenlets]
  BY <1>1, <1>4 DEF ForeignReturn, ForeignRaise, tracing, TypeOK
<1> QED
  BY <1>4, <1>5, <1>6, <1>7, <1>9, <1>10, ComeBackIInv
-----------------------------------------------------------------------------
\* What g_initialstub() does with the result of the lookup.
LEMMA RetryIInv == ASSUME IInv, Retry PROVE IInv'
<1> USE DEF Retry, tracing, greenlets, ghosts
<1>1. TypeOK /\ FramesInv /\ CurrentInv /\ CallInv /\ ArgsInv /\ RunsInv /\ TraceInv
  BY DEF IInv, ControlInv
<1>2. /\ sw \in Calls /\ sw.target \in Greenlets /\ sw.this \in Greenlets
      /\ sw.thread \in Threads /\ sw.savedArgs \in Things
      /\ sw.savedErr \in {"none", "error", "exit"}
  BY <1>1 DEF TypeOK, Calls
<1>3. home[sw.target] = MainOf[sw.thread]
  BY AllowedStarted
<1>4. LookUpOK(sw, current[sw.thread])
  BY <1>1 DEF CallInv
<1>5. \A t \in Threads : current[t] # sw.target
  <2> SUFFICES ASSUME NEW t \in Threads, current[t] = sw.target PROVE FALSE
    OBVIOUS
  <2>1. home[current[t]] = MainOf[t]
    BY <1>1 DEF CurrentInv
  <2>2. t = sw.thread
    BY <1>2, <1>3, <2>1, MainOfAssumption
  <2> QED
    BY <1>4, <2>2 DEF LookUpOK
<1>6. TypeOK'
  <2>1. args' \in [Greenlets -> Things]
    BY <1>1, <1>2 DEF TypeOK
  <2> QED
    BY <1>1, <1>2, <2>1 DEF TypeOK, Started
<1>7. FramesInv' /\ RunsInv'
  BY <1>1 DEF FramesInv, LookUpOK, RunsInv, Started
<1>8. CurrentInv'
  BY <1>1 DEF CurrentInv
<1>9. CallInv'
  BY <1>1, <1>3, <1>4 DEF CallInv, LookUpOK, Started
<1>10. ArgsInv'
  BY <1>1, <1>5, CurrentStarted DEF ArgsInv, TypeOK
<1>11. TraceInv'
  BY <1>1, SameTraces
<1> QED
  BY <1>6, <1>7, <1>8, <1>9, <1>10, <1>11 DEF IInv, ControlInv

LEMMA StartRunIInv == ASSUME IInv, StartRun PROVE IInv'
<1> DEFINE h == current[sw.thread]
           g == sw.target
<1>1. TypeOK /\ FramesInv /\ CurrentInv /\ CallInv /\ ArgsInv /\ RunsInv /\ TraceInv
  BY DEF IInv, ControlInv
<1>2. sw \in Calls /\ g \in Greenlets /\ sw.thread \in Threads
  BY <1>1 DEF TypeOK, Calls, StartRun
<1>3. /\ pc = "start" /\ ~Started(g) /\ err = "none" /\ sw.savedErr \in {"none", "error", "exit"}
  BY <1>1, <1>2 DEF StartRun, CallInv, Calls
<1>4. /\ life' = [life EXCEPT ![g] = "active"]
      /\ home' = [home EXCEPT ![g] = MainOf[sw.thread]]
      /\ frames' = Leave(h)
      /\ current' = [current EXCEPT ![sw.thread] = g]
      /\ args' = [args EXCEPT ![g] = None]
      /\ UNCHANGED <<parent, sent, thrown, told, tracer>>
  BY DEF StartRun
<1>5. /\ \/ /\ runs' = [runs EXCEPT ![g] = @ + 1] \/ runs' = runs
            /\ pc' = "python" /\ sw' = Idle /\ err' = "none"
         \/ /\ err' = sw.savedErr /\ pc' = "end" /\ runs' = runs
            /\ sw' = Call(sw.thread, g, "die", None)
      /\ \/ got' = Received(args[g]) /\ traced' = traced /\ seen' = seen
         \/ /\ got' = got /\ runs' = runs /\ pc' = "python"
            /\ Trace(sw.thread, g, Capture(args[g], sw.savedErr, TRUE, g))
  <2>1. FirstSwitch(sw.thread, g, args[g], sw.savedErr)
    BY DEF StartRun
  <2>2. CASE sw.thread \in tracer
    BY <1>3, <2>1, <2>2 DEF FirstSwitch
  <2>3. CASE sw.thread \notin tracer
    BY <1>3, <2>1, <2>3 DEF FirstSwitch, Bootstrap
  <2> QED
    BY <2>2, <2>3
<1>6. /\ g \notin Mains /\ frames[g] = <<>> /\ traced[g] = <<>> /\ runs[g] = 0
      /\ h \in Greenlets
  <2>1. runs[g] \in Nat /\ runs[g] <= 0
    BY <1>1, <1>2, <1>3 DEF TypeOK, RunsInv
  <2>2. g \notin Mains
    BY <1>1, <1>3 DEF TypeOK, Started
  <2> QED
    BY <1>1, <1>2, <1>3, <2>1, <2>2, CurrentStarted DEF FramesInv, TraceInv, Started
<1>7. /\ frames' \in [Greenlets -> Seq(Calls)]
      /\ \A x \in Greenlets : frames'[x] = frames[x] \/ (x = h /\ frames'[x] = <<>>)
  BY <1>1, <1>4, <1>6, LeaveProperties
<1>8. \A t \in Threads : current[t] # g
  BY <1>1, <1>3, CurrentStarted
<1>9. /\ life'[g] = "active" /\ home'[g] = MainOf[sw.thread]
      /\ \A x \in Greenlets : x # g => life'[x] = life[x] /\ home'[x] = home[x]
      /\ current'[sw.thread] = g
      /\ \A t \in Threads : t # sw.thread => current'[t] = current[t]
      /\ args'[g] = None
      /\ \A x \in Greenlets : x # g => args'[x] = args[x]
      /\ \A x \in Greenlets : x # g => runs'[x] = runs[x]
  BY <1>1, <1>2, <1>4, <1>5 DEF TypeOK
<1>10. sw' = Idle \/ /\ sw' \in Calls /\ sw'.thread = sw.thread /\ sw'.this = g /\ sw'.back = "die"
  BY <1>2, <1>5, ThingsType, CallType
<1>11. TypeOK'
  <2>1. /\ life' \in [Greenlets -> {"new", "active", "dead"}]
        /\ home' \in [Greenlets -> Mains \cup {NoOne}]
        /\ current' \in [Threads -> Greenlets]
        /\ args' \in [Greenlets -> Things]
    BY <1>1, <1>2, <1>4, MainsAreGreenlets, ThingsType DEF TypeOK
  <2>2. got' \in [Values -> Nat]
    <3>1. got \in [Values -> Nat] /\ Received(args[g]) \in [Values -> Nat]
      BY <1>1, ReceivedType DEF TypeOK
    <3> QED
      BY <1>5, <3>1
  <2>3. runs' \in [Greenlets -> Nat]
    <3>1. runs \in [Greenlets -> Nat]
      BY <1>1 DEF TypeOK
    <3>2. runs' = runs \/ runs' = [runs EXCEPT ![g] = 1]
      BY <1>5, <1>6
    <3> QED
      BY <3>1, <3>2
  <2>4. \A x \in Greenlets : (life'[x] # "new") <=> home'[x] # NoOne
    <3> SUFFICES ASSUME NEW x \in Greenlets PROVE (life'[x] # "new") <=> home'[x] # NoOne
      OBVIOUS
    <3>1. CASE x = g
      BY <1>2, <1>9, <3>1, MainsAreGreenlets
    <3>2. CASE x # g
      BY <1>1, <1>9, <3>2 DEF TypeOK, Started
    <3> QED
      BY <3>1, <3>2
  <2>5. \A x \in Mains : life'[x] = "active" /\ home'[x] = x
    BY <1>1, <1>6, <1>9, MainsAreGreenlets DEF TypeOK
  <2>6. IF pc' = "python" THEN sw' = Idle /\ err' = "none" ELSE sw' \in Calls
    BY <1>2, <1>5, ThingsType, CallType
  <2>7. err' \in {"none", "error", "exit"} /\ pc' \in {"python", "end"}
    BY <1>3, <1>5
  <2>8. traced' \in [Greenlets -> Seq(Captures)] /\ seen' \in [Threads -> Greenlets]
    <3>1. Capture(args[g], sw.savedErr, TRUE, g) \in Captures
      BY <1>1, <1>2, <1>3, CaptureType DEF TypeOK
    <3>2. /\ traced \in [Greenlets -> Seq(Captures)] /\ seen \in [Threads -> Greenlets]
          /\ traced[g] \in Seq(Captures)
      BY <1>1, <1>2 DEF TypeOK
    <3> DEFINE c == Capture(args[g], sw.savedErr, TRUE, g)
    <3>3. \/ traced' = traced /\ seen' = seen
          \/ /\ traced' = [traced EXCEPT ![g] = Append(traced[g], c)]
             /\ seen' = [seen EXCEPT ![sw.thread] = g]
      BY <1>5 DEF Trace
    <3>4. c \in Captures
      BY <3>1
    <3> HIDE DEF c
    <3>5. Append(traced[g], c) \in Seq(Captures)
      BY <3>2, <3>4
    <3> QED
      BY <1>2, <3>2, <3>3, <3>5
  <2> QED
    BY <1>1, <1>4, <1>7, <2>1, <2>2, <2>3, <2>4, <2>5, <2>6, <2>7, <2>8 DEF TypeOK, Started
<1>12. FramesInv'
  <2> SUFFICES ASSUME NEW x \in Greenlets
               PROVE  /\ ~Started(x)' => frames'[x] = <<>>
                      /\ \A i \in DOMAIN frames'[x] : LookUpOK(frames[x][i], x)'
                      /\ life'[x] = "dead" /\ frames'[x] # <<>> => frames'[x][1].back = "die"
    BY DEF FramesInv
  <2>1. CASE frames'[x] = <<>>
    <3>1. DOMAIN <<>> = {}
      OBVIOUS
    <3> QED
      BY <2>1, <3>1
  <2>2. CASE frames'[x] # <<>>
    <3>1. frames'[x] = frames[x] /\ x # g
      BY <1>6, <1>7, <2>2
    <3>2. Started(x) /\ life'[x] = life[x] /\ home'[x] = home[x]
      BY <1>1, <1>9, <2>2, <3>1 DEF FramesInv
    <3>3. \A i \in DOMAIN frames[x] : LookUpOK(frames[x][i], x) /\ frames[x][i] \in Calls
      BY <1>1, <3>1 DEF FramesInv, TypeOK
    <3>4. ASSUME NEW i \in DOMAIN frames[x] PROVE LookUpOK(frames[x][i], x)'
      <4>1. /\ LookUpOK(frames[x][i], x)
            /\ frames[x][i].this \in Greenlets
        BY <3>3 DEF Calls
      <4>2. Started(frames[x][i].this) => frames[x][i].this # g
        BY <1>3
      <4> QED
        BY <1>9, <3>1, <3>2, <4>1, <4>2 DEF LookUpOK, Started
    <3> QED
      BY <1>1, <3>1, <3>2, <3>4 DEF FramesInv, Started
  <2> QED
    BY <2>1, <2>2
<1>13. CurrentInv'
  <2> SUFFICES ASSUME NEW t \in Threads
               PROVE  /\ home'[current'[t]] = MainOf[t]
                      /\ ~(life'[current'[t]] = "dead" /\ frames'[current'[t]] = <<>>)
    BY DEF CurrentInv
  <2>1. CASE t = sw.thread
    BY <1>9, <2>1
  <2>2. CASE t # sw.thread
    <3>1. /\ current'[t] = current[t] /\ current[t] \in Greenlets /\ current[t] # g
          /\ life'[current[t]] = life[current[t]] /\ home'[current[t]] = home[current[t]]
      BY <1>1, <1>8, <1>9, <2>2, CurrentStarted
    <3>2. ~(life[current[t]] = "dead" /\ frames'[current[t]] = <<>>)
      BY <1>2, <1>3, <1>4, <2>2, OthersWait
    <3> QED
      BY <1>1, <3>1, <3>2 DEF CurrentInv
  <2> QED
    BY <2>1, <2>2
<1>14. frames'[g] = <<>>
  BY <1>2, <1>6, <1>7
<1>15. CallInv'
  <2>1. CASE pc' = "python"
    BY <2>1 DEF CallInv
  <2>2. CASE pc' = "end"
    <3>1. sw'.thread = sw.thread /\ sw'.this = g
      BY <1>2, <1>5, <2>2, ThingsType, CallType
    <3>2. sw'.this = current'[sw'.thread] /\ sw'.this \notin Mains
      BY <1>6, <1>9, <3>1
    <3>3. life'[sw'.this] = "active" /\ frames'[sw'.this] = <<>> /\ traced'[sw'.this] = <<>>
      BY <1>6, <1>9, <1>14, <2>2, <3>1, <1>5
    <3> QED
      BY <2>2, <3>2, <3>3 DEF CallInv, Mains
  <2> QED
    BY <1>5, <2>1, <2>2
<1>16. ArgsInv'
  <2> SUFFICES ASSUME NEW t \in Threads PROVE args'[current'[t]] = None
    BY DEF ArgsInv
  <2>1. CASE t = sw.thread
    BY <1>9, <2>1
  <2>2. CASE t # sw.thread
    <3>1. args[current[t]] = None
      BY <1>1, <1>3 DEF ArgsInv
    <3> QED
      BY <1>1, <1>8, <1>9, <2>2, <3>1, CurrentStarted
  <2> QED
    BY <2>1, <2>2
<1>17. RunsInv'
  <2>1. runs'[g] <= 1
    BY <1>1, <1>2, <1>5, <1>6 DEF TypeOK
  <2> SUFFICES ASSUME NEW x \in Greenlets
               PROVE  runs'[x] <= IF life'[x] # "new" THEN 1 ELSE 0
    BY DEF RunsInv, Started
  <2>2. CASE x = g
    BY <1>9, <2>1, <2>2
  <2>3. CASE x # g
    BY <1>1, <1>9, <2>3 DEF RunsInv, Started
  <2> QED
    BY <2>2, <2>3
<1>18. TraceInv'
  <2>1. CASE traced' = traced
    <3> SUFFICES ASSUME NEW x \in Greenlets, traced[x] # <<>>
                 PROVE  /\ life'[x] = "active"
                        /\ \A i \in DOMAIN traced[x] : traced[x][i].first =>
                               /\ i = 1 /\ x \notin Mains
                               /\ runs'[x] = 0 /\ traced[x][i].depth = 0
      <4>1. \A i \in DOMAIN <<>> : FALSE
        OBVIOUS
      <4> QED
        BY <2>1, <4>1 DEF TraceInv
    <3>1. x # g /\ runs'[x] = runs[x] /\ life'[x] = life[x]
      BY <1>6, <1>9
    <3> QED
      BY <1>1, <3>1 DEF TraceInv
  <2>2. CASE Trace(sw.thread, g, Capture(args[g], sw.savedErr, TRUE, g)) /\ runs' = runs
    <3> DEFINE c == Capture(args[g], sw.savedErr, TRUE, g)
    <3>1. c \in Captures /\ c.depth = Len(frames[g])
      BY <1>1, <1>2, <1>3, CaptureType DEF TypeOK, Capture
    <3>2. c.depth = 0
      BY <1>6, <3>1, EmptySeq
    <3>3. traced' = [traced EXCEPT ![g] = Append(@, c)]
      BY <2>2 DEF Trace
    <3>4. traced \in [Greenlets -> Seq(Captures)]
      BY <1>1 DEF TypeOK
    <3> HIDE DEF c
    <3> QED
      BY <1>1, <1>2, <1>6, <1>9, <2>2, <3>1, <3>2, <3>3, <3>4, AppendedTrace
  <2> QED
    BY <1>5, <2>1, <2>2
<1> QED
  BY <1>11, <1>12, <1>13, <1>15, <1>16, <1>17, <1>18 DEF IInv, ControlInv
-----------------------------------------------------------------------------
\* A greenlet ends, and the exception goes from parent to parent.
LEMMA DieIInv == ASSUME IInv, Die PROVE IInv'
<1> DEFINE r == Result(sw.this, sw.value)
<1>1. TypeOK /\ FramesInv /\ CurrentInv /\ CallInv /\ ArgsInv /\ RunsInv /\ TraceInv
  BY DEF IInv, ControlInv
<1> HIDE DEF r
<1>2. PICK g \in Greenlets : g = sw.this
  BY <1>1 DEF TypeOK, Calls, Die
<1>3. PICK t \in Threads : t = sw.thread
  BY <1>1 DEF TypeOK, Calls, Die
<1>4. /\ g = current[t] /\ g \notin Mains /\ life[g] = "active"
      /\ frames[g] = <<>> /\ traced[g] = <<>>
  BY <1>1, <1>2, <1>3 DEF CallInv, Die
<1>5. PICK p \in Greenlets : p = parent[g]
  BY <1>1, <1>4 DEF TypeOK
<1>6. r \in Things
  BY <1>1, <1>2, ThingsType DEF TypeOK, Calls, Die, Result, r
<1>7. /\ pc = "end" /\ pc' = "check"
      /\ life' = [life EXCEPT ![g] = "dead"]
      /\ args' = [args EXCEPT ![g] = None, ![p] = r]
      /\ err' = IF err = "exit" THEN "none" ELSE err
      /\ sw' = Call(t, p, "die", r)
      /\ UNCHANGED <<home, parent, current, frames, ghosts, tracing>>
  BY <1>2, <1>3, <1>5 DEF Die, r
<1>8. /\ sw' \in Calls /\ sw'.thread = t /\ sw'.this = p /\ sw'.target = p
      /\ sw'.back = "die"
  BY <1>6, <1>7, CallType
<1>9. /\ life'[g] = "dead"
      /\ \A x \in Greenlets : x # g => life'[x] = life[x]
      /\ \A x \in Greenlets : x # p => args'[x] \in {args[x], None}
  BY <1>1, <1>7 DEF TypeOK
<1>10. TypeOK'
  <2>1. life' \in [Greenlets -> {"new", "active", "dead"}] /\ args' \in [Greenlets -> Things]
    BY <1>1, <1>6, <1>7, ThingsType DEF TypeOK
  <2>2. err' \in {"none", "error", "exit"}
    BY <1>1, <1>7 DEF TypeOK
  <2>3. \A x \in Greenlets : (life'[x] # "new") <=> life[x] # "new"
    BY <1>4, <1>9
  <2>4. \A x \in Mains : life'[x] = "active" /\ home[x] = x
    BY <1>1, <1>4, <1>9, MainsAreGreenlets DEF TypeOK
  <2>5. UNCHANGED <<home, parent, current, frames, sent, thrown, got, told, runs, tracer, traced, seen>>
    BY <1>7 DEF ghosts, tracing
  <2>6. pc' = "check" /\ sw' \in Calls
    BY <1>7, <1>8
  <2>7. TypeOK
    BY <1>1
  <2> QED
    BY <2>1, <2>2, <2>3, <2>4, <2>5, <2>6, <2>7 DEF TypeOK, Started
<1>11. FramesInv'
  <2> SUFFICES ASSUME NEW x \in Greenlets
               PROVE  /\ ~Started(x)' => frames'[x] = <<>>
                      /\ \A i \in DOMAIN frames'[x] : LookUpOK(frames[x][i], x)'
                      /\ life'[x] = "dead" /\ frames'[x] # <<>> => frames'[x][1].back = "die"
    BY DEF FramesInv
  <2>1. CASE x = g
    <3>1. frames'[x] = <<>> /\ DOMAIN <<>> = {}
      BY <1>4, <1>7, <2>1
    <3> QED
      BY <3>1
  <2>2. CASE x # g
    <3>1. life'[x] = life[x] /\ frames' = frames /\ home' = home
      BY <1>7, <1>9, <2>2
    <3>2. ASSUME NEW i \in DOMAIN frames[x] PROVE LookUpOK(frames[x][i], x)'
      <4>1. LookUpOK(frames[x][i], x) /\ frames[x][i] \in Calls
        BY <1>1 DEF FramesInv, TypeOK
      <4>2. frames[x][i].this \in Greenlets
        BY <4>1 DEF Calls
      <4>3. Started(frames[x][i].this) => life'[frames[x][i].this] # "new"
        BY <1>9, <4>2 DEF Started
      <4> QED
        BY <3>1, <4>1, <4>3 DEF LookUpOK, Started
    <3> QED
      BY <1>1, <3>1, <3>2 DEF FramesInv, Started
  <2> QED
    BY <2>1, <2>2
<1>12. CurrentInv'
  <2> SUFFICES ASSUME NEW u \in Threads
               PROVE  /\ home[current[u]] = MainOf[u]
                      /\ life'[current[u]] = "dead" /\ frames[current[u]] = <<>> => u = t
    BY <1>7, <1>8 DEF CurrentInv
  <2>1. CASE current[u] = g
    BY <1>1, <1>4, <2>1, CurrentOnce DEF CurrentInv
  <2>2. CASE current[u] # g
    BY <1>1, <1>7, <1>9, <2>2, CurrentStarted DEF CurrentInv
  <2> QED
    BY <2>1, <2>2
<1>13. CallInv'
  <2>1. life'[current'[sw'.thread]] = "dead"
    BY <1>4, <1>7, <1>8, <1>9
  <2> QED
    BY <1>7, <1>8, <2>1 DEF CallInv
<1>14. ArgsInv'
  <2> SUFFICES ASSUME NEW u \in Threads, current[u] # p PROVE args'[current[u]] = None
    BY <1>7, <1>8 DEF ArgsInv
  <2>1. args[current[u]] = None
    BY <1>1, <1>7 DEF ArgsInv
  <2> QED
    BY <1>1, <1>9, <2>1, CurrentStarted
<1>15. RunsInv'
  <2>1. \A x \in Greenlets : (life'[x] # "new") <=> life[x] # "new"
    BY <1>4, <1>9
  <2> QED
    BY <1>1, <1>7, <2>1 DEF RunsInv, Started, ghosts
<1>16. TraceInv'
  <2> SUFFICES ASSUME NEW x \in Greenlets, traced[x] # <<>>
               PROVE  /\ life'[x] = "active"
                      /\ \A i \in DOMAIN traced[x] : traced[x][i].first =>
                             i = 1 /\ x \notin Mains /\ runs[x] = 0 /\ traced[x][i].depth = 0
    <3>1. traced' = traced /\ runs' = runs
      BY <1>7 DEF tracing, ghosts
    <3>2. \A i \in DOMAIN <<>> : FALSE
      OBVIOUS
    <3> QED
      BY <3>1, <3>2 DEF TraceInv
  <2> QED
    BY <1>1, <1>4, <1>9 DEF TraceInv
<1> QED
  BY <1>10, <1>11, <1>12, <1>13, <1>14, <1>15, <1>16 DEF IInv, ControlInv

LEMMA NextParentIInv == ASSUME IInv, NextParent PROVE IInv'
<1> USE DEF NextParent, tracing, greenlets, ghosts
<1>1. TypeOK /\ FramesInv /\ CurrentInv /\ CallInv /\ ArgsInv /\ RunsInv /\ TraceInv
  BY DEF IInv, ControlInv
<1>2. sw \in Calls /\ sw.this \in Greenlets /\ sw.thread \in Threads
  BY <1>1 DEF TypeOK, Calls
<1>3. sw.back = "die" /\ life[current[sw.thread]] = "dead"
  BY <1>1 DEF CallInv
<1>4. \A t \in Threads : args[current[t]] = None
  BY <1>1 DEF ArgsInv
<1> DEFINE p == parent[sw.this]
           r == IF err = "none" THEN sw.value ELSE None
<1>5. \/ pc' = "fatal" /\ sw' = sw /\ args' = args
      \/ /\ p \in Greenlets /\ pc' = "check"
         /\ sw' = Call(sw.thread, p, "die", r) /\ args' = [args EXCEPT ![p] = r]
  BY <1>1, <1>2 DEF TypeOK
<1>6. r \in Things
  BY <1>2, ThingsType DEF Calls
<1> HIDE DEF r
<1>7. /\ sw' \in Calls /\ sw'.thread = sw.thread /\ sw'.back = "die"
      /\ pc' = "check" => sw'.this = sw'.target /\ sw'.this = p
  BY <1>2, <1>3, <1>5, <1>6, CallType
<1>8. /\ args' \in [Greenlets -> Things]
      /\ \A t \in Threads : args'[current[t]] = None \/ (pc' = "check" /\ current[t] = sw'.this)
  <2>1. args \in [Greenlets -> Things] /\ current \in [Threads -> Greenlets]
    BY <1>1 DEF TypeOK
  <2> HIDE DEF NextParent, p
  <2>2. CASE args' = args
    BY <1>4, <2>1, <2>2
  <2>3. CASE p \in Greenlets /\ pc' = "check" /\ args' = [args EXCEPT ![p] = r]
    BY <1>4, <1>6, <1>7, <2>1, <2>3
  <2> QED
    BY <1>5, <2>2, <2>3
<1>9. TypeOK'
  BY <1>1, <1>5, <1>7, <1>8 DEF TypeOK, Started
<1>10. FramesInv' /\ RunsInv'
  BY <1>1 DEF FramesInv, LookUpOK, RunsInv, Started
<1>11. CurrentInv'
  BY <1>1, <1>5, <1>7 DEF CurrentInv
<1>12. CallInv'
  BY <1>3, <1>5, <1>7 DEF CallInv
<1>13. ArgsInv'
  BY <1>8 DEF ArgsInv
<1>14. TraceInv'
  BY <1>1, SameTraces
<1> QED
  BY <1>9, <1>10, <1>11, <1>12, <1>13, <1>14 DEF IInv, ControlInv

-----------------------------------------------------------------------------
\* The trace function is installed, called and left.
LEMMA SetTraceIInv ==
    ASSUME IInv, NEW t \in Threads, SetTrace(t)
    PROVE  IInv'
<1> USE DEF SetTrace, greenlets, ghosts
<1>1. TypeOK /\ FramesInv /\ CurrentInv /\ CallInv /\ ArgsInv /\ RunsInv /\ TraceInv
  BY DEF IInv, ControlInv
<1>2. tracer' \subseteq Tracing /\ seen' \in [Threads -> Greenlets]
  BY <1>1, CurrentStarted DEF TypeOK
<1>3. TypeOK'
  BY <1>1, <1>2 DEF TypeOK, Started
<1>4. FramesInv' /\ RunsInv'
  BY <1>1 DEF FramesInv, LookUpOK, RunsInv, Started
<1>5. CurrentInv' /\ CallInv' /\ ArgsInv'
  BY <1>1 DEF CurrentInv, CallInv, ArgsInv
<1>6. TraceInv'
  BY <1>1, SameTraces
<1> QED
  BY <1>3, <1>4, <1>5, <1>6 DEF IInv, ControlInv

\* A trace function that was called in g is left: g goes on after its switch(), or
\* inner_bootstrap() goes on, which calls run() or not.
LEMMA LeaveTraceIInv ==
    ASSUME IInv, NEW t \in Threads, NEW g, g = current[t],
           pc = "python", InTrace(g),
           traced' = [traced EXCEPT ![g] = Front(@)],
           tracer' \subseteq tracer, told' \subseteq Values, got' \in [Values -> Nat],
           UNCHANGED <<greenlets, args, current, frames, seen, sent, thrown>>,
           \/ UNCHANGED <<err, pc, sw, runs>>
           \/ /\ Last(traced[g]).first
              /\ \E v \in Things, e \in {"none", "error", "exit"} : Bootstrap(t, g, v, e)
    PROVE  IInv'
<1> USE DEF greenlets
<1>1. TypeOK /\ FramesInv /\ CurrentInv /\ CallInv /\ ArgsInv /\ RunsInv /\ TraceInv
  BY DEF IInv, ControlInv
<1>2. /\ g \in Greenlets /\ traced \in [Greenlets -> Seq(Captures)]
      /\ traced[g] # <<>> /\ Last(traced[g]).depth = Len(frames[g])
      /\ sw = Idle /\ err = "none"
  BY <1>1, CurrentStarted DEF TypeOK, InTrace
<1>3. life[g] = "active"
  BY <1>1, <1>2 DEF TraceInv
<1>4. /\ traced[g] \in Seq(Captures)
      /\ Front(traced[g]) \in Seq(Captures) /\ Last(traced[g]) \in Captures
      /\ Len(Front(traced[g])) = Len(traced[g]) - 1
      /\ \A i \in DOMAIN Front(traced[g]) :
            i \in DOMAIN traced[g] /\ Front(traced[g])[i] = traced[g][i]
      /\ Len(traced[g]) \in DOMAIN traced[g] /\ Last(traced[g]) = traced[g][Len(traced[g])]
  <2>1. traced[g] \in Seq(Captures) /\ traced[g] # <<>>
    BY <1>2
  <2> QED
    BY <2>1, FrontProperties
<1>5. /\ traced' \in [Greenlets -> Seq(Captures)]
      /\ traced'[g] = Front(traced[g])
      /\ \A x \in Greenlets : x # g => traced'[x] = traced[x]
  BY <1>2, <1>4
<1>6. FramesInv'
  BY <1>1 DEF FramesInv, LookUpOK, Started
<1>7. CASE UNCHANGED <<err, pc, sw, runs>>
  <2>1. TypeOK'
    BY <1>1, <1>5, <1>7 DEF TypeOK, Started
  <2>2. CurrentInv' /\ CallInv' /\ ArgsInv' /\ RunsInv'
    BY <1>1, <1>7 DEF CurrentInv, CallInv, ArgsInv, RunsInv, Started
  <2>3. TraceInv'
    <3> SUFFICES ASSUME NEW x \in Greenlets
                 PROVE  /\ traced'[x] # <<>> => life[x] = "active"
                        /\ \A i \in DOMAIN traced'[x] : traced'[x][i].first =>
                              i = 1 /\ x \notin Mains /\ runs[x] = 0 /\ traced'[x][i].depth = 0
      BY <1>7 DEF TraceInv
    <3>1. CASE x # g
      BY <1>1, <1>5, <3>1 DEF TraceInv
    <3>2. CASE x = g
      BY <1>1, <1>3, <1>4, <1>5, <3>2 DEF TraceInv
    <3> QED
      BY <3>1, <3>2
  <2> QED
    BY <1>6, <2>1, <2>2, <2>3 DEF IInv, ControlInv
<1>8. ASSUME Last(traced[g]).first,
             NEW v \in Things, NEW e \in {"none", "error", "exit"}, Bootstrap(t, g, v, e)
      PROVE  IInv'
  <2>1. /\ Len(traced[g]) = 1 /\ g \notin Mains /\ runs[g] = 0
        /\ Last(traced[g]).depth = 0
    <3>1. \A i \in DOMAIN traced[g] : traced[g][i].first =>
             i = 1 /\ g \notin Mains /\ runs[g] = 0 /\ traced[g][i].depth = 0
      BY <1>1, <1>2 DEF TraceInv
    <3> QED
      BY <1>4, <1>8, <3>1
  <2>2. traced'[g] = <<>> /\ frames[g] = <<>>
    <3>1. frames[g] \in Seq(Calls) /\ Len(frames[g]) = 0
      BY <1>1, <1>2, <2>1 DEF TypeOK
    <3> QED
      BY <1>4, <1>5, <2>1, <3>1, EmptySeq
  <2>3. \/ /\ runs' = [runs EXCEPT ![g] = 1] /\ pc' = "python" /\ sw' = Idle /\ err' = "none"
        \/ /\ runs' = runs /\ pc' = "end" /\ err' = e /\ sw' = Call(t, g, "die", None)
    BY <1>2, <1>8, <2>1 DEF Bootstrap
  <2>4. pc' = "end" => /\ sw' \in Calls /\ sw'.thread = t /\ sw'.this = g /\ sw'.back = "die"
    BY <1>2, <2>3, ThingsType, CallType
  <2>5. /\ runs' \in [Greenlets -> Nat] /\ runs'[g] \in {0, 1}
        /\ \A x \in Greenlets : x # g => runs'[x] = runs[x]
    <3>1. runs \in [Greenlets -> Nat]
      BY <1>1 DEF TypeOK
    <3> QED
      BY <1>2, <2>1, <2>3, <3>1
  <2>6. TypeOK'
    <3>1. /\ err' \in {"none", "error", "exit"} /\ pc' \in {"python", "end"}
          /\ IF pc' = "python" THEN sw' = Idle /\ err' = "none" ELSE sw' \in Calls
      BY <2>3, <2>4
    <3> QED
      BY <1>1, <1>5, <2>5, <3>1 DEF TypeOK, Started
  <2>7. CurrentInv'
    BY <1>1 DEF CurrentInv
  <2>8. CallInv'
    BY <1>2, <1>3, <2>1, <2>2, <2>3, <2>4 DEF CallInv, Mains
  <2>9. ArgsInv'
    BY <1>1 DEF ArgsInv
  <2>10. RunsInv'
    BY <1>1, <1>2, <1>3, <2>5 DEF RunsInv, Started
  <2>11. TraceInv'
    <3> SUFFICES ASSUME NEW x \in Greenlets, traced'[x] # <<>>
                 PROVE  /\ life[x] = "active"
                        /\ \A i \in DOMAIN traced'[x] : traced'[x][i].first =>
                               /\ i = 1 /\ x \notin Mains
                               /\ runs'[x] = 0 /\ traced'[x][i].depth = 0
      <4>1. \A i \in DOMAIN <<>> : FALSE
        OBVIOUS
      <4> QED
        BY <4>1 DEF TraceInv
    <3>1. x # g /\ traced'[x] = traced[x] /\ runs'[x] = runs[x]
      BY <1>5, <2>2, <2>5
    <3> QED
      BY <1>1, <3>1 DEF TraceInv
  <2> QED
    BY <1>6, <2>6, <2>7, <2>8, <2>9, <2>10, <2>11 DEF IInv, ControlInv
<1> QED
  BY <1>7, <1>8

LEMMA TraceReturnIInv ==
    ASSUME IInv, NEW t \in Threads, TraceReturn(t)
    PROVE  IInv'
<1> DEFINE g == current[t]
           captured == Last(traced[g])
<1>1. TypeOK
  BY DEF IInv
<1>2. /\ pc = "python" /\ InTrace(g)
      /\ traced' = [traced EXCEPT ![g] = Front(@)]
      /\ UNCHANGED <<greenlets, args, current, frames, tracer, seen, sent, thrown, told>>
  BY DEF TraceReturn
<1>3. captured \in Captures
  <2>1. g \in Greenlets /\ traced[g] \in Seq(Captures) /\ traced[g] # <<>>
    BY <1>1, <1>2, CurrentStarted DEF TypeOK, InTrace, IInv, ControlInv
  <2> QED
    BY <2>1, FrontProperties
<1>4. tracer' \subseteq tracer /\ told' \subseteq Values
  BY <1>1, <1>2 DEF TypeOK
<1>5. CASE captured.first
  <2>1. Bootstrap(t, g, captured.value, captured.err)
    BY <1>5 DEF TraceReturn
  <2>2. captured.value \in Things /\ captured.err \in {"none", "error", "exit"}
    BY <1>3 DEF Captures
  <2>3. got' \in [Values -> Nat]
    BY <1>1, <2>1, ReceivedType DEF TypeOK, Bootstrap
  <2> QED
    BY <1>2, <1>4, <1>5, <2>1, <2>2, <2>3, LeaveTraceIInv
<1>6. CASE ~captured.first
  <2>1. Arrive(captured.value, captured.err) /\ UNCHANGED <<err, pc, sw, runs>>
    BY <1>6 DEF TraceReturn
  <2>2. got' \in [Values -> Nat]
    BY <1>1, <2>1, ReceivedType DEF TypeOK, Arrive
  <2> QED
    BY <1>2, <1>4, <2>1, <2>2, LeaveTraceIInv
<1> QED
  BY <1>5, <1>6

LEMMA TraceRaiseIInv ==
    ASSUME IInv, NEW t \in Threads, NEW e \in {"error", "exit"}, TraceRaise(t, e)
    PROVE  IInv'
<1> DEFINE g == current[t]
           captured == Last(traced[g])
<1>1. TypeOK
  BY DEF IInv
<1>2. /\ pc = "python" /\ InTrace(g)
      /\ traced' = [traced EXCEPT ![g] = Front(@)]
      /\ tracer' = tracer \ {t} /\ told' = told \cup ({captured.value} \cap Values)
      /\ UNCHANGED <<greenlets, args, current, frames, seen, sent, thrown>>
  BY DEF TraceRaise
<1>3. tracer' \subseteq tracer /\ told' \subseteq Values
  BY <1>1, <1>2 DEF TypeOK
<1>4. CASE captured.first
  <2>1. Bootstrap(t, g, None, e)
    BY <1>4 DEF TraceRaise
  <2>2. None \in Things /\ e \in {"none", "error", "exit"}
    BY ThingsType
  <2>3. got' \in [Values -> Nat]
    BY <1>1, <2>1, ReceivedType DEF TypeOK, Bootstrap
  <2> QED
    BY <1>2, <1>3, <1>4, <2>1, <2>2, <2>3, LeaveTraceIInv
<1>5. CASE ~captured.first
  <2>1. UNCHANGED <<err, pc, sw, runs, got>>
    BY <1>5 DEF TraceRaise
  <2> QED
    BY <1>1, <1>2, <1>3, <2>1, LeaveTraceIInv DEF TypeOK
<1> QED
  BY <1>4, <1>5

-----------------------------------------------------------------------------
LEMMA StutterIInv == ASSUME IInv, UNCHANGED vars PROVE IInv'
<1>1. TypeOK'
  BY DEF IInv, vars, TypeOK, Started
<1>2. FramesInv' /\ CurrentInv' /\ CallInv' /\ ArgsInv' /\ RunsInv' /\ TraceInv'
  BY DEF IInv, ControlInv, vars, FramesInv, CurrentInv, CallInv, ArgsInv, RunsInv,
         TraceInv, LookUpOK, Started
<1> QED
  BY <1>1, <1>2 DEF IInv, ControlInv

LEMMA NextIInv == ASSUME IInv, [Next]_vars PROVE IInv'
<1>1. CASE Inside
  BY <1>1, RefuseIInv, AllowIInv, SkipDeadIInv, SwitchStackIInv, SwitchNowhereIInv,
     SwitchForeignIInv, LookUpRunIInv, FoundIInv, NotFoundIInv, RefuseStartIInv, RetryIInv, StartRunIInv, DieIInv, NextParentIInv DEF Inside
<1>2. CASE EnterCallback
  BY <1>2, EnterCallbackIInv
<1>3. ASSUME NEW t \in Threads, NEW g \in Greenlets,
             Switch(t, g) \/ \E e \in {"error", "exit"} : Throw(t, g, e)
      PROVE  IInv'
  BY <1>3, SwitchIInv, ThrowIInv
<1>4. ASSUME NEW t \in Threads,
             \/ LeaveCallback(t) \/ Finish(t)
             \/ SetTrace(t) \/ TraceReturn(t) \/ ForeignReturn(t)
             \/ \E e \in {"error", "exit"} : TraceRaise(t, e) \/ ForeignRaise(t, e)
      PROVE  IInv'
  BY <1>4, LeaveCallbackIInv, FinishIInv, SetTraceIInv, TraceReturnIInv, TraceRaiseIInv, ForeignIInv
<1>5. ASSUME NEW g \in Greenlets, NEW p \in Greenlets, SetParent(g, p) PROVE IInv'
  BY <1>5, SetParentIInv
<1>6. CASE UNCHANGED vars
  BY <1>6, StutterIInv
<1> QED
  BY <1>1, <1>2, <1>3, <1>4, <1>5, <1>6 DEF Next

LEMMA SpecIInv == Spec => []IInv
BY InitIInv, NextIInv, PTL DEF Spec

\* The types of Switching, with the states in which Python code runs and those in
\* which g_switch() does, hold in every reachable state.
THEOREM SwitchingTypeCorrect == Spec => []TypeOK
<1>1. IInv => TypeOK
  BY DEF IInv
<1> QED
  BY <1>1, SpecIInv, PTL

\* The suspended lookups, the current greenlets, the call in progress and its
\* arguments fit together as ControlInv says: this is what g_initialstub() may
\* rely on when a lookup of `run` returns.
THEOREM ControlHolds == Spec => []ControlInv
<1>1. IInv => ControlInv
  BY DEF IInv
<1> QED
  BY <1>1, SpecIInv, PTL

\* run() is entered at most once, however many lookups of `run` are pending for
\* the same greenlet: g_initialstub() reads started() again after each.
THEOREM RunsOnceHolds == Spec => []RunsOnce
<1>1. IInv => RunsOnce
  <2> SUFFICES ASSUME IInv, NEW g \in Greenlets PROVE runs[g] <= 1
    BY DEF RunsOnce
  <2>1. runs[g] \in Nat /\ runs[g] <= (IF Started(g) THEN 1 ELSE 0)
    BY DEF IInv, TypeOK, ControlInv, RunsInv
  <2> QED
    BY <2>1
<1> QED
  BY <1>1, SpecIInv, PTL

\* A thread's current greenlet is one that was started in that thread, and a dead
\* one never runs Python code, except while g_switch() to a parent waits for it.
THEOREM CurrentInThreadHolds == Spec => []CurrentInThread
<1>1. IInv => CurrentInThread
  BY DEF IInv, ControlInv, CurrentInv, CurrentInThread
<1> QED
  BY <1>1, SpecIInv, PTL

\* check_switch_allowed() is enough for a switch that does not pass over a dead
\* greenlet: the checks before and after the lookup of `run` keep it in its thread.
THEOREM DirectInThreadHolds == Spec => []DirectInThread
<1>1. IInv => DirectInThread
  BY DEF IInv, ControlInv, CallInv, DirectInThread, Started
<1> QED
  BY <1>1, SpecIInv, PTL

\* The assertion of green_switch(): when Python code runs, no current greenlet has
\* arguments that nobody has received.
THEOREM CurrentArgsCleanHolds == Spec => []CurrentArgsClean
<1>1. IInv => CurrentArgsClean
  BY DEF IInv, ControlInv, ArgsInv, CurrentArgsClean
<1> QED
  BY <1>1, SpecIInv, PTL

\* The last switch that a trace function was told of is the one to the current
\* greenlet: current changes only in g_switchstack() and in the first switch, and both
\* call the tracer of the thread before any other Python code runs.  A switch from another
\* thread that finds the greenlet current tells the tracer so, and changes nothing.
THEOREM TracerFollowsHolds == Spec => []TracerFollows
<1> DEFINE Follows == \A t \in tracer : seen[t] = current[t]
<1>1. Init => Follows
  BY DEF Init
<1>2. ASSUME IInv, Follows, [Next]_vars PROVE Follows'
  <2>1. /\ tracer \subseteq Threads
        /\ current \in [Threads -> Greenlets] /\ seen \in [Threads -> Greenlets]
    BY <1>2, ThreadsAssumption DEF IInv, TypeOK
  <2>2. CASE UNCHANGED <<tracer, seen, current>>
    BY <1>2, <2>2
  <2>3. CASE SwitchStack
    <3>1. /\ current' = [current EXCEPT ![sw.thread] = sw.target] /\ tracer' = tracer
          /\ IF sw.thread \in tracer THEN seen' = [seen EXCEPT ![sw.thread] = sw.target]
             ELSE seen' = seen
      BY <2>3 DEF SwitchStack, Trace
    <3> QED
      BY <1>2, <2>1, <3>1
  <2>4. CASE StartRun
    <3>1. /\ current' = [current EXCEPT ![sw.thread] = sw.target] /\ tracer' = tracer
          /\ IF sw.thread \in tracer THEN seen' = [seen EXCEPT ![sw.thread] = sw.target]
             ELSE seen' = seen
      BY <2>4 DEF StartRun, FirstSwitch, Trace
    <3> QED
      BY <1>2, <2>1, <3>1
  <2>5. CASE \E t \in Threads : SetTrace(t)
    BY <1>2, <2>1, <2>5 DEF SetTrace
  <2>6. CASE \E t \in Threads, e \in {"error", "exit"} : TraceRaise(t, e) \/ ForeignRaise(t, e)
    BY <1>2, <2>6 DEF TraceRaise, ForeignRaise
  <2>7. CASE SwitchNowhere
    <3>1. PICK u \in Threads :
             /\ current[u] = sw.target /\ UNCHANGED <<current, tracer>>
             /\ seen' = seen \/ seen' = [seen EXCEPT ![u] = sw.target]
      BY <2>7 DEF SwitchNowhere
    <3> QED
      BY <1>2, <2>1, <3>1
  <2>8. \/ UNCHANGED <<tracer, seen, current>> \/ SwitchStack \/ StartRun \/ SwitchNowhere
        \/ \E t \in Threads : SetTrace(t)
        \/ \E t \in Threads, e \in {"error", "exit"} : TraceRaise(t, e) \/ ForeignRaise(t, e)
    BY <1>2 DEF Next, Inside, Refuse, Allow, SkipDead, SwitchForeign, LookUpRun, Found, NotFound,
         RefuseStart, Retry, NextParent, Die, EnterCallback, Switch, Throw, LeaveCallback,
         Finish, SetParent, TraceReturn, ForeignReturn, greenlets, tracing, vars
  <2> QED
    BY <2>2, <2>3, <2>4, <2>5, <2>6, <2>7, <2>8
<1>3. Follows => TracerFollows
  BY DEF TracerFollows
<1> QED
  BY <1>1, <1>2, <1>3, SpecIInv, PTL DEF Spec

\* Once started, a greenlet never becomes startable again or changes its thread,
\* and once dead it stays dead: only g_initialstub() starts one, which is new, and
\* only inner_bootstrap() ends one, which is running.
THEOREM StartedForGoodHolds == Spec => StartedForGood
<1>1. ASSUME IInv, Next
      PROVE  \A g \in Greenlets : Started(g) => /\ home'[g] = home[g]
                                                /\ life'[g] # "new"
                                                /\ life[g] = "dead" => life'[g] = "dead"
  <2> SUFFICES ASSUME NEW g \in Greenlets, Started(g)
               PROVE  /\ home'[g] = home[g]
                      /\ life'[g] # "new"
                      /\ life[g] = "dead" => life'[g] = "dead"
    OBVIOUS
  <2>1. TypeOK /\ CallInv
    BY <1>1 DEF IInv, ControlInv
  <2>2. CASE StartRun
    <3>1. /\ life' = [life EXCEPT ![sw.target] = "active"]
          /\ home' = [home EXCEPT ![sw.target] = MainOf[sw.thread]]
          /\ g # sw.target
      BY <2>2 DEF StartRun
    <3> QED
      BY <2>1, <3>1 DEF TypeOK, Started
  <2>3. CASE Die
    <3>1. home' = home /\ life' = [life EXCEPT ![sw.this] = "dead"]
      BY <2>3 DEF Die
    <3> QED
      BY <2>1, <3>1 DEF TypeOK, Started
  <2>4. CASE UNCHANGED <<life, home>>
    BY <2>4 DEF Started
  <2>5. Next => StartRun \/ Die \/ UNCHANGED <<life, home>>
    BY DEF Next, Inside, Refuse, Allow, SkipDead, SwitchStack, SwitchNowhere, SwitchForeign,
           LookUpRun, Found, NotFound, RefuseStart, Retry, NextParent, EnterCallback, Switch,
           Throw, LeaveCallback, Finish, SetParent, SetTrace, TraceReturn, TraceRaise,
           ForeignReturn, ForeignRaise, greenlets
  <2> QED
    BY <1>1, <2>2, <2>3, <2>4, <2>5
<1> QED
  BY <1>1, SpecIInv, PTL DEF Spec, StartedForGood
-----------------------------------------------------------------------------
(* Values.  Without lookups of `run` that call Python code and tracers of other *)
(* threads, a call of switch() or throw() carries one value or one exception to *)
(* where it ends.                                                              *)

Carried == IF pc \in {"check", "walk", "lookup", "start", "end", "crash"}
                 \/ (pc \in {"die", "fatal"} /\ err = "none")
           THEN {sw.value} ELSE {}

\* A value, or else an exception.
Either(v, e) == v # None <=> e = "none"

\* If threads trace, there is one only: no call waits for the tracer of another.
TracedAlone == \A t \in Tracing : Threads = {t}

NoLookups == \A g \in Greenlets : frames[g] = <<>>

TracedEither ==
    \A g \in Greenlets : \A i \in DOMAIN traced[g] : Either(traced[g][i].value, traced[g][i].err)

\* Of the greenlets that have started, only the one that a call is at has arguments.
ArgsInPlace ==
    \A g \in Greenlets : Started(g) =>
        args[g] = None \/ (pc \in {"check", "walk", "crash"} /\ g = sw.this)

\* Where the call in progress has its value or its exception.
CallCarries ==
    /\ pc \in {"check", "walk"} => args[sw.this] = sw.value
    /\ pc \in {"check", "walk", "end"} => Either(sw.value, err)
    /\ pc \in {"lookup", "start"} => /\ ~Started(sw.target) /\ Either(sw.value, sw.savedErr)
                                     /\ args[sw.target] = sw.value /\ sw.savedArgs = sw.value
    /\ pc = "die" /\ err = "none" => sw.value # None
    /\ Carried \cap Values \subseteq 1..sent

CarriageInv == NoLookups /\ TracedEither /\ ArgsInPlace /\ CallCarries

\* v has not been sent, or is on its way.
Fresh(v) == got[v] = 0 /\ v \notin told /\ Waiting(v) = {}

\* v was received, or an exception took its place, or it waits for a trace function.
Settled(v) ==
    \/ got[v] = 1 /\ v \notin told /\ Waiting(v) = {}
    \/ got[v] = 0 /\ v \in told /\ Waiting(v) = {}
    \/ got[v] = 0 /\ v \notin told /\ \E x \in Waiting(v) : Waiting(v) = {x}

AccountInv ==
    \A v \in Values : IF v <= sent /\ v \notin Carried THEN Settled(v) ELSE Fresh(v)

LEMMA WaitingMember ==
    ASSUME NEW v, NEW x
    PROVE  x \in Waiting(v) <=>
              \E g \in Greenlets : \E i \in DOMAIN traced[g] : x = <<g, i>> /\ traced[g][i].value = v
BY DEF Waiting

LEMMA AccountSame ==
    ASSUME AccountInv, UNCHANGED <<got, told, traced, sent>>,
           Carried' \cap Values = Carried \cap Values
    PROVE  AccountInv'
<1> SUFFICES ASSUME NEW v \in Values
             PROVE  IF v <= sent /\ v \notin Carried' THEN Settled(v)' ELSE Fresh(v)'
  BY DEF AccountInv
<1>1. Waiting(v)' = Waiting(v)
  BY DEF Waiting
<1>2. (Settled(v)' <=> Settled(v)) /\ (Fresh(v)' <=> Fresh(v))
  BY <1>1 DEF Settled, Fresh
<1>3. v \in Carried' <=> v \in Carried
  OBVIOUS
<1> QED
  BY <1>2, <1>3 DEF AccountInv

LEMMA AccountSend ==
    ASSUME AccountInv, UNCHANGED <<got, told, traced>>, sent \in Nat, sent' = sent + 1,
           Carried = {}, Carried' = {sent + 1}
    PROVE  AccountInv'
<1> SUFFICES ASSUME NEW v \in Values
             PROVE  IF v <= sent' /\ v \notin Carried' THEN Settled(v)' ELSE Fresh(v)'
  BY DEF AccountInv
<1>1. Waiting(v)' = Waiting(v)
  BY DEF Waiting
<1>2. (Settled(v)' <=> Settled(v)) /\ (Fresh(v)' <=> Fresh(v))
  BY <1>1 DEF Settled, Fresh
<1>3. (v <= sent' /\ v \notin Carried') <=> v <= sent
  BY BoundsAssumption DEF Values
<1> QED
  BY <1>2, <1>3 DEF AccountInv

\* A value that was carried arrives, or an exception takes its place.
LEMMA AccountEnds ==
    ASSUME AccountInv, UNCHANGED <<traced, sent>>, NEW v, Carried = {v}, Carried' \cap Values = {},
           v \in Values => v <= sent, got \in [Values -> Nat],
           \/ got' = Received(v) /\ told' = told
           \/ got' = got /\ told' = told \cup ({v} \cap Values)
    PROVE  AccountInv'
<1> SUFFICES ASSUME NEW w \in Values
             PROVE  IF w <= sent /\ w \notin Carried' THEN Settled(w)' ELSE Fresh(w)'
  BY DEF AccountInv
<1>1. Waiting(w)' = Waiting(w) /\ w \notin Carried'
  BY DEF Waiting
<1>2. CASE w = v
  <2>1. w <= sent /\ Fresh(w)
    BY <1>2 DEF AccountInv
  <2>2. Settled(w)'
    BY <1>1, <1>2, <2>1 DEF Settled, Fresh, Received
  <2> QED
    BY <1>1, <2>1, <2>2
<1>3. CASE w # v
  <2>1. got'[w] = got[w] /\ (w \in told' <=> w \in told)
    BY <1>3 DEF Received
  <2>2. (Settled(w)' <=> Settled(w)) /\ (Fresh(w)' <=> Fresh(w))
    BY <1>1, <2>1 DEF Settled, Fresh
  <2> QED
    BY <1>1, <1>3, <2>2 DEF AccountInv
<1> QED
  BY <1>2, <1>3

\* A value that was carried waits for the trace function.
LEMMA AccountHeld ==
    ASSUME AccountInv, UNCHANGED <<got, told, sent>>, NEW c \in Captures, NEW g \in Greenlets,
           Carried = {c.value}, Carried' = {}, c.value \in Values => c.value <= sent,
           traced \in [Greenlets -> Seq(Captures)],
           traced' = [traced EXCEPT ![g] = Append(traced[g], c)]
    PROVE  AccountInv'
<1> SUFFICES ASSUME NEW w \in Values
             PROVE  IF w <= sent THEN Settled(w)' ELSE Fresh(w)'
  BY DEF AccountInv
<1>1. PICK s \in Seq(Captures) : s = traced[g]
  OBVIOUS
<1>2. /\ traced'[g] = Append(s, c) /\ DOMAIN s = 1..Len(s) /\ Len(s) \in Nat
      /\ DOMAIN Append(s, c) = 1..(Len(s) + 1)
      /\ \A i \in 1..Len(s) : Append(s, c)[i] = s[i]
      /\ Append(s, c)[Len(s) + 1] = c
  BY <1>1
<1>3. \A h \in Greenlets : h # g => traced'[h] = traced[h]
  OBVIOUS
<1>4. /\ Len(s) + 1 \in DOMAIN traced'[g]
      /\ \A i : i \in DOMAIN traced'[g] <=> i \in DOMAIN traced[g] \/ i = Len(s) + 1
      /\ \A i \in DOMAIN traced[g] : traced'[g][i] = traced[g][i]
      /\ traced'[g][Len(s) + 1] = c
  BY <1>1, <1>2
<1>5. ASSUME NEW x
      PROVE  x \in Waiting(w)' <=> x \in Waiting(w) \/ (w = c.value /\ x = <<g, Len(s) + 1>>)
  <2>1. x \in Waiting(w)' <=> \E h \in Greenlets : \E i \in DOMAIN traced'[h] :
                                 x = <<h, i>> /\ traced'[h][i].value = w
    BY DEF Waiting
  <2>2. x \in Waiting(w) <=> \E h \in Greenlets : \E i \in DOMAIN traced[h] :
                                 x = <<h, i>> /\ traced[h][i].value = w
    BY WaitingMember
  <2> QED
    BY <1>3, <1>4, <2>1, <2>2
<1>6. CASE w = c.value
  <2>1. w <= sent /\ Fresh(w)
    BY <1>6 DEF AccountInv
  <2>2. Waiting(w)' = {<<g, Len(s) + 1>>}
    BY <1>5, <1>6, <2>1 DEF Fresh
  <2> QED
    BY <2>1, <2>2 DEF Fresh, Settled
<1>7. CASE w # c.value
  <2>1. Waiting(w)' = Waiting(w)
    BY <1>5, <1>7
  <2>2. (Settled(w)' <=> Settled(w)) /\ (Fresh(w)' <=> Fresh(w))
    BY <2>1 DEF Settled, Fresh
  <2> QED
    BY <1>7, <2>2 DEF AccountInv
<1> QED
  BY <1>6, <1>7

LEMMA LastCapture ==
    ASSUME traced \in [Greenlets -> Seq(Captures)], NEW g \in Greenlets, traced[g] # <<>>
    PROVE  /\ Front(traced[g]) \in Seq(Captures) /\ Last(traced[g]) \in Captures
           /\ Len(Front(traced[g])) = Len(traced[g]) - 1
           /\ \A i \in DOMAIN Front(traced[g]) :
                 i \in DOMAIN traced[g] /\ Front(traced[g])[i] = traced[g][i]
           /\ Len(traced[g]) \in DOMAIN traced[g] /\ Last(traced[g]) = traced[g][Len(traced[g])]
<1>1. traced[g] \in Seq(Captures) /\ traced[g] # <<>>
  OBVIOUS
<1> QED
  BY <1>1, FrontProperties

\* The trace function is left: the value that waited arrives, or an exception does.
LEMMA AccountReleased ==
    ASSUME AccountInv, UNCHANGED sent, NEW g \in Greenlets, NEW c, traced[g] # <<>>,
           c = Last(traced[g]), Carried = {}, Carried' \cap Values = {},
           traced \in [Greenlets -> Seq(Captures)], got \in [Values -> Nat],
           traced' = [traced EXCEPT ![g] = Front(traced[g])],
           \/ got' = Received(c.value) /\ told' = told
           \/ got' = got /\ told' = told \cup ({c.value} \cap Values)
    PROVE  AccountInv'
<1> SUFFICES ASSUME NEW w \in Values
             PROVE  IF w <= sent THEN Settled(w)' ELSE Fresh(w)'
  BY DEF AccountInv
<1>0. /\ Front(traced[g]) \in Seq(Captures)
      /\ Len(Front(traced[g])) = Len(traced[g]) - 1
      /\ \A i \in DOMAIN Front(traced[g]) :
            i \in DOMAIN traced[g] /\ Front(traced[g])[i] = traced[g][i]
      /\ Len(traced[g]) \in DOMAIN traced[g] /\ Last(traced[g]) = traced[g][Len(traced[g])]
  BY LastCapture
<1>1. PICK s \in Seq(Captures) : s = traced[g]
  OBVIOUS
<1>2. /\ s # <<>> /\ DOMAIN s = 1..Len(s) /\ Len(s) \in Nat
      /\ Front(s) \in Seq(Captures) /\ Len(Front(s)) = Len(s) - 1
      /\ \A i \in DOMAIN Front(s) : i \in DOMAIN s /\ Front(s)[i] = s[i]
      /\ Len(s) \in DOMAIN s /\ c = s[Len(s)]
  <2>1. s # <<>> /\ DOMAIN s = 1..Len(s) /\ Len(s) \in Nat /\ c = Last(s)
    BY <1>1
  <2> QED
    BY <1>0, <1>1, <2>1
<1>3. /\ \A h \in Greenlets : h # g => traced'[h] = traced[h]
      /\ traced'[g] = Front(s)
  BY <1>1
<1>4. \A i : i \in DOMAIN traced'[g] <=> i \in DOMAIN traced[g] /\ i # Len(s)
  <2>1. DOMAIN Front(s) = 1..(Len(s) - 1)
    BY <1>2
  <2> QED
    BY <1>1, <1>2, <1>3, <2>1
<1>5. ASSUME NEW x
      PROVE  /\ x \in Waiting(w)' <=> x \in Waiting(w) /\ x # <<g, Len(s)>>
             /\ <<g, Len(s)>> \in Waiting(w) <=> w = c.value
  <2>1. x \in Waiting(w)' <=> \E h \in Greenlets : \E i \in DOMAIN traced'[h] :
                                 x = <<h, i>> /\ traced'[h][i].value = w
    BY DEF Waiting
  <2>2. x \in Waiting(w) <=> \E h \in Greenlets : \E i \in DOMAIN traced[h] :
                                 x = <<h, i>> /\ traced[h][i].value = w
    BY WaitingMember
  <2>3. <<g, Len(s)>> \in Waiting(w) <=> \E h \in Greenlets : \E i \in DOMAIN traced[h] :
                                 <<g, Len(s)>> = <<h, i>> /\ traced[h][i].value = w
    BY WaitingMember
  <2>4. \A i \in DOMAIN traced'[g] : traced'[g][i] = traced[g][i]
    BY <1>1, <1>2, <1>3
  <2> QED
    BY <1>1, <1>2, <1>3, <1>4, <2>1, <2>2, <2>3, <2>4
<1>6. IF w <= sent THEN Settled(w) ELSE Fresh(w)
  BY DEF AccountInv
<1>7. CASE w = c.value
  <2>1. <<g, Len(s)>> \in Waiting(w)
    BY <1>5, <1>7
  <2>2. w <= sent /\ got[w] = 0 /\ w \notin told /\ Waiting(w) = {<<g, Len(s)>>}
    BY <1>6, <2>1 DEF Fresh, Settled
  <2>3. Waiting(w)' = {}
    BY <1>5, <2>2
  <2> QED
    BY <1>7, <2>2, <2>3 DEF Settled, Received
<1>8. CASE w # c.value
  <2>1. Waiting(w)' = Waiting(w)
    BY <1>5, <1>8
  <2>2. got'[w] = got[w] /\ (w \in told' <=> w \in told)
    BY <1>8 DEF Received
  <2>3. (Settled(w)' <=> Settled(w)) /\ (Fresh(w)' <=> Fresh(w))
    BY <2>1, <2>2 DEF Settled, Fresh
  <2> QED
    BY <1>6, <2>3
<1> QED
  BY <1>7, <1>8

ValueInv == CarriageInv /\ AccountInv

LEMMA InitValues == Init => ValueInv
<1> SUFFICES ASSUME Init PROVE ValueInv
  OBVIOUS
<1>1. CarriageInv
  BY DEF Init, CarriageInv, NoLookups, TracedEither, ArgsInPlace, CallCarries, Carried
<1>2. ASSUME NEW v \in Values PROVE ~(v <= sent) /\ Fresh(v)
  BY <1>2 DEF Init, Fresh, Waiting, Values
<1> QED
  BY <1>1, <1>2 DEF ValueInv, AccountInv

\* Which traces there are, whatever else a step does.
LEMMA AppendedEither ==
    ASSUME TracedEither, traced \in [Greenlets -> Seq(Captures)], NEW g \in Greenlets,
           NEW c \in Captures, Either(c.value, c.err),
           traced' = [traced EXCEPT ![g] = Append(traced[g], c)]
    PROVE  TracedEither'
<1>1. PICK s \in Seq(Captures) : s = traced[g]
  OBVIOUS
<1>2. /\ traced'[g] = Append(s, c) /\ DOMAIN s = 1..Len(s) /\ Len(s) \in Nat
      /\ DOMAIN Append(s, c) = 1..(Len(s) + 1)
      /\ \A i \in 1..Len(s) : Append(s, c)[i] = s[i]
      /\ Append(s, c)[Len(s) + 1] = c
  BY <1>1
<1>3. ASSUME NEW i \in DOMAIN traced'[g] PROVE Either(traced'[g][i].value, traced'[g][i].err)
  <2>1. i \in DOMAIN s \/ i = Len(s) + 1
    BY <1>2
  <2> QED
    BY <1>1, <1>2, <2>1 DEF TracedEither
<1>4. \A h \in Greenlets : h # g => traced'[h] = traced[h]
  OBVIOUS
<1>5. ASSUME NEW h \in Greenlets, NEW i \in DOMAIN traced'[h]
      PROVE  Either(traced'[h][i].value, traced'[h][i].err)
  BY <1>3, <1>4 DEF TracedEither
<1> QED
  BY <1>5 DEF TracedEither, Either

LEMMA FrontEither ==
    ASSUME TracedEither, traced \in [Greenlets -> Seq(Captures)], NEW g \in Greenlets,
           traced[g] # <<>>, traced' = [traced EXCEPT ![g] = Front(traced[g])]
    PROVE  TracedEither' /\ Either(Last(traced[g]).value, Last(traced[g]).err)
<1>1. ASSUME NEW h \in Greenlets, NEW i \in DOMAIN traced'[h]
      PROVE  i \in DOMAIN traced[h] /\ traced'[h][i] = traced[h][i]
  BY LastCapture
<1>2. TracedEither'
  BY <1>1 DEF TracedEither, Either
<1>3. Either(Last(traced[g]).value, Last(traced[g]).err)
  BY LastCapture DEF TracedEither
<1> QED
  BY <1>2, <1>3

\* The steps that begin a call
LEMMA BeginValues ==
    ASSUME IInv, ValueInv, NEW t \in Threads, NEW g \in Greenlets,
           Switch(t, g) \/ \E e \in {"error", "exit"} : Throw(t, g, e)
    PROVE  ValueInv'
<1>1. TypeOK /\ CarriageInv /\ AccountInv
  BY DEF IInv, ValueInv
<1>2. pc = "python" /\ pc' = "check" /\ UNCHANGED <<life, home, parent, current, frames, traced, got, told>>
  BY DEF Switch, Throw, greenlets, tracing
<1>3. PICK v : /\ sw' = Call(t, g, "switch", v) /\ args' = [args EXCEPT ![g] = v]
               /\ \/ v = sent + 1 /\ sent' = sent + 1 /\ err' = "none" /\ sent < MaxSends
                  \/ v \in {Exit, None} /\ sent' = sent /\ Either(v, err')
  <2>1. CASE Switch(t, g)
    BY <1>1, <1>2, <2>1 DEF Switch, TypeOK
  <2>2. ASSUME NEW e \in {"error", "exit"}, Throw(t, g, e)
        PROVE  \E v \in {Exit, None} :
                  /\ sw' = Call(t, g, "switch", v) /\ args' = [args EXCEPT ![g] = v]
                  /\ sent' = sent /\ Either(v, err')
    BY <2>2, ThingsType DEF Throw, Either
  <2> QED
    BY <2>1, <2>2
<1>4. sw'.this = g /\ sw'.value = v /\ sw'.target = g
  BY <1>3 DEF Call
<1>5. sent \in Nat /\ sent + 1 # None /\ Carried = {} /\ Carried' = {v}
  BY <1>1, <1>2, <1>4, BoundsAssumption DEF TypeOK, Carried, None
<1>6. CarriageInv'
  <2>1. NoLookups' /\ TracedEither'
    BY <1>1, <1>2 DEF CarriageInv, NoLookups, TracedEither
  <2>2. args'[g] = v /\ \A h \in Greenlets : h # g => args'[h] = args[h]
    BY <1>1, <1>3 DEF TypeOK
  <2>3. ArgsInPlace'
    BY <1>1, <1>2, <1>4, <2>2 DEF CarriageInv, ArgsInPlace, Started
  <2>4. Carried' \cap Values \subseteq 1..sent'
    BY <1>3, <1>5, BoundsAssumption DEF Values, Exit, None
  <2>5. Either(v, err')
    BY <1>3, <1>5 DEF Either
  <2>6. CallCarries'
    BY <1>2, <1>4, <2>2, <2>4, <2>5 DEF CallCarries, Either
  <2> QED
    BY <2>1, <2>3, <2>6 DEF CarriageInv
<1>7. AccountInv'
  <2>1. CASE v = sent + 1 /\ sent' = sent + 1
    BY <1>1, <1>2, <1>5, <2>1, AccountSend
  <2>2. CASE v \in {Exit, None} /\ sent' = sent
    <3>1. Carried' \cap Values = Carried \cap Values
      BY <1>5, <2>2, BoundsAssumption DEF Values, Exit, None
    <3> QED
      BY <1>1, <1>2, <2>2, <3>1, AccountSame
  <2> QED
    BY <1>3, <2>1, <2>2
<1> QED
  BY <1>6, <1>7 DEF ValueInv

\* The steps that are not about values
LEMMA OtherValues ==
    ASSUME IInv, ValueInv,
           UNCHANGED <<life, args, frames, err, pc, sw, sent, got, told, traced>>
    PROVE  ValueInv'
<1>1. CarriageInv /\ AccountInv
  BY DEF ValueInv
<1>2. Carried' = Carried
  BY DEF Carried
<1>3. CarriageInv'
  BY <1>1, <1>2 DEF CarriageInv, NoLookups, TracedEither, ArgsInPlace, CallCarries, Started
<1> QED
  BY <1>1, <1>2, <1>3, AccountSame DEF ValueInv

\* A value that cannot be delivered is told of by an exception.
LEMMA FailValues ==
    ASSUME IInv, ValueInv, pc \in {"check", "lookup", "start"}, Fail(sw),
           UNCHANGED <<greenlets, current, frames, sent, thrown, got, runs, tracing>>
    PROVE  ValueInv'
<1>1. TypeOK /\ CarriageInv /\ AccountInv
  BY DEF IInv, ValueInv
<1>2. sw.this \in Greenlets /\ sw.back \in {"switch", "die"}
  BY <1>1 DEF TypeOK, Calls
<1>3. /\ args' = [args EXCEPT ![sw.this] = None]
      /\ told' = told \cup ({sw.value} \cap Values)
      /\ \/ pc' = "python" /\ err' = "none" /\ sw' = Idle
         \/ pc' = "die" /\ err' = "error" /\ sw' = sw
      /\ UNCHANGED <<life, frames, sent, got, traced>>
  BY <1>2 DEF Fail, greenlets, tracing
<1>4. Carried = {sw.value} /\ Carried' = {}
  BY <1>3 DEF Carried
<1>5. CarriageInv'
  <2>1. NoLookups' /\ TracedEither'
    BY <1>1, <1>3 DEF CarriageInv, NoLookups, TracedEither
  <2>2. args'[sw.this] = None /\ \A h \in Greenlets : h # sw.this => args'[h] = args[h]
    BY <1>1, <1>2, <1>3 DEF TypeOK
  <2>3. ArgsInPlace'
    BY <1>1, <2>2, <1>3 DEF CarriageInv, ArgsInPlace, Started
  <2>4. CallCarries'
    BY <1>3, <1>4 DEF CallCarries
  <2> QED
    BY <2>1, <2>3, <2>4 DEF CarriageInv
<1>6. AccountInv'
  <2>1. sw.value \in Values => sw.value <= sent
    BY <1>1, <1>4 DEF CarriageInv, CallCarries
  <2> QED
    BY <1>1, <1>3, <1>4, <2>1, AccountEnds DEF TypeOK
<1> QED
  BY <1>5, <1>6 DEF ValueInv

\* g_switch() looks for a greenlet that it can switch to.
LEMMA WalkValues ==
    ASSUME IInv, ValueInv, Allow \/ SkipDead
    PROVE  ValueInv'
<1>1. TypeOK /\ CarriageInv /\ AccountInv
  BY DEF IInv, ValueInv
<1>2. /\ pc \in {"check", "walk"} /\ pc' = "walk" /\ sw'.this = sw.this /\ sw'.value = sw.value
      /\ UNCHANGED <<life, args, frames, err, sent, got, told, traced>>
  BY <1>1 DEF Allow, SkipDead, greenlets, tracing, ghosts, TypeOK, Calls
<1>3. Carried' = Carried
  BY <1>2 DEF Carried
<1>4. CarriageInv'
  BY <1>1, <1>2, <1>3 DEF CarriageInv, NoLookups, TracedEither, ArgsInPlace, CallCarries, Started
<1> QED
  BY <1>1, <1>2, <1>3, <1>4, AccountSame DEF ValueInv

\* What moves from the greenlet that a call was for to the one that it is at
LEMMA MovedValue ==
    ASSUME IInv, ValueInv, pc = "walk"
    PROVE  /\ Move(sw.this, sw.target)[sw.target] = sw.value
           /\ \A g \in Greenlets : Started(g) /\ g # sw.target => Move(sw.this, sw.target)[g] = None
<1>1. TypeOK /\ CarriageInv
  BY DEF IInv, ValueInv
<1>2. /\ sw.this \in Greenlets /\ sw.target \in Greenlets
      /\ args \in [Greenlets -> Things] /\ args[sw.this] = sw.value
  BY <1>1 DEF TypeOK, Calls, CarriageInv, CallCarries
<1>3. \A g \in Greenlets : Started(g) /\ g # sw.this => args[g] = None
  BY <1>1 DEF CarriageInv, ArgsInPlace
<1> QED
  BY <1>2, <1>3 DEF Move

LEMMA LookUpRunValues == ASSUME IInv, ValueInv, LookUpRun PROVE ValueInv'
<1>1. TypeOK /\ CarriageInv /\ AccountInv
  BY DEF IInv, ValueInv
<1>2. PICK m : m = Move(sw.this, sw.target)
  OBVIOUS
<1>3. /\ pc = "walk" /\ pc' = "lookup" /\ life[sw.target] = "new" /\ args' = m
      /\ sw' = [sw EXCEPT !.savedArgs = m[sw.target], !.savedErr = err]
      /\ UNCHANGED <<life, frames, sent, got, told, traced>>
  BY <1>2 DEF LookUpRun, greenlets, tracing, ghosts
<1>4. m[sw.target] = sw.value /\ \A g \in Greenlets : Started(g) /\ g # sw.target => m[g] = None
  BY <1>2, <1>3, MovedValue
<1>5. /\ sw'.savedArgs = sw.value /\ sw'.savedErr = err /\ sw'.value = sw.value
      /\ sw'.target = sw.target
  BY <1>1, <1>3, <1>4 DEF TypeOK, Calls
<1>6. Carried' = Carried
  BY <1>3, <1>5 DEF Carried
<1>7. CarriageInv'
  <2>1. NoLookups' /\ TracedEither'
    BY <1>1, <1>3 DEF CarriageInv, NoLookups, TracedEither
  <2>2. ArgsInPlace'
    BY <1>3, <1>4 DEF ArgsInPlace, Started
  <2>3. Either(sw.value, err)
    BY <1>1, <1>3 DEF CarriageInv, CallCarries
  <2>4. CallCarries'
    BY <1>1, <1>3, <1>4, <1>5, <1>6, <2>3 DEF CarriageInv, CallCarries, Either, Started
  <2> QED
    BY <2>1, <2>2, <2>4 DEF CarriageInv
<1> QED
  BY <1>1, <1>3, <1>6, <1>7, AccountSame DEF ValueInv

LEMMA FoundValues == ASSUME IInv, ValueInv, Found PROVE ValueInv'
<1>1. TypeOK /\ CarriageInv /\ AccountInv
  BY DEF IInv, ValueInv
<1>2. /\ pc = "lookup" /\ pc' = "start"
      /\ UNCHANGED <<life, args, frames, err, sw, sent, got, told, traced>>
  BY DEF Found, greenlets, tracing, ghosts
<1>3. Carried' = Carried
  BY <1>2 DEF Carried
<1>4. CarriageInv'
  BY <1>1, <1>2, <1>3 DEF CarriageInv, NoLookups, TracedEither, ArgsInPlace, CallCarries, Started
<1> QED
  BY <1>1, <1>2, <1>3, <1>4, AccountSame DEF ValueInv

\* No lookup of `run` is pending when another stack is entered.
LEMMA LeftNoLookups ==
    ASSUME IInv, CarriageInv, NEW h \in Greenlets, frames' = Leave(h)
    PROVE  NoLookups'
<1>1. \A g \in Greenlets : frames'[g] = <<>>
  BY LeaveProperties DEF IInv, ControlInv, CarriageInv, NoLookups
<1> QED
  BY <1>1 DEF NoLookups

\* A suspended greenlet is given the value, or its trace function is called first.
LEMMA SwitchStackValues == ASSUME IInv, ValueInv, SwitchStack PROVE ValueInv'
<1>1. TypeOK /\ CarriageInv /\ AccountInv
  BY DEF IInv, ValueInv
<1>2. PICK g \in Greenlets : g = sw.target
  BY <1>1 DEF SwitchStack, TypeOK, Calls
<1>3. pc = "walk" /\ life[g] = "active" /\ UNCHANGED <<life, sent, told>>
  BY <1>2 DEF SwitchStack, greenlets
<1>4. PICK m : m = Move(sw.this, sw.target)
  OBVIOUS
<1>5. m[g] = sw.value /\ \A x \in Greenlets : Started(x) /\ x # g => m[x] = None
  BY <1>2, <1>3, <1>4, MovedValue
<1>6. m \in [Greenlets -> Things]
  BY <1>1, <1>2, <1>4, MoveType DEF SwitchStack, TypeOK, Calls
<1>7. PICK v \in Things : v = sw.value
  BY <1>2, <1>5, <1>6
<1>8. PICK h \in Greenlets : h = current[sw.thread]
  BY <1>1 DEF SwitchStack, TypeOK, Calls
<1>9. /\ args' = [m EXCEPT ![g] = None] /\ frames' = Leave(h)
      /\ err' = "none" /\ pc' = "python"
      /\ IF sw.thread \in tracer
         THEN got' = got /\ traced' = [traced EXCEPT ![g] = Append(traced[g], Capture(v, err, FALSE, g))]
         ELSE Arrive(v, err) /\ traced' = traced
  BY <1>2, <1>4, <1>5, <1>7, <1>8 DEF SwitchStack, Trace
<1>10. Carried = {v} /\ Carried' = {}
  BY <1>3, <1>7, <1>9 DEF Carried
<1>11. Either(v, err) /\ (v \in Values => v <= sent) /\ err \in {"none", "error", "exit"}
  BY <1>1, <1>3, <1>7, <1>10 DEF CarriageInv, CallCarries, TypeOK
<1>12. ArgsInPlace'
  <2>1. \A x \in Greenlets : Started(x) => args'[x] = None
    BY <1>5, <1>6, <1>9
  <2> QED
    BY <1>3, <2>1 DEF ArgsInPlace, Started
<1>13. NoLookups'
  BY <1>1, <1>9, LeftNoLookups
<1>14. CallCarries'
  BY <1>9, <1>10 DEF CallCarries
<1>15. CASE sw.thread \in tracer
  <2>1. PICK c \in Captures : c = Capture(v, err, FALSE, g)
    BY <1>1, <1>11, CaptureType
  <2>2. c.value = v /\ c.err = err
    BY <2>1 DEF Capture
  <2>3. traced' = [traced EXCEPT ![g] = Append(traced[g], c)] /\ got' = got
    BY <1>9, <1>15, <2>1
  <2>4. TracedEither'
    BY <1>1, <1>11, <2>2, <2>3, AppendedEither DEF TypeOK, CarriageInv
  <2>5. AccountInv'
    BY <1>1, <1>3, <1>10, <1>11, <2>2, <2>3, AccountHeld DEF TypeOK
  <2> QED
    BY <1>12, <1>13, <1>14, <2>4, <2>5 DEF ValueInv, CarriageInv
<1>16. CASE sw.thread \notin tracer
  <2>1. Arrive(v, err) /\ traced' = traced
    BY <1>9, <1>16
  <2>2. TracedEither'
    BY <1>1, <2>1 DEF CarriageInv, TracedEither
  <2>3. got' = Received(v) \/ (got' = got /\ {v} \cap Values = {})
    BY <1>11, <2>1, BoundsAssumption DEF Arrive, Either, Values, None
  <2>4. AccountInv'
    BY <1>1, <1>3, <1>10, <1>11, <2>1, <2>3, AccountEnds DEF TypeOK
  <2> QED
    BY <1>12, <1>13, <1>14, <2>2, <2>4 DEF ValueInv, CarriageInv
<1> QED
  BY <1>15, <1>16

\* Nobody is switched to: what was sent goes back.
LEMMA SwitchNowhereValues ==
    ASSUME TracedAlone, IInv, ValueInv, SwitchNowhere
    PROVE  ValueInv'
<1>1. TypeOK /\ CarriageInv /\ AccountInv
  BY DEF IInv, ValueInv
<1>2. PICK v \in Things : v = sw.value
  BY <1>1 DEF SwitchNowhere, TypeOK, Calls
<1>3. PICK m \in [Greenlets -> Things] : m = Move(sw.this, sw.target)
  BY <1>1, MoveType DEF SwitchNowhere, TypeOK, Calls
<1>4. /\ pc = "walk" /\ sw.target \in Greenlets /\ sw.this \in Greenlets /\ sw.thread \in Threads
      /\ sw.back \in {"switch", "die"}
  BY <1>1 DEF SwitchNowhere, TypeOK, Calls
<1>5. m[sw.target] = v /\ \A x \in Greenlets : Started(x) /\ x # sw.target => m[x] = None
  BY <1>2, <1>3, <1>4, MovedValue
<1>6. /\ args' = [m EXCEPT ![sw.target] = None]
      /\ ComeBack(sw, v, err)
      /\ UNCHANGED <<life, frames, sent, told, traced>>
  <2>1. ASSUME NEW u \in Threads \ {sw.thread} PROVE u \notin tracer
    BY <1>1, <1>4, <2>1 DEF TracedAlone, TypeOK
  <2> QED
    BY <1>3, <1>5, <2>1 DEF SwitchNowhere, greenlets
<1>7. Carried = {v} /\ Either(v, err) /\ (v \in Values => v <= sent)
  BY <1>1, <1>2, <1>4 DEF Carried, CarriageInv, CallCarries
<1>8. None \notin Values
  BY BoundsAssumption DEF Values, None
<1>9. NoLookups' /\ TracedEither' /\ ArgsInPlace'
  <2>1. \A x \in Greenlets : Started(x) => args'[x] = None
    BY <1>5, <1>6
  <2> QED
    BY <1>1, <1>6, <2>1 DEF CarriageInv, NoLookups, TracedEither, ArgsInPlace, Started
<1>10. CASE sw.back = "switch"
  <2>1. Arrive(v, err) /\ pc' = "python"
    BY <1>6, <1>10 DEF ComeBack
  <2>2. Carried' = {} /\ CallCarries'
    BY <2>1 DEF Carried, CallCarries
  <2>3. got' = Received(v) \/ (got' = got /\ {v} \cap Values = {})
    BY <1>7, <1>8, <2>1 DEF Arrive, Either
  <2>4. AccountInv'
    BY <1>1, <1>6, <1>7, <2>2, <2>3, AccountEnds DEF TypeOK
  <2> QED
    BY <1>9, <2>2, <2>4 DEF ValueInv, CarriageInv
<1>11. CASE sw.back = "die"
  <2>1. pc' = "die" /\ err' = err /\ sw' = Call(sw.thread, sw.this, "die", v) /\ got' = got
    BY <1>6, <1>11 DEF ComeBack
  <2>2. sw'.value = v
    BY <2>1 DEF Call
  <2>3. Carried' \cap Values = Carried \cap Values
    BY <1>7, <1>8, <2>1, <2>2 DEF Carried, Either
  <2>4. CallCarries'
    BY <1>1, <1>6, <1>7, <2>1, <2>2, <2>3 DEF CallCarries, CarriageInv, Either
  <2>5. AccountInv'
    BY <1>1, <1>6, <2>1, <2>3, AccountSame
  <2> QED
    BY <1>9, <2>4, <2>5 DEF ValueInv, CarriageInv
<1> QED
  BY <1>4, <1>10, <1>11

LEMMA SwitchForeignValues == ASSUME IInv, ValueInv, SwitchForeign PROVE ValueInv'
<1>1. CarriageInv /\ AccountInv
  BY DEF ValueInv
<1>2. /\ pc = "walk" /\ pc' = "crash"
      /\ UNCHANGED <<life, args, frames, err, sw, sent, got, told, traced>>
  BY DEF SwitchForeign, greenlets, ghosts, tracing
<1>3. Carried' = Carried
  BY <1>2 DEF Carried
<1>4. CarriageInv'
  BY <1>1, <1>2, <1>3 DEF CarriageInv, NoLookups, TracedEither, ArgsInPlace, CallCarries, Started
<1> QED
  BY <1>1, <1>2, <1>3, <1>4, AccountSame DEF ValueInv

\* run() is called with the value, or not called because of the exception.
LEMMA BootstrapValues ==
    ASSUME got \in [Values -> Nat], NEW t \in Threads, NEW g \in Greenlets, NEW v \in Things, NEW e,
           Bootstrap(t, g, v, e), Either(v, e)
    PROVE  /\ got' = Received(v) /\ Carried' \cap Values = {}
           /\ pc' \in {"python", "end"}
           /\ pc' = "end" => Either(sw'.value, err')
<1>1. CASE v # None
  BY <1>1 DEF Bootstrap, Carried
<1>2. CASE v = None
  <2>1. pc' = "end" /\ sw' = Call(t, g, "die", None) /\ err' = e
    BY <1>2 DEF Bootstrap
  <2>2. sw'.value = None
    BY <2>1 DEF Call
  <2>3. None \notin Values
    BY BoundsAssumption DEF Values, None
  <2> QED
    BY <1>2, <2>1, <2>2, <2>3 DEF Bootstrap, Carried, Either
<1> QED
  BY <1>1, <1>2

LEMMA StartRunValues == ASSUME IInv, ValueInv, StartRun PROVE ValueInv'
<1>1. TypeOK /\ CarriageInv /\ AccountInv
  BY DEF IInv, ValueInv
<1>2. PICK g \in Greenlets : g = sw.target
  BY <1>1 DEF StartRun, TypeOK, Calls
<1>3. PICK t \in Threads : t = sw.thread
  BY <1>1 DEF StartRun, TypeOK, Calls
<1>4. PICK v \in Things : v = sw.value
  BY <1>1 DEF StartRun, TypeOK, Calls
<1>5. PICK e \in {"none", "error", "exit"} : e = sw.savedErr
  BY <1>1 DEF StartRun, TypeOK, Calls
<1>6. PICK h \in Greenlets : h = current[t]
  BY <1>1 DEF TypeOK
<1>7. pc = "start" /\ args[g] = v /\ Either(v, e)
  BY <1>1, <1>2, <1>4, <1>5 DEF StartRun, CarriageInv, CallCarries
<1>8. /\ life' = [life EXCEPT ![g] = "active"] /\ frames' = Leave(h)
      /\ args' = [args EXCEPT ![g] = None] /\ FirstSwitch(t, g, v, e)
      /\ UNCHANGED <<sent, told>>
  BY <1>2, <1>3, <1>5, <1>6, <1>7 DEF StartRun
<1>9. Carried = {v} /\ (v \in Values => v <= sent)
  BY <1>1, <1>4, <1>7 DEF Carried, CarriageInv, CallCarries
<1>10. NoLookups'
  BY <1>1, <1>8, LeftNoLookups
<1>11. ArgsInPlace'
  <2>1. \A x \in Greenlets : Started(x) => args[x] = None
    BY <1>1, <1>7 DEF CarriageInv, ArgsInPlace
  <2>2. \A x \in Greenlets : x # g => life'[x] = life[x] /\ args'[x] = args[x]
    BY <1>1, <1>8 DEF TypeOK
  <2>3. args'[g] = None
    BY <1>1, <1>8 DEF TypeOK
  <2> QED
    BY <2>1, <2>2, <2>3 DEF ArgsInPlace, Started
<1>12. CASE t \in tracer
  <2>1. PICK c \in Captures : c = Capture(v, e, TRUE, g)
    BY <1>1, CaptureType
  <2>2. c.value = v /\ c.err = e
    BY <2>1 DEF Capture
  <2>3. traced' = [traced EXCEPT ![g] = Append(traced[g], c)] /\ got' = got /\ pc' = "python"
    BY <1>8, <1>12, <2>1 DEF FirstSwitch, Trace
  <2>4. TracedEither'
    BY <1>1, <1>7, <2>2, <2>3, AppendedEither DEF TypeOK, CarriageInv
  <2>5. Carried' = {}
    BY <2>3 DEF Carried
  <2>6. AccountInv'
    BY <1>1, <1>8, <1>9, <2>2, <2>3, <2>5, AccountHeld DEF TypeOK
  <2>7. CallCarries'
    BY <2>3, <2>5 DEF CallCarries
  <2> QED
    BY <1>10, <1>11, <2>4, <2>6, <2>7 DEF ValueInv, CarriageInv
<1>13. CASE t \notin tracer
  <2>1. Bootstrap(t, g, v, e) /\ traced' = traced
    BY <1>8, <1>13 DEF FirstSwitch
  <2>2. /\ got' = Received(v) /\ Carried' \cap Values = {}
        /\ pc' \in {"python", "end"}
        /\ pc' = "end" => Either(sw'.value, err')
    BY <1>1, <1>7, <2>1, BootstrapValues DEF TypeOK
  <2>3. TracedEither'
    BY <1>1, <2>1 DEF CarriageInv, TracedEither
  <2>4. CallCarries'
    BY <2>2 DEF CallCarries, Either
  <2>5. AccountInv'
    BY <1>1, <1>8, <1>9, <2>1, <2>2, AccountEnds DEF TypeOK
  <2> QED
    BY <1>10, <1>11, <2>3, <2>4, <2>5 DEF ValueInv, CarriageInv
<1> QED
  BY <1>12, <1>13

\* A trace function returns or raises.
LEMMA TraceValues ==
    ASSUME IInv, ValueInv, NEW t \in Threads,
           TraceReturn(t) \/ \E e \in {"error", "exit"} : TraceRaise(t, e)
    PROVE  ValueInv'
<1>1. TypeOK /\ CarriageInv /\ AccountInv
  BY DEF IInv, ValueInv
<1>2. PICK g \in Greenlets : g = current[t]
  BY <1>1 DEF TypeOK
<1>3. PICK c : c = Last(traced[g])
  OBVIOUS
<1>4. /\ pc = "python" /\ traced[g] # <<>>
      /\ traced' = [traced EXCEPT ![g] = Front(traced[g])]
      /\ UNCHANGED <<life, args, frames, sent>>
  BY <1>2 DEF TraceReturn, TraceRaise, InTrace, greenlets
<1>5. traced \in [Greenlets -> Seq(Captures)] /\ got \in [Values -> Nat]
  BY <1>1 DEF TypeOK
<1>6. TracedEither' /\ Either(c.value, c.err)
  BY <1>1, <1>3, <1>4, <1>5, FrontEither DEF CarriageInv
<1>7. c \in Captures /\ c.value \in Things
  BY <1>3, <1>4, <1>5, LastCapture DEF Captures
<1>8. /\ Carried' \cap Values = {}
      /\ pc' \in {"python", "end"} /\ (pc' = "end" => Either(sw'.value, err'))
      /\ \/ got' = Received(c.value) /\ told' = told
         \/ got' = got /\ told' = told \cup ({c.value} \cap Values)
  <2>1. CASE TraceReturn(t)
    <3>1. CASE c.first
      <4>1. Bootstrap(t, g, c.value, c.err) /\ told' = told
        BY <1>2, <1>3, <2>1, <3>1 DEF TraceReturn
      <4> QED
        BY <1>5, <1>6, <1>7, <4>1, BootstrapValues
    <3>2. CASE ~c.first
      <4>1. Arrive(c.value, c.err) /\ told' = told /\ pc' = "python"
        BY <1>2, <1>3, <1>4, <2>1, <3>2 DEF TraceReturn
      <4>2. got' = Received(c.value) \/ (got' = got /\ {c.value} \cap Values = {})
        BY <1>6, <4>1, BoundsAssumption DEF Arrive, Either, Values, None
      <4> QED
        BY <4>1, <4>2 DEF Carried
    <3> QED
      BY <3>1, <3>2
  <2>2. ASSUME NEW e \in {"error", "exit"}, TraceRaise(t, e)
        PROVE  /\ Carried' \cap Values = {}
               /\ pc' \in {"python", "end"} /\ (pc' = "end" => Either(sw'.value, err'))
               /\ got' = got /\ told' = told \cup ({c.value} \cap Values)
    <3>1. told' = told \cup ({c.value} \cap Values)
      BY <1>2, <1>3, <2>2 DEF TraceRaise
    <3>2. CASE c.first
      <4>1. Bootstrap(t, g, None, e)
        BY <1>2, <1>3, <2>2, <3>2 DEF TraceRaise
      <4>2. Either(None, e) /\ None \in Things
        BY ThingsType DEF Either
      <4>3. Received(None) = got
        BY <1>5, BoundsAssumption DEF Received, None, Values
      <4> QED
        BY <1>5, <3>1, <4>1, <4>2, <4>3, BootstrapValues
    <3>3. CASE ~c.first
      <4>1. pc' = "python" /\ got' = got
        BY <1>2, <1>3, <1>4, <2>2, <3>3 DEF TraceRaise
      <4> QED
        BY <3>1, <4>1 DEF Carried
    <3> QED
      BY <3>2, <3>3
  <2> QED
    BY <2>1, <2>2
<1>9. CarriageInv'
  <2>1. NoLookups'
    BY <1>1, <1>4 DEF CarriageInv, NoLookups
  <2>2. ArgsInPlace'
    BY <1>1, <1>4 DEF CarriageInv, ArgsInPlace, Started
  <2>3. CallCarries'
    BY <1>8 DEF CallCarries, Either
  <2> QED
    BY <1>6, <2>1, <2>2, <2>3 DEF CarriageInv
<1>10. AccountInv'
  <2>1. Carried = {}
    BY <1>4 DEF Carried
  <2> QED
    BY <1>1, <1>3, <1>4, <1>5, <1>8, <2>1, AccountReleased
<1> QED
  BY <1>9, <1>10 DEF ValueInv

\* run() ends with a value or an exception.
LEMMA FinishValues ==
    ASSUME IInv, ValueInv, NEW t \in Threads, Finish(t)
    PROVE  ValueInv'
<1>1. TypeOK /\ CarriageInv /\ AccountInv
  BY DEF IInv, ValueInv
<1>2. /\ pc = "python" /\ pc' = "end" /\ err = "none" /\ sent \in Nat
      /\ UNCHANGED <<life, args, frames, got, told, traced>>
  BY <1>1, BoundsAssumption DEF Finish, greenlets, tracing, TypeOK
<1>3. PICK v : /\ sw' = Call(t, current[t], "die", v)
               /\ \/ v = sent + 1 /\ sent' = sent + 1 /\ err' = err
                  \/ v = None /\ sent' = sent /\ err' \in {"error", "exit"}
  BY DEF Finish
<1>4. sw'.value = v
  BY <1>3 DEF Call
<1>5. Carried = {} /\ Carried' = {v} /\ None \notin Values /\ sent + 1 # None
  BY <1>2, <1>4, BoundsAssumption DEF Carried, None, Values
<1>6. CarriageInv'
  <2>1. NoLookups' /\ TracedEither' /\ ArgsInPlace'
    BY <1>1, <1>2 DEF CarriageInv, NoLookups, TracedEither, ArgsInPlace, Started
  <2>2. Carried' \cap Values \subseteq 1..sent'
    BY <1>2, <1>3, <1>5, BoundsAssumption DEF Values
  <2>3. CallCarries'
    BY <1>2, <1>3, <1>4, <1>5, <2>2 DEF CallCarries, Either
  <2> QED
    BY <2>1, <2>3 DEF CarriageInv
<1>7. AccountInv'
  <2>1. CASE v = sent + 1 /\ sent' = sent + 1
    BY <1>1, <1>2, <1>5, <2>1, AccountSend
  <2>2. CASE v = None /\ sent' = sent
    <3>1. Carried' \cap Values = Carried \cap Values
      BY <1>5, <2>2
    <3> QED
      BY <1>1, <1>2, <2>2, <3>1, AccountSame
  <2> QED
    BY <1>3, <2>1, <2>2
<1> QED
  BY <1>6, <1>7 DEF ValueInv

\* A dead greenlet hands its value on to its parent.
LEMMA DieValues == ASSUME IInv, ValueInv, Die PROVE ValueInv'
<1>1. TypeOK /\ CarriageInv /\ AccountInv /\ CallInv
  BY DEF IInv, ValueInv, ControlInv
<1>2. PICK g \in Greenlets : g = sw.this
  BY <1>1 DEF Die, TypeOK, Calls
<1>3. pc = "end" /\ life[g] = "active" /\ g \notin Mains /\ args[g] = None
  BY <1>1, <1>2 DEF Die, CallInv, CarriageInv, ArgsInPlace, Started
<1>4. PICK p \in Greenlets : p = parent[g]
  BY <1>1, <1>3 DEF TypeOK
<1>5. PICK v \in Things : v = sw.value
  BY <1>1, <1>3 DEF TypeOK, Calls
<1>6. PICK r : r = Result(g, v)
  OBVIOUS
<1>7. /\ pc' = "check" /\ life' = [life EXCEPT ![g] = "dead"]
      /\ args' = [args EXCEPT ![g] = None, ![p] = r]
      /\ err' = IF err = "exit" THEN "none" ELSE err
      /\ sw' = Call(sw.thread, p, "die", r)
      /\ UNCHANGED <<frames, sent, got, told, traced>>
  BY <1>2, <1>4, <1>5, <1>6 DEF Die, ghosts, tracing
<1>8. Either(v, err) /\ err \in {"none", "error", "exit"}
  BY <1>1, <1>3, <1>5 DEF CarriageInv, CallCarries, TypeOK
<1>9. /\ v # None => r = v
      /\ v = None => r = (IF err = "exit" THEN Exit ELSE None)
  BY <1>3, <1>6, <1>8 DEF Result, Either
<1>10. Either(r, err') /\ {r} \cap Values = {v} \cap Values
  <2>1. Exit \notin Values /\ None \notin Values /\ Exit # None
    BY BoundsAssumption DEF Values, None, Exit
  <2> QED
    BY <1>7, <1>8, <1>9, <2>1 DEF Either
<1>11. sw'.this = p /\ sw'.value = r
  BY <1>7 DEF Call
<1>12. Carried = {v} /\ Carried' = {r}
  BY <1>3, <1>5, <1>7, <1>11 DEF Carried
<1>13. CarriageInv'
  <2>1. NoLookups' /\ TracedEither'
    BY <1>1, <1>7 DEF CarriageInv, NoLookups, TracedEither
  <2>2. args'[p] = r /\ \A x \in Greenlets : x # p => args'[x] \in {args[x], None}
    BY <1>1, <1>7 DEF TypeOK
  <2>3. \A x \in Greenlets : life'[x] # "new" => life[x] # "new"
    BY <1>1, <1>3, <1>7 DEF TypeOK
  <2>4. ArgsInPlace'
    BY <1>1, <1>3, <1>7, <1>11, <2>2, <2>3 DEF CarriageInv, ArgsInPlace, Started
  <2>5. CallCarries'
    BY <1>1, <1>7, <1>10, <1>11, <1>12, <2>2 DEF CarriageInv, CallCarries, Either
  <2> QED
    BY <2>1, <2>4, <2>5 DEF CarriageInv
<1>14. AccountInv'
  BY <1>1, <1>7, <1>10, <1>12, AccountSame
<1> QED
  BY <1>13, <1>14 DEF ValueInv

\* The exception that took the place of a value, or the value, goes to the next parent.
LEMMA NextParentValues == ASSUME IInv, ValueInv, NextParent PROVE ValueInv'
<1>1. TypeOK /\ CarriageInv /\ AccountInv
  BY DEF IInv, ValueInv
<1>2. pc = "die" /\ UNCHANGED <<life, frames, err, sent, got, told, traced>>
  BY DEF NextParent, greenlets, ghosts, tracing
<1>3. PICK p \in Greenlets \cup {NoOne} : p = parent[sw.this]
  BY <1>1, <1>2 DEF TypeOK, Calls
<1>4. PICK r : r = IF err = "none" THEN sw.value ELSE None
  OBVIOUS
<1>5. Either(r, err) /\ Carried \cap Values = {r} \cap Values
  <2>1. None \notin Values
    BY BoundsAssumption DEF Values, None
  <2> QED
    BY <1>1, <1>2, <1>4, <2>1 DEF CarriageInv, CallCarries, Either, Carried
<1>6. \A x \in Greenlets : Started(x) => args[x] = None
  BY <1>1, <1>2 DEF CarriageInv, ArgsInPlace
<1>7. Carried \cap Values \subseteq 1..sent
  BY <1>1 DEF CarriageInv, CallCarries
<1>8. NoLookups' /\ TracedEither'
  BY <1>1, <1>2 DEF CarriageInv, NoLookups, TracedEither
<1>9. CASE p = NoOne
  <2>1. pc' = "fatal" /\ args' = args /\ sw' = sw
    BY <1>3, <1>9 DEF NextParent
  <2>2. Carried' = Carried
    BY <1>2, <2>1 DEF Carried
  <2>3. CarriageInv'
    BY <1>2, <1>6, <1>7, <1>8, <2>1, <2>2 DEF CarriageInv, ArgsInPlace, CallCarries, Started
  <2> QED
    BY <1>1, <1>2, <2>2, <2>3, AccountSame DEF ValueInv
<1>10. CASE p # NoOne
  <2>1. /\ pc' = "check" /\ args' = [args EXCEPT ![p] = r]
        /\ sw' = Call(sw.thread, p, "die", r) /\ p \in Greenlets
    BY <1>3, <1>4, <1>10 DEF NextParent
  <2>2. sw'.this = p /\ sw'.value = r
    BY <2>1 DEF Call
  <2>3. Carried' = {r}
    BY <2>1, <2>2 DEF Carried
  <2>4. args'[p] = r /\ \A x \in Greenlets : Started(x) /\ x # p => args'[x] = None
    BY <1>1, <1>6, <2>1 DEF TypeOK
  <2>5. ArgsInPlace' /\ CallCarries'
    BY <1>2, <1>5, <1>7, <2>1, <2>2, <2>3, <2>4 DEF ArgsInPlace, CallCarries, Either, Started
  <2> QED
    BY <1>1, <1>2, <1>5, <1>8, <2>3, <2>5, AccountSame DEF ValueInv, CarriageInv
<1> QED
  BY <1>9, <1>10

LEMMA NextValues ==
    ASSUME Callbacks = {}, TracedAlone, IInv, ValueInv, [Next]_vars
    PROVE  ValueInv'
<1>1. CASE Refuse \/ NotFound \/ RefuseStart
  BY <1>1, FailValues DEF Refuse, NotFound, RefuseStart
<1>2. CASE Retry
  BY <1>2 DEF Retry, ValueInv, CarriageInv, CallCarries
<1>3. CASE EnterCallback
  BY <1>3 DEF EnterCallback
<1>4. ASSUME NEW t \in Threads, \/ LeaveCallback(t) \/ ForeignReturn(t)
                                \/ \E e \in {"error", "exit"} : ForeignRaise(t, e)
      PROVE  ValueInv'
  BY <1>4 DEF LeaveCallback, ForeignReturn, ForeignRaise, ValueInv, CarriageInv, NoLookups, IInv, TypeOK
<1>5. CASE \/ UNCHANGED vars
           \/ \E t \in Threads : SetTrace(t)
           \/ \E g, p \in Greenlets : SetParent(g, p)
  <2>1. UNCHANGED <<life, args, frames, err, pc, sw, sent, got, told, traced>>
    BY <1>5 DEF vars, SetTrace, SetParent, greenlets, ghosts, tracing
  <2> QED
    BY <2>1, OtherValues
<1>6. ASSUME NEW t \in Threads, NEW g \in Greenlets,
             Switch(t, g) \/ \E e \in {"error", "exit"} : Throw(t, g, e)
      PROVE  ValueInv'
  BY <1>6, BeginValues
<1>7. ASSUME NEW t \in Threads,
             TraceReturn(t) \/ \E e \in {"error", "exit"} : TraceRaise(t, e)
      PROVE  ValueInv'
  BY <1>7, TraceValues
<1>8. ASSUME NEW t \in Threads, Finish(t) PROVE ValueInv'
  BY <1>8, FinishValues
<1>9. CASE Inside
  BY <1>1, <1>2, <1>9, WalkValues, SwitchStackValues, SwitchNowhereValues, SwitchForeignValues, LookUpRunValues, FoundValues,
     StartRunValues, DieValues, NextParentValues DEF Inside
<1> QED
  BY <1>3, <1>4, <1>5, <1>6, <1>7, <1>8, <1>9 DEF Next

\* Where values are while a call of switch() or throw() is in progress: as long as no
\* lookup of `run` calls Python code, which is what makes ReceivedOnce fail, and no tracer
\* of another thread does, g_switch() carries one value or one exception, and nothing else
\* has it.
LEMMA SpecValues ==
    ASSUME Callbacks = {}, TracedAlone
    PROVE  Spec => []ValueInv
<1>1. Init => ValueInv
  BY InitValues
<1>2. IInv /\ ValueInv /\ [Next]_vars => ValueInv'
  BY NextValues
<1> QED
  BY <1>1, <1>2, SpecIInv, PTL DEF Spec

LEMMA SettledOnce ==
    ASSUME got \in [Values -> Nat], NEW v \in Values, Settled(v)
    PROVE  got[v] + (IF v \in told THEN 1 ELSE 0) + Cardinality(Waiting(v)) = 1
<1>1. CASE Waiting(v) = {}
  <2>1. Cardinality(Waiting(v)) = 0
    BY <1>1, FS_EmptySet
  <2> QED
    BY <1>1, <2>1 DEF Settled
<1>2. CASE \E x \in Waiting(v) : Waiting(v) = {x}
  <2>1. PICK x : Waiting(v) = {x}
    BY <1>2
  <2>2. Cardinality(Waiting(v)) = 1
    BY <2>1, FS_Singleton
  <2>3. got[v] = 0 /\ v \notin told
    BY <2>1 DEF Settled
  <2> QED
    BY <2>2, <2>3
<1> QED
  BY <1>1, <1>2 DEF Settled

\* No value is lost with a dead greenlet or in a trace function that switches, and none
\* is received twice, whoever sends, dies, throws and traces (release_args() and the moves
\* of switch_args in TUserGreenlet.cpp), if no lookup of `run` calls Python code, and if
\* threads that trace are alone: in any number of threads without trace functions, and in
\* one thread with them.
THEOREM ValuesArriveHolds ==
    ASSUME Callbacks = {}, TracedAlone
    PROVE  Spec => []ValuesArrive
<1>1. IInv /\ ValueInv => ValuesArrive
  <2> SUFFICES ASSUME IInv, ValueInv, pc = "python", NEW v \in 1..sent
               PROVE  got[v] + (IF v \in told THEN 1 ELSE 0) + Cardinality(Waiting(v)) = 1
    BY DEF ValuesArrive
  <2>1. v \in Values /\ v <= sent /\ got \in [Values -> Nat]
    BY BoundsAssumption DEF Values, IInv, TypeOK
  <2>2. Settled(v)
    BY <2>1 DEF ValueInv, AccountInv, Carried
  <2> QED
    BY <2>1, <2>2, SettledOnce
<1> QED
  BY <1>1, SpecIInv, SpecValues, PTL

\* What g_switchstack() asserts: whoever is switched to is given arguments or has an
\* exception pending, under the same two assumptions.
THEOREM ArgsPendingHolds ==
    ASSUME Callbacks = {}, TracedAlone
    PROVE  Spec => []ArgsPending
<1>1. IInv /\ ValueInv => ArgsPending
  <2> SUFFICES ASSUME IInv, ValueInv PROVE ArgsPending
    OBVIOUS
  <2>1. CarriageInv
    BY DEF ValueInv
  <2>2. pc = "walk" => Move(sw.this, sw.target)[sw.target] = sw.value /\ Either(sw.value, err)
    BY <2>1, MovedValue DEF CarriageInv, CallCarries
  <2>3. pc = "start" => args[sw.target] = sw.value /\ Either(sw.value, sw.savedErr)
    BY <2>1 DEF CarriageInv, CallCarries
  <2> QED
    BY <2>2, <2>3 DEF ArgsPending, Either
<1> QED
  BY <1>1, SpecIInv, SpecValues, PTL
=============================================================================

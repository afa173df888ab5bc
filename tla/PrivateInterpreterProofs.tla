---------------------- MODULE PrivateInterpreterProofs ----------------------
(***************************************************************************)
(* InterpreterState implements PrivateInterpreter: whatever the greenlets  *)
(* of any threads do, each keeps an interpreter state of its own.          *)
(*                                                                         *)
(* By the invariant of InterpreterStateProofs the links that a greenlet    *)
(* has when it runs depend on which of its frames are complete and on how  *)
(* many were killed, and not on whether it is suspended, so that the state *)
(* it is promised depends on its PythonState and these.                    *)
(***************************************************************************)
EXTENDS InterpreterStateProofs, SequenceTheorems

\* What is promised to a greenlet with state s and the links f of its frames
MineOf(s, f) ==
    LET r == Restored(s)
    IN  [context |-> r.context, depth |-> r.depth, handled |-> <<r.exc_info, r.exc_value>>,
         frame |-> r.frame, frames |-> f]

\* The links of the frames of g when it runs
RunLinks(g) == [k \in 1..Len(frames[g]) |-> From(frames[g], stale[g], k)]

MinesInv == \A g \in Greenlets : Mine(g) = MineOf(StateOf(g), RunLinks(g))

LEMMA TrueFramesIs ==
  ASSUME FullInv, NEW g \in Greenlets
  PROVE  TrueFrames(g) = RunLinks(g)
  <1>1. PICK fs \in Seq(Frame) : fs = frames[g]
    BY DEF FullInv, Typed
  <1>2. DOMAIN fs = 1..Len(fs) /\ FramesOK(fs, stale[g], top[g])
    BY <1>1 DEF FullInv, FramesAll
  <1>3. ASSUME NEW k \in 1..Len(fs)
        PROVE  (IF top[g] # Null /\ fs[k].complete THEN fs[k].stash ELSE fs[k].previous) =
               From(fs, stale[g], k)
    BY <1>2 DEF FramesOK, LinkOK
  <1> QED
    BY <1>1, <1>2, <1>3 DEF TrueFrames, RunLinks

LEMMA MinesAre == FullInv => MinesInv
  <1> SUFFICES ASSUME FullInv, NEW g \in Greenlets
               PROVE  Mine(g) = MineOf(StateOf(g), RunLinks(g))
    BY DEF MinesInv
  <1> QED
    BY TrueFramesIs DEF Mine, MineOf, StateOf

LEMMA MinesAreNext == FullInv' => MinesInv'
  BY MinesAre, PTL

-----------------------------------------------------------------------------
(* Each step is one of PrivateInterpreter. *)

LEMMA InitPrivate == Init => Private!AbsInit
  <1> SUFFICES ASSUME Init PROVE Private!AbsInit
    OBVIOUS
  <1>1. /\ [g \in Greenlets |-> IF life[g] = "active" THEN "live" ELSE life[g]] =
           [g \in Greenlets |-> IF \E t \in Threads : MainOf[t] = g THEN "live" ELSE "new"]
        /\ \A g \in Greenlets : life[g] = "new" => home[g] = NoThread
        /\ \A t \in Threads : home[MainOf[t]] = t
    BY HomeAssumption DEF Init, Mains, Users
  <1>2. ASSUME NEW g \in Greenlets
        PROVE  Mine(g) = [context |-> Empty, depth |-> 0, handled |-> <<"base", "none">>,
                          frame |-> Null, frames |-> <<>>]
    <2>1. TrueFrames(g) = <<>>
      <3>1. TrueFrames(g) = [k \in 1..0 |-> 0]
        BY DEF Init, TrueFrames
      <3>2. [k \in 1..0 |-> 0] \in Seq(Nat) /\ Len([k \in 1..0 |-> 0]) = 0
        OBVIOUS
      <3> QED
        BY <3>1, <3>2, EmptySeq
    <2>2. PICK s : s = IF IsCurrent(g) THEN ts[home[g]] ELSE saved[g]
      OBVIOUS
    <2>3. s = [Blank EXCEPT !.exc_info = "base"] \/ s = Blank
      <3>1. IsCurrent(g) => home[g] \in Threads
        BY InitBaseInv, StateOfIs
      <3> QED
        BY <2>2, <3>1 DEF Init
    <2>4. Restored(s) = [Blank EXCEPT !.exc_info = "base"]
      BY <2>3 DEF Restored, Blank
    <2> QED
      BY <2>1, <2>2, <2>4 DEF Mine, Blank
  <1>3. current = MainOf
    BY DEF Init
  <1> QED
    BY <1>1, <1>2, <1>3 DEF Private!AbsInit

\* What the mapping gives for the variables of PrivateInterpreter
AbsMine == [g \in Greenlets |-> Mine(g)]
AbsStage == [g \in Greenlets |-> IF life[g] = "active" THEN "live" ELSE life[g]]

\* A state that is promised, and what starting or killing its greenlet makes of it
MineRecord(c, d, h, r, f) == [context |-> c, depth |-> d, handled |-> h, frame |-> r, frames |-> f]
StartedMine(m, u, v) == [m EXCEPT !.depth = u, !.handled = v]
KilledMine(m, u, v) == [m EXCEPT !.context = u, !.frames = v]

LEMMA StartedRecord ==
  ASSUME NEW c, NEW d, NEW h, NEW r, NEW f, NEW u, NEW v
  PROVE  StartedMine(MineRecord(c, d, h, r, f), u, v) = MineRecord(c, u, v, r, f)
  <1>1. PICK m, n, o : /\ m = MineRecord(c, d, h, r, f) /\ n = [m EXCEPT !.depth = u]
                       /\ o = [n EXCEPT !.handled = v]
    OBVIOUS
  <1>2. n = MineRecord(c, u, h, r, f)
    BY <1>1 DEF MineRecord
  <1>3. o = MineRecord(c, u, v, r, f)
    BY <1>1, <1>2 DEF MineRecord
  <1>4. [m EXCEPT !.depth = u, !.handled = v] = [[m EXCEPT !.depth = u] EXCEPT !.handled = v]
    OBVIOUS
  <1> QED
    BY ONLY <1>1, <1>3, <1>4 DEF StartedMine

LEMMA KilledRecord ==
  ASSUME NEW c, NEW d, NEW h, NEW r, NEW f, NEW u, NEW v
  PROVE  KilledMine(MineRecord(c, d, h, r, f), u, v) = MineRecord(u, d, h, r, v)
  <1>1. PICK m, n, o : /\ m = MineRecord(c, d, h, r, f) /\ n = [m EXCEPT !.context = u]
                       /\ o = [n EXCEPT !.frames = v]
    OBVIOUS
  <1>2. n = MineRecord(u, d, h, r, f)
    BY <1>1 DEF MineRecord
  <1>3. o = MineRecord(u, d, h, r, v)
    BY <1>1, <1>2 DEF MineRecord
  <1>4. [m EXCEPT !.context = u, !.frames = v] = [[m EXCEPT !.context = u] EXCEPT !.frames = v]
    OBVIOUS
  <1> QED
    BY ONLY <1>1, <1>3, <1>4 DEF KilledMine

\* A step in which t runs: only the state and the frames of its greenlet change.
LEMMA RunsPrivate ==
  ASSUME FullInv, FullInv', NEW t \in Threads, UNCHANGED <<life, current, home, saved, stale>>,
         OtherThreads(t), OtherFrames(current[t])
  PROVE  Private!Run(t)
  <1>1. PICK h : h = current[t]
    OBVIOUS
  <1>2. ASSUME NEW g \in Greenlets \ {h} PROVE Mine(g)' = Mine(g)
    <2>1. StateOf(g)' = StateOf(g)
      <3>1. BaseInv'
        BY DEF FullInv
      <3> QED
        BY <1>1, <3>1, RunsStates DEF OtherStates
    <2>2. RunLinks(g)' = RunLinks(g)
      BY <1>1 DEF OtherFrames, RunLinks
    <2>3. Mine(g) = MineOf(StateOf(g), RunLinks(g))
      BY MinesAre DEF MinesInv
    <2>4. Mine(g)' = MineOf(StateOf(g)', RunLinks(g)')
      BY MinesAreNext DEF MinesInv
    <2> QED
      BY <2>1, <2>2, <2>3, <2>4
  <1>3. AbsStage' = AbsStage
    BY DEF AbsStage
  <1>4. \A g \in Greenlets \ {h} : AbsMine'[g] = AbsMine[g]
    BY <1>2 DEF AbsMine
  <1> QED
    BY <1>1, <1>3, <1>4 DEF Private!Run, AbsStage, AbsMine

LEMMA CallPrivate ==
  ASSUME FullInv, FullInv', NEW t \in Threads, NEW entry \in BOOLEAN, NEW c \in 1..NChunks,
         Call(t, entry, c)
  PROVE  Private!Run(t)
  <1>1. UNCHANGED <<life, current, home, saved, stale>>
    BY DEF Call
  <1>2. PICK s, fs : ts' = [ts EXCEPT ![t] = s] /\ frames' = [frames EXCEPT ![current[t]] = fs]
    BY DEF Call, PushFrame
  <1>3. OtherThreads(t) /\ OtherFrames(current[t])
    BY <1>2 DEF OtherThreads, OtherFrames, FullInv, Typed
  <1> QED
    BY <1>1, <1>3, RunsPrivate

LEMMA ReturnPrivate ==
  ASSUME FullInv, FullInv', NEW t \in Threads, Return(t)
  PROVE  Private!Run(t)
  <1>1. UNCHANGED <<life, current, home, saved, stale>>
    BY DEF Return
  <1>2. PICK s, fs : ts' = [ts EXCEPT ![t] = s] /\ frames' = [frames EXCEPT ![current[t]] = fs]
    BY DEF Return
  <1>3. OtherThreads(t) /\ OtherFrames(current[t])
    BY <1>2 DEF OtherThreads, OtherFrames, FullInv, Typed
  <1> QED
    BY <1>1, <1>3, RunsPrivate

\* Steps that change the PyThreadState of t only, or with its life.
LEMMA StatePrivate ==
  ASSUME FullInv, FullInv', NEW t \in Threads, UNCHANGED <<life, current, home, saved, frames, stale>>,
         NEW s, ts' = SetAt(ts, t, s)
  PROVE  Private!Run(t)
  <1>1. OtherThreads(t) /\ OtherFrames(current[t])
    BY DEF OtherThreads, OtherFrames, SetAt, FullInv, Typed
  <1> QED
    BY <1>1, RunsPrivate

LEMMA HandlePrivate ==
  ASSUME FullInv, FullInv', NEW t \in Threads, Handle(t)
  PROVE  Private!Run(t)
  <1>1. PICK s : s = IF ts[t].exc_info = "base"
                     THEN [ts[t] EXCEPT !.exc_info = "generator", !.exc_value = "error"]
                     ELSE [ts[t] EXCEPT !.exc_info = "base", !.exc_value = "none"]
    OBVIOUS
  <1>2. ts' = SetAt(ts, t, s) /\ UNCHANGED <<life, current, home, saved, frames, stale>>
    BY <1>1 DEF Handle, SetAt
  <1> QED
    BY <1>2, StatePrivate

LEMMA ContextRunPrivate ==
  ASSUME FullInv, FullInv', NEW t \in Threads, NEW c, ContextRun(t, c)
  PROVE  Private!Run(t)
  <1>1. PICK s : s = WithContext(ts[t], c)
    OBVIOUS
  <1>2. ts' = SetAt(ts, t, s) /\ UNCHANGED <<life, current, home, saved, frames, stale>>
    BY <1>1 DEF ContextRun, SetAt, WithContext
  <1> QED
    BY <1>2, StatePrivate

LEMMA ExitPrivate ==
  ASSUME FullInv, FullInv', NEW t \in Threads, Exit(t)
  PROVE  Private!Run(t)
  <1>1. ts' = SetAt(ts, t, Blank) /\ UNCHANGED <<life, current, home, saved, frames, stale>>
    BY DEF Exit, SetAt
  <1> QED
    BY <1>1, StatePrivate

\* A switch leaves the states where the mapping finds them.
LEMMA SwitchesPrivate ==
  ASSUME FullInv, FullInv', NEW t \in alive, NEW h, h = current[t], NEW g \in Greenlets, h # g,
         HomeIs(g, t), ~IsCurrent(g), Relinks(frames[g], Unexposed(frames[g], top[g])),
         NEW s, SwitchStack(t, g, s), UNCHANGED stale
  PROVE  /\ current' = [current EXCEPT ![t] = g]
         /\ Mine(g)' = MineOf(s, RunLinks(g))
         /\ \A k \in Greenlets \ {g} : Mine(k)' = Mine(k)
  <1>1. Switches(t, h, g, s)
    BY SwitchStackIs
  <1>2. current' = [current EXCEPT ![t] = g]
    BY <1>1 DEF Switches
  <1>3. t \in Threads /\ h \in Greenlets /\ home[h] = t /\ FramesOK(frames[h], stale[h], Null)
    BY Running
  <1>4. current'[t] = g /\ \A u \in Threads \ {t} : current'[u] = current[u]
    BY <1>2, <1>3 DEF FullInv, BaseInv, AtHome
  <1>5. BaseInv /\ BaseInv'
    BY DEF FullInv
  <1>6. /\ IsCurrent(g)' /\ ~IsCurrent(h)'
        /\ \A k \in Greenlets \ {g, h} : IsCurrent(k)' <=> IsCurrent(k)
    <2>1. \A u \in Threads \ {t} : current[u] # h
      BY <1>3, <1>5 DEF BaseInv, AtHome
    <2> QED
      BY <1>3, <1>4, <2>1 DEF IsCurrent
  <1>7. ts'[t] = Restored(s) /\ \A u \in Threads \ {t} : ts'[u] = ts[u]
    BY <1>1, <1>3 DEF Switches, FullInv, Typed
  <1>8. saved'[h] = ts[t] /\ \A k \in Greenlets \ {g, h} : saved'[k] = saved[k]
    BY <1>1, <1>3 DEF Switches, FullInv, Typed
  <1>9. ASSUME NEW k \in Greenlets PROVE RunLinks(k)' = RunLinks(k)
    <2>1. PICK out, in : out = Exposed(frames[h], Len(frames[h])) /\ in = Unexposed(frames[g], top[g])
      OBVIOUS
    <2>2. Relinks(frames[h], out) /\ Relinks(frames[g], in)
      BY <1>3, <2>1, ExposedOK
    <2>3. frames' = [frames EXCEPT ![h] = out, ![g] = in]
      BY <1>1, <2>1 DEF Switches
    <2>4. Relinks(frames[k], frames'[k])
      BY <1>3, <2>2, <2>3 DEF FullInv, Typed, Relinks
    <2>5. \A j \in 1..Len(frames[k]) : From(frames'[k], stale[k], j) = From(frames[k], stale[k], j)
      BY <2>4, RelinksFrom
    <2> QED
      BY <2>4, <2>5 DEF RunLinks, Relinks
  <1>10. Restored(Restored(s)) = Restored(s)
    BY DEF Restored
  <1>11. Mine(g)' = MineOf(s, RunLinks(g))
    <2>1. StateOf(g)' = Restored(s)
      BY <1>6, <1>7 DEF StateOf, HomeIs
    <2>2. Mine(g)' = MineOf(StateOf(g)', RunLinks(g)')
      BY MinesAreNext DEF MinesInv
    <2>3. MineOf(Restored(s), RunLinks(g)) = MineOf(s, RunLinks(g))
      BY <1>10 DEF MineOf
    <2> QED
      BY <1>9, <2>1, <2>2, <2>3
  <1>12. ASSUME NEW k \in Greenlets \ {g} PROVE Mine(k)' = Mine(k)
    <2>1. StateOf(k)' = StateOf(k)
      <3>1. CASE k = h
        <4>1. StateOf(h) = ts[t]
          BY <1>3, <1>5, StateOfIs
        <4> QED
          BY <3>1, <4>1, <1>6, <1>8 DEF StateOf
      <3>2. CASE k # h /\ IsCurrent(k)
        <4>1. home[k] \in Threads \ {t} /\ home'[k] = home[k]
          BY <3>2, <1>5, StateOfIs DEF HomeIs
        <4> QED
          BY <3>2, <4>1, <1>6, <1>7 DEF StateOf
      <3>3. CASE k # h /\ ~IsCurrent(k)
        BY <3>3, <1>6, <1>8 DEF StateOf
      <3> QED
        BY <3>1, <3>2, <3>3
    <2>2. Mine(k) = MineOf(StateOf(k), RunLinks(k))
      BY MinesAre DEF MinesInv
    <2>3. Mine(k)' = MineOf(StateOf(k)', RunLinks(k)')
      BY MinesAreNext DEF MinesInv
    <2> QED
      BY <1>9, <2>1, <2>2, <2>3
  <1> QED
    BY <1>2, <1>11, <1>12

LEMMA SwitchToPrivate ==
  ASSUME FullInv, FullInv', NEW t \in Threads, NEW g \in Greenlets, SwitchTo(t, g)
  PROVE  Private!Resume(t, g)
  <1>1. PICK h : h = current[t]
    OBVIOUS
  <1>2. /\ t \in alive /\ h # g /\ home[g] = t /\ life[g] = "active"
        /\ SwitchStack(t, g, saved[g]) /\ UNCHANGED <<life, home, stale>>
    BY <1>1 DEF SwitchTo
  <1>3. ~IsCurrent(g) /\ StateOf(g) = saved[g]
    BY <1>1, <1>2, StateOfIs DEF FullInv
  <1>4. Relinks(frames[g], Unexposed(frames[g], top[g])) /\ HomeIs(g, t)
    <2>1. top[g] = Len(frames[g])
      BY <1>2, <1>3 DEF FullInv, StateInv
    <2>2. FramesOK(frames[g], stale[g], Len(frames[g]))
      BY <2>1 DEF FullInv, FramesAll
    <2> QED
      BY <1>2, <2>1, <2>2, UnexposedOK DEF HomeIs, FullInv, BaseInv, AtHome
  <1>5. /\ current' = [current EXCEPT ![t] = g]
        /\ Mine(g)' = MineOf(saved[g], RunLinks(g))
        /\ \A k \in Greenlets \ {g} : Mine(k)' = Mine(k)
    BY <1>1, <1>2, <1>3, <1>4, SwitchesPrivate
  <1>6. Mine(g) = MineOf(saved[g], RunLinks(g))
    BY <1>3, MinesAre DEF MinesInv
  <1>7. AbsMine' = AbsMine
    BY <1>5, <1>6 DEF AbsMine
  <1>8. AbsStage' = AbsStage /\ AbsStage[g] = "live"
    BY <1>2 DEF AbsStage
  <1> QED
    BY <1>2, <1>5, <1>7, <1>8 DEF Private!Resume, AbsMine, AbsStage

LEMMA StartPrivate ==
  ASSUME FullInv, FullInv', NEW t \in Threads, NEW g \in Greenlets, Start(t, g)
  PROVE  Private!Start(t, g)
  <1>1. PICK h : h = current[t]
    OBVIOUS
  <1>2. PICK s : s = InitialState(t, g)
    OBVIOUS
  <1>3. /\ t \in alive /\ life[g] = "new" /\ UNCHANGED stale
        /\ SwitchStack(t, g, s) /\ life' = [life EXCEPT ![g] = "active"]
        /\ home' = [home EXCEPT ![g] = t]
    BY <1>2 DEF Start
  <1>4. h # g /\ h \in Greenlets
    BY <1>1, <1>3, Running
  <1>5. ~IsCurrent(g) /\ StateOf(g) = saved[g] /\ StateOf(h) = ts[t]
    <2>1. \A u \in Threads : current[u] # g
      BY <1>3 DEF FullInv, BaseInv, AtHome
    <2> QED
      BY <1>1, <2>1, StateOfIs DEF FullInv, IsCurrent, StateOf
  <1>6. saved[g] \in AllStates
    BY DEF FullInv, Typed
  <1>7. Relinks(frames[g], Unexposed(frames[g], top[g])) /\ HomeIs(g, t)
    <2>1. top[g] = Null /\ FramesOK(frames[g], stale[g], Null)
      BY <1>3 DEF FullInv, StateInv, FramesAll
    <2> QED
      BY <1>3, <2>1, UnexposedNone DEF HomeIs, FullInv, BaseInv, AtHome
  <1>8. /\ current' = [current EXCEPT ![t] = g]
        /\ Mine(g)' = MineOf(s, RunLinks(g))
        /\ \A k \in Greenlets \ {g} : Mine(k)' = Mine(k)
    BY <1>1, <1>3, <1>4, <1>5, <1>7, SwitchesPrivate
  <1>9. Mine(g) = MineOf(saved[g], RunLinks(g))
    BY <1>5, MinesAre DEF MinesInv
  <1>10. Mine(h).depth = ts[t].depth
    <2>1. Mine(h) = MineOf(ts[t], RunLinks(h))
      BY <1>4, <1>5, MinesAre DEF MinesInv
    <2>2. Restored(ts[t]).depth = ts[t].depth
      <3>1. ts[t] \in AllStates
        BY DEF FullInv, Typed
      <3> QED
        BY <3>1 DEF Restored, AllStates, State
    <2> QED
      BY <2>1, <2>2 DEF MineOf
  <1>11. MineOf(s, RunLinks(g)) = [MineOf(saved[g], RunLinks(g)) EXCEPT
                                     !.depth = ts[t].depth, !.handled = <<"base", "none">>]
    <2>1. PICK r \in AllStates : r = saved[g]
      BY <1>6
    <2>2. PICK d : d = ts[t].depth
      OBVIOUS
    <2>3. s = [r EXCEPT !.depth = d, !.exc_info = "null", !.exc_value = "none"]
      BY <1>2, <2>1, <2>2 DEF InitialState
    <2>4. PICK x, y : x = Restored(r) /\ y = Restored(s)
      OBVIOUS
    <2>5. /\ y.context = x.context /\ y.depth = d /\ y.exc_info = "base" /\ y.exc_value = "none"
          /\ y.frame = x.frame
      BY <2>3, <2>4 DEF Restored, AllStates, State
    <2>6. PICK f : f = RunLinks(g)
      OBVIOUS
    <2>7. /\ MineOf(r, f) = MineRecord(x.context, x.depth, <<x.exc_info, x.exc_value>>, x.frame, f)
          /\ MineOf(s, f) = MineRecord(x.context, d, <<"base", "none">>, x.frame, f)
      BY <2>4, <2>5 DEF MineOf, MineRecord
    <2>8. MineOf(s, f) = StartedMine(MineOf(r, f), d, <<"base", "none">>)
      BY <2>7, StartedRecord
    <2> QED
      BY <2>1, <2>2, <2>6, <2>8 DEF StartedMine
  <1>12. AbsMine' = [AbsMine EXCEPT ![g] = [@ EXCEPT !.depth = AbsMine[current[t]].depth,
                                                    !.handled = <<"base", "none">>]]
    <2>1. AbsMine[current[t]].depth = ts[t].depth
      BY <1>1, <1>4, <1>10 DEF AbsMine
    <2>2. Mine(g)' = [Mine(g) EXCEPT !.depth = ts[t].depth, !.handled = <<"base", "none">>]
      BY <1>8, <1>9, <1>11
    <2>3. PICK m, n : m = Mine(g) /\ n = Mine(g)'
      OBVIOUS
    <2>4. n = [m EXCEPT !.depth = AbsMine[current[t]].depth, !.handled = <<"base", "none">>]
      BY <2>1, <2>2, <2>3
    <2>5. AbsMine[g] = m
      BY <2>3 DEF AbsMine
    <2>6. AbsMine' = [AbsMine EXCEPT ![g] = n]
      BY <1>8, <2>3 DEF AbsMine
    <2> QED
      BY <2>4, <2>5, <2>6
  <1>13. AbsStage' = [AbsStage EXCEPT ![g] = "live"] /\ AbsStage[g] = "new"
    BY <1>3 DEF AbsStage, FullInv, Typed
  <1> QED
    BY <1>3, <1>8, <1>12, <1>13 DEF Private!Start, AbsMine, AbsStage

\* Steps that change no frame and of each state only what is not promised.
LEMMA DiePrivate ==
  ASSUME FullInv, FullInv', NEW t \in Threads, Die(t)
  PROVE  Private!End(t)
  <1>1. PICK h : h = current[t]
    OBVIOUS
  <1>2. /\ ts' = [ts EXCEPT ![t].chunk = Null] /\ saved' = [saved EXCEPT ![h].chunk = Null]
        /\ life' = [life EXCEPT ![h] = "dead"] /\ UNCHANGED <<current, home, frames, stale>>
        /\ life[h] = "active"
    BY <1>1 DEF Die, DidFinish
  <1>3. h \in Greenlets
    BY <1>1 DEF FullInv, BaseInv, AtHome
  <1>4. ASSUME NEW k \in Greenlets PROVE Mine(k)' = Mine(k)
    <2>1. IsCurrent(k)' <=> IsCurrent(k)
      BY <1>2 DEF IsCurrent
    <2>2. PICK s : s = StateOf(k)
      OBVIOUS
    <2>3. s \in AllStates
      BY <2>2, StateOfTyped
    <2>4. StateOf(k)' \in {s, [s EXCEPT !.chunk = Null]}
      <3>1. IsCurrent(k) => home[k] \in Threads
        BY StateOfIs DEF FullInv
      <3> QED
        BY <1>2, <2>1, <2>2, <3>1 DEF StateOf, FullInv, Typed
    <2>5. PICK r : r = StateOf(k)'
      OBVIOUS
    <2>6. MineOf(r, RunLinks(k)) = MineOf(s, RunLinks(k))
      <3>1. CASE r = s
        BY <3>1
      <3>2. CASE r = [s EXCEPT !.chunk = Null]
        <4>1. /\ Restored(r).context = Restored(s).context /\ Restored(r).depth = Restored(s).depth
              /\ Restored(r).exc_info = Restored(s).exc_info
              /\ Restored(r).exc_value = Restored(s).exc_value
              /\ Restored(r).frame = Restored(s).frame
          BY <2>3, <3>2 DEF Restored, AllStates, State
        <4> QED
          BY <4>1 DEF MineOf
      <3> QED
        BY <2>4, <2>5, <3>1, <3>2
    <2>7. Mine(k) = MineOf(s, RunLinks(k))
      BY <2>2, MinesAre DEF MinesInv
    <2>8. Mine(k)' = MineOf(StateOf(k)', RunLinks(k)')
      BY MinesAreNext DEF MinesInv
    <2>9. RunLinks(k)' = RunLinks(k)
      BY <1>2 DEF RunLinks
    <2> QED
      BY <2>5, <2>6, <2>7, <2>8, <2>9
  <1>5. AbsMine' = AbsMine
    BY <1>4 DEF AbsMine
  <1>6. AbsStage' = [AbsStage EXCEPT ![h] = "dead"] /\ AbsStage[h] = "live"
    BY <1>2, <1>3 DEF AbsStage, FullInv, Typed
  <1> QED
    BY <1>1, <1>2, <1>5, <1>6 DEF Private!End, AbsMine, AbsStage

\* Of a greenlet that no thread runs, nobody else sees what happens to it.
LEMMA OthersKeep ==
  ASSUME FullInv, FullInv', NEW g \in Greenlets, ~IsCurrent(g), UNCHANGED <<current, ts>>,
         \A k \in Greenlets \ {g} : /\ home'[k] = home[k] /\ saved'[k] = saved[k]
                                    /\ frames'[k] = frames[k] /\ stale'[k] = stale[k]
  PROVE  \A k \in Greenlets \ {g} : AbsMine'[k] = AbsMine[k]
  <1> SUFFICES ASSUME NEW k \in Greenlets \ {g} PROVE Mine(k)' = Mine(k)
    BY DEF AbsMine
  <1>1. IsCurrent(k)' <=> IsCurrent(k)
    BY DEF IsCurrent
  <1>2. StateOf(k)' = StateOf(k) /\ RunLinks(k)' = RunLinks(k)
    BY <1>1 DEF StateOf, RunLinks
  <1>3. Mine(k) = MineOf(StateOf(k), RunLinks(k))
    BY MinesAre DEF MinesInv
  <1>4. Mine(k)' = MineOf(StateOf(k)', RunLinks(k)')
    BY MinesAreNext DEF MinesInv
  <1> QED
    BY <1>2, <1>3, <1>4

LEMMA KillPrivate ==
  ASSUME FullInv, FullInv', NEW g \in Greenlets, Murder(g)
  PROVE  Private!Kill(g)
  <1>1. /\ ~IsCurrent(g) /\ life[g] = "active" /\ UNCHANGED <<current, ts>>
        /\ life' = [life EXCEPT ![g] = "new"] /\ home' = [home EXCEPT ![g] = NoThread]
        /\ saved' = [saved EXCEPT ![g] = WithContext(saved[g], Empty)]
        /\ stale' = [stale EXCEPT ![g] = Len(frames[g])] /\ UNCHANGED frames
    BY DEF Murder, WithContext
  <1>2. \A k \in Greenlets \ {g} : /\ home'[k] = home[k] /\ saved'[k] = saved[k]
                                   /\ frames'[k] = frames[k] /\ stale'[k] = stale[k]
    BY <1>1 DEF FullInv, Typed, BaseInv, AtHome
  <1>3. \A k \in Greenlets \ {g} : AbsMine'[k] = AbsMine[k]
    BY <1>1, <1>2, OthersKeep
  <1>4. \E f : Mine(g)' = [Mine(g) EXCEPT !.context = Empty, !.frames = f]
    <2>1. PICK s \in AllStates : s = saved[g]
      BY DEF FullInv, Typed
    <2>2. PICK r : r = WithContext(s, Empty)
      OBVIOUS
    <2>3. StateOf(g) = s /\ StateOf(g)' = r
      <3>1. ~IsCurrent(g)'
        BY <1>1 DEF IsCurrent
      <3>2. saved'[g] = r
        BY <1>1, <2>1, <2>2 DEF FullInv, Typed
      <3> QED
        BY <1>1, <2>1, <3>1, <3>2 DEF StateOf
    <2>4. PICK x, y : x = Restored(s) /\ y = Restored(r)
      OBVIOUS
    <2>5. /\ y.context = Empty /\ y.depth = x.depth /\ y.exc_info = x.exc_info
          /\ y.exc_value = x.exc_value /\ y.frame = x.frame
      BY <2>1, <2>2, <2>4 DEF Restored, AllStates, State, WithContext
    <2>6. PICK e, f : e = RunLinks(g) /\ f = RunLinks(g)'
      OBVIOUS
    <2>7. /\ MineOf(s, e) = MineRecord(x.context, x.depth, <<x.exc_info, x.exc_value>>, x.frame, e)
          /\ MineOf(r, f) = MineRecord(Empty, x.depth, <<x.exc_info, x.exc_value>>, x.frame, f)
      BY <2>4, <2>5 DEF MineOf, MineRecord
    <2>8. MineOf(r, f) = KilledMine(MineOf(s, e), Empty, f)
      BY <2>7, KilledRecord
    <2>9. Mine(g) = MineOf(s, e) /\ Mine(g)' = MineOf(r, f)
      BY <2>3, <2>6, MinesAre, MinesAreNext DEF MinesInv
    <2> QED
      BY <2>8, <2>9 DEF KilledMine
  <1>5. AbsMine' = [AbsMine EXCEPT ![g] = [@ EXCEPT !.context = Empty, !.frames = AbsMine'[g].frames]]
    <2>1. PICK f : Mine(g)' = [Mine(g) EXCEPT !.context = Empty, !.frames = f]
      BY <1>4
    <2>2. PICK m, n : m = Mine(g) /\ n = Mine(g)'
      OBVIOUS
    <2>3. AbsMine[g] = m /\ AbsMine'[g] = n
      BY <2>2 DEF AbsMine
    <2>4. m = MineOf(StateOf(g), RunLinks(g))
      BY <2>2, MinesAre DEF MinesInv
    <2>5. n.frames = f
      BY <2>1, <2>2, <2>4 DEF MineOf
    <2>6. n = [m EXCEPT !.context = Empty, !.frames = AbsMine'[g].frames]
      BY <2>1, <2>2, <2>3, <2>5
    <2>7. AbsMine' = [AbsMine EXCEPT ![g] = n]
      BY <1>3, <2>2 DEF AbsMine
    <2> QED
      BY <2>3, <2>6, <2>7
  <1>6. AbsStage' = [AbsStage EXCEPT ![g] = "new"] /\ AbsStage[g] = "live"
    BY <1>1 DEF AbsStage, FullInv, Typed
  <1>7. \A t \in Threads : current[t] # g
    BY <1>1 DEF IsCurrent
  <1> QED
    BY <1>1, <1>5, <1>6, <1>7 DEF Private!Kill, AbsMine, AbsStage

LEMMA DeletePrivate ==
  ASSUME FullInv, FullInv', NEW g \in Greenlets, Destroy(g)
  PROVE  Private!Delete(g)
  <1>1. /\ ~IsCurrent(g) /\ life[g] \in {"new", "dead"} /\ UNCHANGED <<current, home, ts>>
        /\ life' = [life EXCEPT ![g] = "gone"] /\ saved' = [saved EXCEPT ![g] = Blank]
        /\ frames' = [frames EXCEPT ![g] = <<>>] /\ stale' = [stale EXCEPT ![g] = 0]
    BY DEF Destroy
  <1>2. \A k \in Greenlets \ {g} : /\ home'[k] = home[k] /\ saved'[k] = saved[k]
                                   /\ frames'[k] = frames[k] /\ stale'[k] = stale[k]
    BY <1>1 DEF FullInv, Typed
  <1>3. \A k \in Greenlets \ {g} : AbsMine'[k] = AbsMine[k]
    BY <1>1, <1>2, OthersKeep
  <1>4. AbsStage' = [AbsStage EXCEPT ![g] = "gone"] /\ AbsStage[g] \in {"new", "dead"}
    BY <1>1 DEF AbsStage, FullInv, Typed
  <1>5. \A t \in Threads : current[t] # g
    BY <1>1 DEF IsCurrent
  <1> QED
    BY <1>1, <1>3, <1>4, <1>5 DEF Private!Delete, AbsMine, AbsStage

LEMMA GrContextSetPrivate ==
  ASSUME FullInv, FullInv', NEW t \in Threads, NEW g \in Greenlets, NEW c \in Contexts \cup {Empty},
         GrContextSet(t, g, c)
  PROVE  Private!SetContext(g)
  <1>1. t \in Threads /\ UNCHANGED <<life, current, home, frames, stale>>
    BY DEF GrContextSet
  <1>2. \A k \in Greenlets : IsCurrent(k)' <=> IsCurrent(k)
    BY <1>1 DEF IsCurrent
  <1>3. /\ \A k \in Greenlets \ {g} : StateOf(k)' = StateOf(k)
        /\ StateOf(g)' \in {StateOf(g), WithContext(StateOf(g), c)}
    <2>1. CASE IsRunning(g)
      <3>1. current[t] = g /\ ts' = [ts EXCEPT ![t] = WithContext(ts[t], c)] /\ UNCHANGED saved
        BY <2>1 DEF GrContextSet, WithContext
      <3>2. StateOf(g) = ts[t] /\ StateOf(g)' = ts'[t]
        <4>1. BaseInv /\ BaseInv'
          BY DEF FullInv
        <4> QED
          BY <1>1, <3>1, <4>1, StateOfIs, StateOfIsNext
      <3>3. ASSUME NEW k \in Greenlets \ {g} PROVE StateOf(k)' = StateOf(k)
        <4>1. CASE IsCurrent(k)
          <5>1. home[k] \in Threads \ {t}
            BY <3>1, <4>1, StateOfIs DEF FullInv
          <5> QED
            BY <1>1, <1>2, <3>1, <4>1, <5>1 DEF StateOf
        <4>2. CASE ~IsCurrent(k)
          BY <1>1, <1>2, <3>1, <4>2 DEF StateOf
        <4> QED
          BY <4>1, <4>2
      <3>4. ts'[t] = WithContext(ts[t], c)
        BY <3>1 DEF FullInv, Typed
      <3> QED
        BY <3>2, <3>3, <3>4
    <2>2. CASE ~IsRunning(g)
      <3>1. saved' = [saved EXCEPT ![g] = WithContext(saved[g], c)] /\ UNCHANGED ts
        BY <2>2 DEF GrContextSet, WithContext
      <3>2. /\ saved'[g] = WithContext(saved[g], c)
            /\ \A k \in Greenlets \ {g} : saved'[k] = saved[k]
        BY <3>1 DEF FullInv, Typed
      <3> QED
        BY <1>1, <1>2, <3>1, <3>2 DEF StateOf
    <2> QED
      BY <2>1, <2>2
  <1>4. ASSUME NEW k \in Greenlets
        PROVE  /\ Mine(k) = MineOf(StateOf(k), RunLinks(k))
               /\ Mine(k)' = MineOf(StateOf(k)', RunLinks(k))
    <2>1. RunLinks(k)' = RunLinks(k)
      BY <1>1 DEF RunLinks
    <2> QED
      BY <2>1, MinesAre, MinesAreNext DEF MinesInv
  <1>5. \A k \in Greenlets \ {g} : Mine(k)' = Mine(k)
    BY <1>3, <1>4
  <1>6. \E x : Mine(g)' = [Mine(g) EXCEPT !.context = x]
    <2>1. PICK s : s = StateOf(g)
      OBVIOUS
    <2>2. s \in AllStates
      BY <2>1, StateOfTyped
    <2>3. PICK n : n = RunLinks(g)
      OBVIOUS
    <2>4. MineOf(s, n) = [MineOf(s, n) EXCEPT !.context = Restored(s).context]
      BY DEF MineOf
    <2>5. MineOf(WithContext(s, c), n) = [MineOf(s, n) EXCEPT !.context = c]
      <3>1. PICK r : r = WithContext(s, c)
        OBVIOUS
      <3>2. /\ Restored(r).context = c /\ Restored(r).depth = Restored(s).depth
            /\ Restored(r).exc_info = Restored(s).exc_info
            /\ Restored(r).exc_value = Restored(s).exc_value
            /\ Restored(r).frame = Restored(s).frame
        BY <2>2, <3>1 DEF Restored, AllStates, State, WithContext
      <3>3. MineOf(r, n) = [MineOf(s, n) EXCEPT !.context = c]
        <4>2. PICK x : x = Restored(s)
          OBVIOUS
        <4>3. MineOf(r, n) = [context |-> c, depth |-> x.depth, handled |-> <<x.exc_info, x.exc_value>>,
                              frame |-> x.frame, frames |-> n]
          BY <3>2, <4>2 DEF MineOf
        <4>4. MineOf(s, n) = [context |-> x.context, depth |-> x.depth,
                              handled |-> <<x.exc_info, x.exc_value>>, frame |-> x.frame, frames |-> n]
          BY <4>2 DEF MineOf
        <4> QED
          BY <4>3, <4>4
      <3> QED
        BY <3>1, <3>3
    <2> QED
      BY <1>3, <1>4, <2>1, <2>3, <2>4, <2>5
  <1>7. AbsMine' = [AbsMine EXCEPT ![g].context = AbsMine'[g].context]
    <2>1. PICK x : Mine(g)' = [Mine(g) EXCEPT !.context = x]
      BY <1>6
    <2>2. Mine(g)'.context = x
      BY <2>1 DEF Mine
    <2> QED
      BY <1>5, <2>1, <2>2 DEF AbsMine
  <1>8. AbsStage' = AbsStage
    BY <1>1 DEF AbsStage
  <1> QED
    BY <1>1, <1>7, <1>8 DEF Private!SetContext, AbsMine, AbsStage

LEMMA NextPrivate == FullInv /\ FullInv' /\ [Next]_vars => [Private!AbsNext]_(Private!absVars)
  <1> SUFFICES ASSUME FullInv, FullInv', [Next]_vars PROVE [Private!AbsNext]_(Private!absVars)
    OBVIOUS
  <1>1. ASSUME NEW t \in Threads, NEW entry \in BOOLEAN, NEW c \in 1..NChunks, Call(t, entry, c)
        PROVE  Private!AbsNext
    BY <1>1, CallPrivate DEF Private!AbsNext
  <1>2. ASSUME NEW t \in Threads, Return(t) \/ Handle(t) \/ Exit(t)
        PROVE  Private!AbsNext
    BY <1>2, ReturnPrivate, HandlePrivate, ExitPrivate DEF Private!AbsNext
  <1>3. ASSUME NEW t \in Threads, NEW c \in Contexts \cup {Empty}, ContextRun(t, c)
        PROVE  Private!AbsNext
    BY <1>3, ContextRunPrivate DEF Private!AbsNext
  <1>4. ASSUME NEW t \in Threads, NEW g \in Greenlets, SwitchTo(t, g)
        PROVE  Private!AbsNext
    BY <1>4, SwitchToPrivate DEF Private!AbsNext
  <1>5. ASSUME NEW t \in Threads, NEW g \in Greenlets, Start(t, g)
        PROVE  Private!AbsNext
    BY <1>5, StartPrivate DEF Private!AbsNext
  <1>6. ASSUME NEW t \in Threads, Die(t)
        PROVE  Private!AbsNext
    BY <1>6, DiePrivate DEF Private!AbsNext
  <1>7. ASSUME NEW t \in Threads, NEW g \in Greenlets, NEW c \in Contexts \cup {Empty},
               GrContextSet(t, g, c)
        PROVE  Private!AbsNext
    BY <1>7, GrContextSetPrivate DEF Private!AbsNext
  <1>8. ASSUME NEW g \in Greenlets, Murder(g)
        PROVE  Private!AbsNext
    BY <1>8, KillPrivate DEF Private!AbsNext
  <1>9. ASSUME NEW g \in Greenlets, Destroy(g)
        PROVE  Private!AbsNext
    BY <1>9, DeletePrivate DEF Private!AbsNext
  <1>10. CASE UNCHANGED vars
    <2>1. AbsMine' = AbsMine /\ AbsStage' = AbsStage /\ current' = current /\ home' = home
      BY <1>10 DEF AbsMine, AbsStage, vars, Mine, TrueFrames, IsCurrent
    <2> QED
      BY <2>1 DEF Private!absVars, AbsMine, AbsStage
  <1> QED
    BY <1>1, <1>2, <1>3, <1>4, <1>5, <1>6, <1>7, <1>8, <1>9, <1>10 DEF Next

\* Each greenlet has an interpreter state of its own: what a switch restores is what
\* was saved, through any interleaving of calls, returns, switches, starts and ends of
\* greenlets, assignments to gr_context and exits of threads.
THEOREM ImplementsPrivateInterpreter == Spec => PrivateInterpreterSpec
  <1>1. FullInv /\ FullInv' /\ [Next]_vars => [Private!AbsNext]_(Private!absVars)
    BY NextPrivate
  <1> QED
    BY <1>1, InitPrivate, FullInvAlways, PTL DEF Spec, PrivateInterpreterSpec, Private!AbsSpec
=============================================================================

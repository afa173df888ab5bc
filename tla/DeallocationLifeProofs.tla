----------------------- MODULE DeallocationLifeProofs -----------------------
(***************************************************************************)
(* The properties of Deallocation about lives and threads, for any         *)
(* threads and greenlets, as long as leaked greenlets are lost.            *)
(*                                                                         *)
(* LifeInv adds to the invariant of DeallocationProofs what kills, lists   *)
(* and dying greenlets rely on: a greenlet that a kill interrupts is in    *)
(* the thread of the kill and on no list (CareCalls), a greenlet on a list *)
(* is as it was when it was parked (ParkInv), whoever runs is at home      *)
(* (HomeInv), a greenlet that cannot run has no calls (IdleInv), and a     *)
(* dead one that runs is on its way to another (LeavingInv).  Each step is *)
(* shown to add at the end of one greenlet's calls, or to replace its last *)
(* call (Becomes), which reduces every part to the few calls it adds.      *)
(* OwnInv says what parent a kill remembers, and when it cannot be lost.   *)
(***************************************************************************)
EXTENDS DeallocationProofs

-----------------------------------------------------------------------------
(* Suspended greenlets. *)

SuspendedStep(g) ==
    life[g] = "active" /\ life'[g] = "active" /\ fault' = "none" =>
        /\ home'[g] = home[g]
        /\ parent[g] # NoOne /\ InProgress({"kill"}, g) = {} => parent'[g] # NoOne

\* The call that is executed is in progress.
LEMMA TopInProgress ==
    ASSUME RefInv, NEW t \in Threads, NEW op, Executes(t, op), NEW ops, op \in ops
    PROVE  current[t] \in InProgress(ops, Top(t).of)
<1>1. /\ current[t] \in Greenlets /\ Len(calls[current[t]]) \in DOMAIN calls[current[t]]
      /\ Top(t) = calls[current[t]][Len(calls[current[t]])] /\ Top(t).op = op
    BY Executing
<1> QED BY <1>1 DEF InProgress

\* Most actions assign to neither parents nor threads.
LEMMA SuspendedPython ==
    ASSUME RefInv, NEW t \in Threads, PythonStep(t), NEW g \in Greenlets \ Mains
    PROVE  SuspendedStep(g)
<1>1. CASE UNCHANGED <<parent, home>>
    BY <1>1 DEF SuspendedStep
<1>2. ASSUME NEW x \in Greenlets, NEW p \in Greenlets, SetParent(t, x, p) PROVE SuspendedStep(g)
    <2>1. PythonRuns(t) /\ parent' = [parent EXCEPT ![x] = p] /\ home' = home
        BY <1>2 DEF SetParent
    <2>2. parent \in [Greenlets -> Greenlets \cup {NoOne}]
        BY <2>1, Running DEF Typed
    <2>3. parent'[g] = parent[g] \/ parent'[g] = p
        BY <2>1, <2>2
    <2> QED BY <2>1, <2>3, ThreadsAssumption DEF SuspendedStep
<1>3. ASSUME NEW S \in SUBSET Greenlets, Collect(t, S), life[g] = "active", life'[g] = "active"
      PROVE  parent'[g] = parent[g] /\ home'[g] = home[g]
    <2>1. /\ PythonRuns(t)
          /\ \A x \in S : IsGC(x)
          /\ life' = [x \in Greenlets |-> IF x \in {y \in S : life[y] = "active" /\ InDeadThread(y)}
                                          THEN "dead" ELSE life[x]]
          /\ parent' = [x \in Greenlets |-> IF x \in S THEN NoOne ELSE parent[x]]
          /\ home' = [x \in Greenlets |-> IF x \in S THEN NoOne ELSE home[x]]
        BY <1>3 DEF Collect
    <2>2. g \notin S
        BY <1>3, <2>1 DEF IsGC
    <2> QED BY <2>1, <2>2
<1>4. \/ UNCHANGED <<parent, home>>
      \/ \E x, p \in Greenlets : SetParent(t, x, p)
      \/ \E S \in SUBSET Greenlets : Collect(t, S)
    BY DEF PythonStep, New, Switch, LookDead, Keep, Forget, Name, Unname, GetCurrent, Finish, Return
<1> QED BY <1>1, <1>2, <1>3, <1>4 DEF SuspendedStep

LEMMA SuspendedC ==
    ASSUME RefInv, NEW t \in Threads, CStep(t), NEW g \in Greenlets \ Mains
    PROVE  SuspendedStep(g)
<1>0. TypeOK /\ parent \in [Greenlets -> Greenlets \cup {NoOne}]
      /\ life \in [Greenlets -> {"none", "new", "active", "dead", "freed"}]
      /\ home \in [Greenlets -> Mains \cup {NoOne}]
    BY DEF RefInv, TypeOK
<1>1. CASE UNCHANGED <<parent, home>>
    BY <1>1 DEF SuspendedStep
<1>2. CASE NewStep(t) \/ Kill(t)
    <2>1. PICK x, c : /\ parent' = [parent EXCEPT ![x] = c] /\ home' = home /\ c = current[t]
                      /\ Executes(t, "new") \/ Executes(t, "dealloc")
        BY <1>2 DEF NewStep, Kill
    <2>2. c \in Greenlets
        BY <2>1, Executing
    <2> QED BY <1>0, <2>1, <2>2, ThreadsAssumption DEF SuspendedStep
<1>3. CASE Murder(t)
    <2>1. PICK x : /\ home' = [home EXCEPT ![x] = NoOne] /\ parent' = parent
                   /\ life[x] = "active" => life' = [life EXCEPT ![x] = "new"]
                   /\ life[x] # "active" => life' = life
        BY <1>3 DEF Murder
    <2> QED BY <1>0, <2>1 DEF SuspendedStep
<1>4. CASE KillReturn(t)
    <2>1. PICK x : /\ parent' = [parent EXCEPT ![x] = Top(t).old] /\ home' = home /\ x = Top(t).of
                   /\ Executes(t, "kill")
        BY <1>4 DEF KillReturn, OldParent
    <2>2. InProgress({"kill"}, x) # {}
        BY <2>1, TopInProgress
    <2> QED BY <1>0, <2>1, <2>2 DEF SuspendedStep
<1>5. CASE Delete(t)
    <2>1. PICK x : /\ life' = [life EXCEPT ![x] = "freed"]
                   /\ parent' = [parent EXCEPT ![x] = NoOne]
                   /\ home' = [home EXCEPT ![x] = NoOne]
        BY <1>5 DEF Delete
    <2> QED BY <1>0, <2>1 DEF SuspendedStep
<1>6. CASE Start(t)
    <2>1. PICK x : /\ home' = [home EXCEPT ![x] = MainOf[t]] /\ parent' = parent
                   /\ fault' = "none" => life[x] = "new"
        BY <1>6 DEF Start
    <2> QED BY <1>0, <2>1 DEF SuspendedStep
<1>7. \/ UNCHANGED <<parent, home>>
      \/ NewStep(t) \/ Kill(t) \/ Murder(t) \/ KillReturn(t) \/ Delete(t) \/ Start(t)
    BY DEF CStep, CurrentStep, Drop, ClearNext, DestroyStep, DeallocIdle, Park, GiveUp, Undo, Free,
           Die, Refuse, GSwitch, GInitialstub, Switchstack, Jump
<1> QED BY <1>1, <1>2, <1>3, <1>4, <1>5, <1>6, <1>7

LEMMA SuspendedKeeps ==
    RefInv /\ [Next]_vars => [\A g \in Greenlets \ Mains : SuspendedStep(g)]_vars
<1> SUFFICES ASSUME RefInv, Next, NEW g \in Greenlets \ Mains PROVE SuspendedStep(g)
    OBVIOUS
<1>1. ASSUME NEW t \in Threads, Exit(t) \/ Destroy(t) PROVE SuspendedStep(g)
    BY <1>1 DEF Exit, Destroy, SuspendedStep
<1> QED BY <1>1, SuspendedPython, SuspendedC DEF Next

\* A suspended greenlet keeps its thread and its parent as long as it can go on: neither the
\* garbage collector nor the destruction of a thread state takes them from it.
THEOREM SuspendedIntactHolds == Spec /\ []LeaksAreLost => SuspendedIntact
<1>1. RefInv /\ [Next]_vars => [\A g \in Greenlets \ Mains : SuspendedStep(g)]_vars
    BY SuspendedKeeps
<1>2. (\A g \in Greenlets \ Mains : SuspendedStep(g)) <=>
      (\A g \in Greenlets \ Mains :
          life[g] = "active" /\ life'[g] = "active" /\ fault' = "none" =>
              /\ home'[g] = home[g]
              /\ parent[g] # NoOne /\ InProgress({"kill"}, g) = {} => parent'[g] # NoOne)
    BY DEF SuspendedStep
<1> QED BY <1>1, <1>2, Invariance, PTL DEF Spec, SuspendedIntact

-----------------------------------------------------------------------------
(* Where the calls of the next state come from. *)

\* Of the calls of c the first n stay, and r comes after them; of the others each
\* keeps its calls or loses them.
Becomes(c, n, r) ==
    /\ n \in 0..Len(calls[c]) /\ r \in Seq(Calls)
    /\ DOMAIN calls'[c] = 1..(n + Len(r)) /\ Len(r) \in Nat
    /\ \A i \in 1..n : i \in DOMAIN calls[c] /\ calls'[c][i] = calls[c][i]
    /\ \A i \in 1..Len(r) : calls'[c][n + i] = r[i]
    /\ OthersKept(c)

LEMMA Places ==
    ASSUME NEW s \in Seq(Calls), NEW n \in 0..Len(s), NEW r \in Seq(Calls), NEW z,
           z = SubSeq(s, 1, n) \o r
    PROVE  /\ DOMAIN z = 1..(n + Len(r)) /\ Len(r) \in Nat
           /\ \A i \in 1..n : i \in DOMAIN s /\ z[i] = s[i]
           /\ \A i \in 1..Len(r) : z[n + i] = r[i]
<1>1. Len(s) \in Nat /\ n \in Nat /\ n <= Len(s) /\ DOMAIN s = 1..Len(s) /\ Len(r) \in Nat
    OBVIOUS
<1>2. \A i \in 1..n : s[i] \in Calls
    BY <1>1, ElementOfSeq
<1>3. PICK p \in Seq(Calls) : p = SubSeq(s, 1, n) /\ Len(p) = n /\ \A i \in 1..n : p[i] = s[i]
    <2>1. /\ SubSeq(s, 1, n) \in Seq(Calls)
          /\ Len(SubSeq(s, 1, n)) = IF 1 <= n THEN n - 1 + 1 ELSE 0
          /\ \A i \in 1..(n - 1 + 1) : SubSeq(s, 1, n)[i] = s[1 + i - 1]
        BY <1>1, <1>2, SubSeqProperties
    <2>2. Len(SubSeq(s, 1, n)) = n /\ \A i \in 1..n : SubSeq(s, 1, n)[i] = s[i]
        BY <1>1, <2>1
    <2> QED BY <2>1, <2>2
<1>4. PICK y \in Seq(Calls) :
          /\ y = p \o r /\ Len(y) = Len(p) + Len(r)
          /\ \A i \in 1..(Len(p) + Len(r)) : y[i] = IF i <= Len(p) THEN p[i] ELSE r[i - Len(p)]
    BY Joined
<1>5. z = y
    BY <1>3, <1>4
<1>6. DOMAIN z = 1..(n + Len(r))
    BY <1>3, <1>4, <1>5
<1>7. ASSUME NEW i \in 1..n PROVE i \in DOMAIN s /\ z[i] = s[i]
    <2>1. i \in 1..(Len(p) + Len(r)) /\ i <= Len(p)
        BY <1>1, <1>3
    <2> QED BY <1>1, <1>3, <1>4, <1>5, <2>1
<1>8. ASSUME NEW i \in 1..Len(r) PROVE z[n + i] = r[i]
    <2>0. PICK m \in Nat : m = Len(r)
        BY <1>1
    <2>1. i \in 1..m /\ n \in Nat /\ Len(p) = n
        BY <1>1, <1>3, <2>0
    <2>2. n + i \in 1..(n + m) /\ ~(n + i <= n) /\ n + i - n = i
        BY <2>1
    <2>3. PICK j \in 1..(Len(p) + Len(r)) : j = n + i /\ ~(j <= Len(p)) /\ j - Len(p) = i
        BY <2>0, <2>1, <2>2
    <2>4. y[j] = IF j <= Len(p) THEN p[j] ELSE r[j - Len(p)]
        BY <1>4
    <2> QED BY <1>5, <2>3, <2>4
<1> QED BY <1>1, <1>6, <1>7, <1>8

LEMMA AddedBecomes ==
    ASSUME Typed, NEW c \in Greenlets, NEW r \in Seq(Calls), calls'[c] = calls[c] \o r, OthersKept(c)
    PROVE  Becomes(c, Len(calls[c]), r)
<1>1. calls[c] \in Seq(Calls)
    BY DEF Typed
<1>2. PICK n \in 0..Len(calls[c]) : n = Len(calls[c])
    <2>1. PICK m \in Nat : m = Len(calls[c])
        BY <1>1
    <2>2. m \in 0..m
        BY <2>1
    <2> QED BY <2>1, <2>2
<1>3. PICK z : z = calls'[c]
    OBVIOUS
<1>4. z = SubSeq(calls[c], 1, n) \o r
    BY <1>1, <1>2, <1>3, SubSeqFull
<1>5. /\ DOMAIN z = 1..(n + Len(r)) /\ Len(r) \in Nat
      /\ \A i \in 1..n : i \in DOMAIN calls[c] /\ z[i] = calls[c][i]
      /\ \A i \in 1..Len(r) : z[n + i] = r[i]
    BY <1>1, <1>4, Places
<1> QED BY <1>2, <1>3, <1>5 DEF Becomes

LEMMA CalledBecomes ==
    ASSUME Typed, NEW c \in Greenlets, NEW r \in Seq(Calls), calls' = Called(c, r)
    PROVE  Becomes(c, Len(calls[c]), r)
<1>1. calls'[c] = calls[c] \o r /\ OthersKept(c)
    BY CalledOwned
<1> QED BY <1>1, AddedBecomes

LEMMA FrontBecomes ==
    ASSUME Typed, NEW c \in Greenlets, calls[c] # <<>>, NEW r \in Seq(Calls),
           calls'[c] = Front(calls[c]) \o r, OthersKept(c)
    PROVE  Becomes(c, Len(calls[c]) - 1, r)
<1>1. calls[c] \in Seq(Calls)
    BY DEF Typed
<1>2. PICK n \in 0..Len(calls[c]) : n = Len(calls[c]) - 1
    <2>1. Len(calls[c]) - 1 \in 0..Len(calls[c])
        BY <1>1, EmptySeq
    <2> QED BY <2>1
<1>3. PICK z : z = calls'[c]
    OBVIOUS
<1>4. z = SubSeq(calls[c], 1, n) \o r
    BY <1>2, <1>3 DEF Front
<1>5. /\ DOMAIN z = 1..(n + Len(r)) /\ Len(r) \in Nat
      /\ \A i \in 1..n : i \in DOMAIN calls[c] /\ z[i] = calls[c][i]
      /\ \A i \in 1..Len(r) : z[n + i] = r[i]
    BY <1>1, <1>4, Places
<1> QED BY <1>2, <1>3, <1>5 DEF Becomes

LEMMA ReplacedBecomes ==
    ASSUME Typed, NEW c \in Greenlets, calls[c] # <<>>, NEW r \in Seq(Calls),
           calls' = Replaced(c, r)
    PROVE  Becomes(c, Len(calls[c]) - 1, r)
<1>1. calls'[c] = Front(calls[c]) \o r /\ OthersKept(c)
    BY ReplacedOwned
<1> QED BY <1>1, FrontBecomes

\* Each call was there before, in its place, or is one of r.
LEMMA Origin ==
    ASSUME NEW c \in Greenlets, NEW n, NEW r, Becomes(c, n, r),
           NEW h \in Greenlets, NEW i \in DOMAIN calls'[h]
    PROVE  \/ i \in DOMAIN calls[h] /\ calls'[h][i] = calls[h][i] /\ (h = c => i <= n)
           \/ h = c /\ \E k \in 1..Len(r) : i = n + k /\ calls'[h][i] = r[k]
<1>1. CASE h # c
    <2>1. calls'[h] = calls[h] \/ calls'[h] = <<>>
        BY <1>1 DEF Becomes, OthersKept
    <2>2. calls'[h] # <<>>
        OBVIOUS
    <2> QED BY <1>1, <2>1, <2>2
<1>2. CASE h = c
    <2>1. n \in Nat /\ i \in 1..(n + Len(r)) /\ Len(r) \in Nat
        <3>1. n \in 0..Len(calls[c]) /\ r \in Seq(Calls)
            BY DEF Becomes
        <3>2. n \in Nat
            BY <3>1
        <3> QED BY <1>2, <3>1, <3>2 DEF Becomes
    <2>2. CASE i <= n
        BY <1>2, <2>1, <2>2 DEF Becomes
    <2>3. CASE i > n
        <3>1. PICK k \in 1..Len(r) : i = n + k
            <4>1. i - n \in 1..Len(r) /\ i = n + (i - n)
                BY <2>1, <2>3
            <4> QED BY <4>1
        <3> QED BY <1>2, <3>1 DEF Becomes
    <2> QED BY <2>1, <2>2, <2>3
<1> QED BY <1>1, <1>2

-----------------------------------------------------------------------------
(* What kills, lists and dying greenlets rely on. *)

\* A greenlet that nothing but the list that it is on, and calls, can refer to
Unnamed(g) ==
    /\ \A x \in Greenlets : parent[x] # g /\ g \notin attr[x]
    /\ \A h \in Holders : g \notin held[h]
    /\ \A u \in Threads : current[u] # g

\* What is on the list of a thread that runs, or has no weak reference, stays as it was
\* when it was parked.
AsParked(t, g) == home[g] = MainOf[t] /\ life[g] \in {"active", "dead"}
ParkOK(t, g) ==
    /\ thread[t] # "destroyed" /\ g \notin Mains
    /\ \A u \in Threads \ {t} : g \notin deleteme[u]
    /\ thread[t] = "running" \/ g \notin Weak => AsParked(t, g)
    /\ g \notin Weak => Unnamed(g)
ParkInv == \A t \in Threads : \A g \in deleteme[t] : ParkOK(t, g)

\* g is on a list that is being cleared.
Listing(g) ==
    \E h \in Greenlets : \E i \in DOMAIN calls[h] : calls[h][i].op = "clear" /\ g \in calls[h][i].todo

\* A kill is in the thread of the greenlet that it interrupts.
KillOK(h, g) == Linked(h) => MainFor(h) = MainFor(g) /\ life[g] \in {"active", "dead"}

CareOK(h, i, call) ==
    /\ call.op = "finish" => i = 1
    /\ call.op = "destroy" => deleteme[call.state] = {}
    /\ call.op = "clear" => \A u \in Threads : call.todo \cap deleteme[u] = {}
    /\ call.op = "kill" =>
           /\ call.of \notin Mains /\ ~Listing(call.of)
           /\ \A u \in Threads : call.of \notin deleteme[u] /\ (call.old \in deleteme[u] => call.old \in Weak)
           /\ KillOK(h, call.of)
CareCalls == \A h \in Greenlets : \A i \in DOMAIN calls[h] : CareOK(h, i, calls[h][i])

\* Whoever runs is at home in its thread, or has lost its home.
HomeInv == \A t \in Threads : thread[t] = "running" => MainFor(current[t]) \in {MainOf[t], NoOne}

\* A greenlet that is not started has no calls, nor has one that is dead and does not run.
Idle(g) == life[g] \in {"none", "new"} \/ (life[g] = "dead" /\ ~Runs(g))
IdleInv == \A g \in Greenlets : Idle(g) => calls[g] = <<>>

\* The last call of a dead greenlet is on its way to another one.
Leaving(d) == (d.op = "switch" /\ d.dying) \/ d.op \in {"start", "stack", "jump"}
LeavingInv ==
    \A g \in Greenlets : Runs(g) /\ life[g] = "dead" => 1 \in DOMAIN calls[g] /\ Leaving(calls[g][1])

CareInv == CareCalls /\ ParkInv /\ HomeInv /\ IdleInv /\ LeavingInv
Cared == fault = "none" => CareInv
LifeInv == RefInv /\ Cared

\* Calls that neither kill nor finish nor destroy; the lists that they clear are within S.
Tame(r, S) ==
    /\ r \in Seq(Calls)
    /\ \A k \in 1..Len(r) : /\ r[k].op \notin {"kill", "finish", "destroy"}
                            /\ r[k].op = "clear" => r[k].todo \subseteq S

LEMMA TameEmpty == Tame(<<>>, {})
<1>1. <<>> \in Seq(Calls) /\ 1..Len(<<>>) = {}
    OBVIOUS
<1> QED BY <1>1 DEF Tame

LEMMA TameOne ==
    ASSUME NEW call \in Calls, NEW S,
           call.op \notin {"kill", "finish", "destroy"}, call.op = "clear" => call.todo \subseteq S
    PROVE  /\ Tame(<<call>>, S) /\ <<call>> \in Seq(Calls)
           /\ Len(<<call>>) = 1 /\ <<call>>[1] = call
<1>1. <<call>> \in Seq(Calls) /\ Len(<<call>>) = 1 /\ <<call>>[1] = call
    OBVIOUS
<1>2. \A k \in 1..Len(<<call>>) : k = 1
    BY <1>1
<1> QED BY <1>1, <1>2 DEF Tame

LEMMA TameConcat ==
    ASSUME NEW r, NEW s, NEW S, Tame(r, S), Tame(s, S)
    PROVE  Tame(r \o s, S)
<1>1. r \in Seq(Calls) /\ s \in Seq(Calls)
    BY DEF Tame
<1>2. PICK z \in Seq(Calls) :
          /\ z = r \o s /\ Len(z) = Len(r) + Len(s)
          /\ \A i \in 1..(Len(r) + Len(s)) : z[i] = IF i <= Len(r) THEN r[i] ELSE s[i - Len(r)]
    BY <1>1, Joined
<1>3. ASSUME NEW k \in 1..Len(z)
      PROVE  \/ \E i \in 1..Len(r) : z[k] = r[i]
             \/ \E i \in 1..Len(s) : z[k] = s[i]
    <2>1. Len(r) \in Nat /\ Len(s) \in Nat /\ k \in 1..(Len(r) + Len(s))
        BY <1>1, <1>2
    <2>2. CASE k <= Len(r)
        BY <1>2, <2>1, <2>2
    <2>3. CASE ~(k <= Len(r))
        <3>1. PICK i \in 1..Len(s) : i = k - Len(r)
            <4>1. k - Len(r) \in 1..Len(s)
                BY <2>1, <2>3
            <4> QED BY <4>1
        <3> QED BY <1>2, <2>1, <2>3, <3>1
    <2> QED BY <2>2, <2>3
<1> QED BY <1>2, <1>3 DEF Tame

LEMMA TameWithin ==
    ASSUME NEW r, NEW S, Tame(r, S), NEW T, S \subseteq T
    PROVE  Tame(r, T)
BY DEF Tame

LEMMA TameDropping ==
    ASSUME NEW s \in Seq(Greenlets)
    PROVE  Tame(Dropping(s), {})
<1>1. CASE s = <<>>
    BY <1>1, TameEmpty DEF Dropping
<1>2. CASE s # <<>>
    <2>1. PICK call : call = [op |-> "drop", todo |-> s]
        OBVIOUS
    <2>2. call \in Calls /\ call.op = "drop"
        BY <1>2, <2>1 DEF Calls
    <2> QED BY <1>2, <2>1, <2>2, TameOne DEF Dropping
<1> QED BY <1>1, <1>2

LEMMA TameClearing ==
    ASSUME NEW S \in SUBSET Greenlets, NEW murder \in BOOLEAN
    PROVE  Tame(Clearing(S, murder), S)
<1>1. CASE S = {}
    BY <1>1, TameEmpty DEF Clearing
<1>2. CASE S # {}
    <2>1. PICK call : call = [op |-> "clear", todo |-> S, murder |-> murder]
        OBVIOUS
    <2>2. call \in Calls /\ call.op = "clear" /\ call.todo = S
        BY <1>2, <2>1 DEF Calls
    <2> QED BY <1>2, <2>1, <2>2, TameOne DEF Clearing
<1> QED BY <1>1, <1>2

\* The reference that Present() gives, and those of a list
LEMMA PresentListed ==
    ASSUME NEW g \in Greenlets \cup {NoOne}
    PROVE  Present(g) \in Seq(Greenlets)
<1>1. <<>> \in Seq(Greenlets)
    OBVIOUS
<1>2. g # NoOne => <<g>> \in Seq(Greenlets)
    OBVIOUS
<1> QED BY <1>1, <1>2 DEF Present

-----------------------------------------------------------------------------
(* What keeps each part. *)

LEMMA HomeKept ==
    ASSUME HomeInv, RunnersStay,
           \A x \in Greenlets : Runs(x) => MainFor(x)' \in {MainFor(x), NoOne},
           \A t \in Threads : thread[t] = "running" => current[t] \in Greenlets
    PROVE  HomeInv'
<1> SUFFICES ASSUME NEW t \in Threads, thread'[t] = "running"
             PROVE  MainFor(current[t])' \in {MainOf[t], NoOne}
    BY DEF HomeInv
<1>1. thread[t] = "running" /\ current'[t] = current[t] /\ current[t] \in Greenlets
    BY DEF RunnersStay
<1>2. Runs(current[t])
    BY <1>1 DEF Runs
<1>3. PICK x \in Greenlets : x = current[t]
    BY <1>1
<1>4. MainFor(x)' \in {MainFor(x), NoOne} /\ MainFor(x) \in {MainOf[t], NoOne}
    BY <1>1, <1>2, <1>3 DEF HomeInv
<1> QED BY <1>1, <1>3, <1>4 DEF MainFor

\* Only the current greenlet gets calls, and it is not idle.
LEMMA IdleKept ==
    ASSUME IdleInv, NEW c \in Greenlets, OthersKept(c), ~Idle(c)',
           \A g \in Greenlets \ {c} : Idle(g)' => Idle(g) \/ calls'[g] = <<>>
    PROVE  IdleInv'
BY DEF IdleInv, OthersKept

LEMMA LeavingKept ==
    ASSUME LeavingInv, NEW c \in Greenlets, NEW n, NEW r, Becomes(c, n, r), RunnersStay,
           \A x \in Greenlets \ {c} :
               Runs(x) /\ life'[x] = "dead" => life[x] = "dead" /\ calls'[x] = calls[x],
           life'[c] = "dead" => (n >= 1 /\ life[c] = "dead") \/ (Len(r) >= 1 /\ n = 0 /\ Leaving(r[1]))
    PROVE  LeavingInv'
<1> SUFFICES ASSUME NEW g \in Greenlets, Runs(g)', life'[g] = "dead"
             PROVE  1 \in DOMAIN calls'[g] /\ Leaving(calls'[g][1])
    BY DEF LeavingInv
<1>1. Runs(g)
    BY DEF Runs, RunnersStay
<1>2. CASE g # c
    BY <1>1, <1>2 DEF LeavingInv
<1>3. CASE g = c /\ n >= 1 /\ life[c] = "dead"
    <2>1. n \in Nat /\ Len(r) \in Nat /\ DOMAIN calls'[c] = 1..(n + Len(r))
        <3>1. n \in 0..Len(calls[c]) /\ Len(r) \in Nat /\ DOMAIN calls'[c] = 1..(n + Len(r))
            BY DEF Becomes
        <3> QED BY <3>1
    <2>2. 1 \in 1..n /\ 1 \in 1..(n + Len(r))
        BY <1>3, <2>1
    <2>3. calls'[c][1] = calls[c][1]
        BY <2>2 DEF Becomes
    <2> QED BY <1>1, <1>3, <2>1, <2>2, <2>3 DEF LeavingInv
<1>4. CASE g = c /\ Len(r) >= 1 /\ n = 0 /\ Leaving(r[1])
    <2>1. Len(r) \in Nat /\ DOMAIN calls'[c] = 1..(n + Len(r))
        BY DEF Becomes
    <2>2. 1 \in 1..Len(r) /\ 1 \in 1..(n + Len(r)) /\ n + 1 = 1
        BY <1>4, <2>1
    <2>3. calls'[c][n + 1] = r[1]
        BY <2>2 DEF Becomes
    <2> QED BY <1>4, <2>1, <2>2, <2>3
<1> QED BY <1>2, <1>3, <1>4

\* The greenlets N are parked: no call is about them.
Unowned(N) ==
    \A h \in Greenlets : \A i \in DOMAIN calls[h] :
        /\ calls[h][i].op = "clear" => calls[h][i].todo \cap N = {}
        /\ calls[h][i].op = "kill" => calls[h][i].of \notin N /\ calls[h][i].old \notin N
        /\ calls[h][i].op = "destroy" => thread[calls[h][i].state] # "running"

\* The lists lose greenlets, or get those of N.
ListsKept(N) ==
    \A u \in Threads : \A x \in deleteme'[u] : x \in deleteme[u] \/ (x \in N /\ thread[u] = "running")

\* The greenlets S go from their lists to a call that clears them, or have got there before.
Passing(S) ==
    \A x \in S : /\ Listing(x) \/ \E u \in Threads : x \in deleteme[u]
                 /\ \A u \in Threads : x \notin deleteme'[u]

\* The kills that go on are in their threads still.
KillsKept ==
    \A h \in Greenlets : \A i \in DOMAIN calls[h] : \A g \in Greenlets :
        /\ calls[h][i].op = "kill" /\ calls[h][i].of = g /\ calls'[h] # <<>> /\ KillOK(h, g)
        => KillOK(h, g)'

\* Each call was there before in its place, or is careful; lists are swapped out from S.
Careful(S) ==
    \A h \in Greenlets : \A i \in DOMAIN calls'[h] :
        \/ i \in DOMAIN calls[h] /\ calls'[h][i] = calls[h][i]
        \/ /\ calls'[h][i].op = "clear" => calls'[h][i].todo \subseteq S
           /\ calls'[h][i].op \in {"finish", "destroy", "kill"} => CareOK(h, i, calls[h][i])'

LEMMA CareCallsKept ==
    ASSUME Typed, CareCalls, NEW S, Careful(S), Passing(S),
           NEW N, Unowned(N), ListsKept(N), S \cap N = {}, KillsKept
    PROVE  CareCalls'
<1> SUFFICES ASSUME NEW h \in Greenlets, NEW i \in DOMAIN calls'[h],
                    NEW d, d = calls'[h][i]
             PROVE  CareOK(h, i, d)'
    BY DEF CareCalls, CareOK
<1>1. \/ i \in DOMAIN calls[h] /\ d = calls[h][i] /\ calls'[h] # <<>>
      \/ /\ d.op = "clear" => d.todo \subseteq S
         /\ d.op \in {"finish", "destroy", "kill"} => CareOK(h, i, d)'
    <2>1. calls'[h] # <<>>
        OBVIOUS
    <2> QED BY <2>1 DEF Careful, CareOK
<1>2. ASSUME NEW x \in Greenlets, Listing(x)' PROVE Listing(x) \/ x \in S
    <2>0. PICK k \in Greenlets : \E j \in DOMAIN calls'[k] :
              calls'[k][j].op = "clear" /\ x \in calls'[k][j].todo
        BY <1>2 DEF Listing
    <2>1. PICK j \in DOMAIN calls'[k] : calls'[k][j].op = "clear" /\ x \in calls'[k][j].todo
        BY <2>0
    <2>2. \/ j \in DOMAIN calls[k] /\ calls'[k][j] = calls[k][j]
          \/ calls'[k][j].todo \subseteq S
        BY <2>1 DEF Careful
    <2> QED BY <2>1, <2>2 DEF Listing
<1>3. CASE /\ d.op = "clear" => d.todo \subseteq S
           /\ d.op \in {"finish", "destroy", "kill"} => CareOK(h, i, d)'
    <2>1. CASE d.op \in {"finish", "destroy", "kill"}
        BY <1>3, <2>1
    <2>2. CASE d.op = "clear"
        BY <1>3, <2>2 DEF CareOK, Passing
    <2> QED BY <2>1, <2>2 DEF CareOK
<1>4. CASE i \in DOMAIN calls[h] /\ d = calls[h][i] /\ calls'[h] # <<>>
    <2>0. CareOK(h, i, d) /\ d \in Calls
        <3>1. calls[h] \in Seq(Calls)
            BY DEF Typed
        <3>2. d \in Calls
            BY <1>4, <3>1
        <3> QED BY <1>4, <3>2 DEF CareCalls
    <2>1. CASE d.op = "finish"
        BY <2>0, <2>1 DEF CareOK
    <2>2. CASE d.op = "destroy"
        <3>1. d.state \in Threads /\ deleteme[d.state] = {} /\ thread[d.state] # "running"
            BY <1>4, <2>0, <2>2, CallKinds DEF CareOK, Unowned
        <3>2. deleteme'[d.state] = {}
            BY <3>1 DEF ListsKept
        <3> QED BY <2>2, <3>2 DEF CareOK
    <2>3. CASE d.op = "clear"
        <3>1. \A u \in Threads : d.todo \cap deleteme[u] = {}
            BY <2>0, <2>3 DEF CareOK
        <3>2. d.todo \cap N = {}
            BY <1>4, <2>3 DEF Unowned
        <3>3. \A u \in Threads : d.todo \cap deleteme'[u] = {}
            BY <3>1, <3>2 DEF ListsKept
        <3> QED BY <2>3, <3>3 DEF CareOK
    <2>4. CASE d.op = "kill"
        <3>1. /\ d.of \notin Mains /\ ~Listing(d.of) /\ KillOK(h, d.of)
              /\ \A u \in Threads : d.of \notin deleteme[u] /\ (d.old \in deleteme[u] => d.old \in Weak)
            BY <2>0, <2>4 DEF CareOK
        <3>2. d.of \notin N /\ d.old \notin N /\ d.of \in Greenlets
            BY <1>4, <2>0, <2>4, CallKinds DEF Unowned
        <3>3. KillOK(h, d.of)'
            BY <1>4, <2>4, <3>1, <3>2 DEF KillsKept
        <3>4. ~Listing(d.of)'
            BY <1>2, <3>1, <3>2 DEF Passing
        <3>5. \A u \in Threads : /\ d.of \notin deleteme'[u]
                                 /\ d.old \in deleteme'[u] => d.old \in Weak
            BY <3>1, <3>2 DEF ListsKept
        <3> QED BY <2>4, <3>1, <3>3, <3>4, <3>5 DEF CareOK
    <2> QED BY <2>1, <2>2, <2>3, <2>4 DEF CareOK
<1> QED BY <1>1, <1>3, <1>4

\* The calls r are careful, and so is what becomes of all calls.
CarefulCalls(c, n, r, S) ==
    \A k \in 1..Len(r) :
        /\ r[k].op = "clear" => r[k].todo \subseteq S
        /\ r[k].op \in {"finish", "destroy", "kill"} => CareOK(c, n + k, r[k])'

LEMMA BecomesCareful ==
    ASSUME NEW c \in Greenlets, NEW n, NEW r, Becomes(c, n, r), NEW S, CarefulCalls(c, n, r, S)
    PROVE  Careful(S)
<1> SUFFICES ASSUME NEW h \in Greenlets, NEW i \in DOMAIN calls'[h], NEW d, d = calls'[h][i],
                    ~(i \in DOMAIN calls[h] /\ d = calls[h][i])
             PROVE  /\ d.op = "clear" => d.todo \subseteq S
                    /\ d.op \in {"finish", "destroy", "kill"} => CareOK(h, i, d)'
    BY DEF Careful, CareOK
<1>1. PICK k \in 1..Len(r) : h = c /\ i = n + k /\ d = r[k]
    BY Origin
<1> QED BY <1>1 DEF CarefulCalls

\* A list that keeps a greenlet stays a list of a thread that has a state.
ParkedKept ==
    \A t \in Threads : \A g \in deleteme'[t] :
        \/ /\ g \in deleteme[t] /\ \A u \in Threads \ {t} : g \in deleteme'[u] => g \in deleteme[u]
           /\ thread'[t] # "destroyed" /\ (thread'[t] = "running" => thread[t] = "running")
           /\ thread'[t] = "running" \/ g \notin Weak => (AsParked(t, g) => AsParked(t, g)')
           /\ g \notin Weak /\ Unnamed(g) /\ AsParked(t, g) => Unnamed(g)'
        \/ ParkOK(t, g)'

LEMMA ParkKept ==
    ASSUME ParkInv, ParkedKept
    PROVE  ParkInv'
<1> SUFFICES ASSUME NEW t \in Threads, NEW g \in deleteme'[t], ~ParkOK(t, g)' PROVE FALSE
    BY DEF ParkInv
<1>1. /\ g \in deleteme[t] /\ \A u \in Threads \ {t} : g \in deleteme'[u] => g \in deleteme[u]
      /\ thread'[t] # "destroyed" /\ (thread'[t] = "running" => thread[t] = "running")
      /\ thread'[t] = "running" \/ g \notin Weak => (AsParked(t, g) => AsParked(t, g)')
      /\ g \notin Weak /\ Unnamed(g) /\ AsParked(t, g) => Unnamed(g)'
    BY DEF ParkedKept
<1>2. ParkOK(t, g)
    BY <1>1 DEF ParkInv
<1> QED BY <1>1, <1>2 DEF ParkOK

\* What becomes of kills.  The greenlet h can never go on, and is left without calls.
Unwound(h) == calls'[h] = <<>> /\ life[h] = "active" /\ ~Linked(h)
NoNewKills ==
    \A h \in Greenlets : \A i \in DOMAIN calls'[h] :
        calls'[h][i].op = "kill" => i \in DOMAIN calls[h] /\ calls'[h][i] = calls[h][i]
KillsStay ==
    \A h \in Greenlets : \A i \in DOMAIN calls[h] :
        calls[h][i].op = "kill" => \/ i \in DOMAIN calls'[h] /\ calls'[h][i] = calls[h][i]
                                   \/ Unwound(h)
KillsSame == NoNewKills /\ KillsStay
KillsSameAfter(op) == op # "kill" => KillsSame

NoKills(r) == \A k \in 1..Len(r) : r[k].op # "kill"

\* A kill remains on the stack of c, unless it is the call that is replaced.
LastStays(c, n) ==
    \/ n = Len(calls[c])
    \/ calls[c] # <<>> /\ n = Len(calls[c]) - 1 /\ Last(calls[c]).op # "kill"

LEMMA CallStays ==
    ASSUME Typed, NEW c \in Greenlets, NEW n, NEW r, Becomes(c, n, r), NEW i \in DOMAIN calls[c],
           n = Len(calls[c]) \/ (n = Len(calls[c]) - 1 /\ i # Len(calls[c]))
    PROVE  i \in DOMAIN calls'[c] /\ calls'[c][i] = calls[c][i]
<1>1. PICK s \in Seq(Calls) : s = calls[c]
    BY DEF Typed
<1>2. PICK m \in Nat : m = Len(s) /\ DOMAIN s = 1..m
    OBVIOUS
<1>3. PICK l \in Nat : l = Len(r)
    BY DEF Becomes
<1>4. n \in 0..m /\ DOMAIN calls'[c] = 1..(n + l)
    BY <1>1, <1>2, <1>3 DEF Becomes
<1>5. i \in 1..m /\ (n = m \/ (n = m - 1 /\ i # m))
    BY <1>1, <1>2
<1>6. i \in 1..n /\ i \in 1..(n + l)
    BY <1>3, <1>4, <1>5
<1>7. calls'[c][i] = calls[c][i]
    BY <1>6 DEF Becomes
<1> QED BY <1>4, <1>6, <1>7

LEMMA BecomesKills ==
    ASSUME Typed, NEW c \in Greenlets, NEW n, NEW r, Becomes(c, n, r), NoKills(r), LastStays(c, n),
           \A h \in Greenlets \ {c} : calls'[h] = calls[h] \/ Unwound(h)
    PROVE  KillsSame
<1>1. ASSUME NEW h \in Greenlets, NEW i \in DOMAIN calls'[h], calls'[h][i].op = "kill"
      PROVE  i \in DOMAIN calls[h] /\ calls'[h][i] = calls[h][i]
    <2>1. \/ i \in DOMAIN calls[h] /\ calls'[h][i] = calls[h][i]
          \/ \E k \in 1..Len(r) : calls'[h][i] = r[k]
        BY Origin
    <2> QED BY <1>1, <2>1 DEF NoKills
<1>2. ASSUME NEW h \in Greenlets, NEW i \in DOMAIN calls[h], calls[h][i].op = "kill", ~Unwound(h)
      PROVE  i \in DOMAIN calls'[h] /\ calls'[h][i] = calls[h][i]
    <2>1. CASE h = c
        <3>1. calls[c] \in Seq(Calls)
            BY DEF Typed
        <3>2. Last(calls[c]) = calls[c][Len(calls[c])]
            BY DEF Last
        <3>3. n = Len(calls[c]) \/ (n = Len(calls[c]) - 1 /\ i # Len(calls[c]))
            BY <1>2, <2>1, <3>2 DEF LastStays
        <3> QED BY <2>1, <3>3, CallStays
    <2>2. CASE h # c
        BY <1>2, <2>2
    <2> QED BY <2>1, <2>2
<1> QED BY <1>1, <1>2 DEF KillsSame, NoNewKills, KillsStay

-----------------------------------------------------------------------------
(* Greenlets that no call owns. *)

\* No call on a stack has a reference to g that it will drop.
Disowned(g) ==
    \A h \in Greenlets : \A i \in DOMAIN calls[h] : \A o \in Owned(calls[h][i]) : o[2] # g

LEMMA OwnedNowhere ==
    ASSUME Typed, NEW g, OwnedIn(calls, Greenlets, g) = 0
    PROVE  Disowned(g)
<1>1. PICK cs \in [Greenlets -> Seq(Calls)] : cs = calls
    BY DEF Typed
<1>2. IsFiniteSet(TokensIn(cs, Greenlets, g))
    <2>1. Greenlets \in SUBSET Greenlets
        OBVIOUS
    <2> QED BY <2>1, TokensInFinite
<1>3. TokensIn(cs, Greenlets, g) = {}
    BY <1>1, <1>2, FS_EmptySet DEF OwnedIn
<1> SUFFICES ASSUME NEW h \in Greenlets, NEW i \in DOMAIN calls[h], NEW o \in Owned(calls[h][i]),
                    o[2] = g
             PROVE  FALSE
    BY DEF Disowned
<1>4. <<i, o>> \in Tokens(cs[h], g)
    <2>1. <<i, o>> \in {i} \X {p \in Owned(cs[h][i]) : p[2] = g}
        BY <1>1
    <2>2. i \in DOMAIN cs[h]
        BY <1>1
    <2> QED BY <2>1, <2>2 DEF Tokens
<1>5. <<h, <<i, o>>>> \in TokensIn(cs, Greenlets, g)
    <2>1. <<h, <<i, o>>>> \in {h} \X Tokens(cs[h], g)
        BY <1>4
    <2> QED BY <2>1 DEF TokensIn
<1> QED BY <1>3, <1>5

\* No kill is about g or will put it back as a parent, and g is on no list that is cleared.
LEMMA DisownedCalls ==
    ASSUME NEW g, Disowned(g), NEW h \in Greenlets, NEW i \in DOMAIN calls[h]
    PROVE  /\ calls[h][i].op = "clear" => g \notin calls[h][i].todo
           /\ calls[h][i].op \in {"kill", "undo"} => calls[h][i].of # g
           /\ calls[h][i].op = "kill" => calls[h][i].old # g
<1>1. PICK d : d = calls[h][i]
    OBVIOUS
<1>2. \A o \in Owned(d) : o[2] # g
    BY <1>1 DEF Disowned
<1>3. ASSUME d.op = "clear", g \in d.todo PROVE FALSE
    <2>1. <<0, g>> \in Owned(d)
        BY <1>3 DEF Owned
    <2> QED BY <1>2, <2>1
<1>4. ASSUME d.op \in {"kill", "undo"}, d.of = g PROVE FALSE
    <2>1. <<1, g>> \in Owned(d)
        BY <1>4 DEF Owned
    <2> QED BY <1>2, <2>1
<1>5. ASSUME d.op = "kill", d.old = g PROVE FALSE
    <2>1. <<2, g>> \in Owned(d)
        BY <1>5 DEF Owned
    <2> QED BY <1>2, <2>1
<1> QED BY <1>1, <1>3, <1>4, <1>5

\* Nobody refers to a greenlet whose count is 0.
LEMMA ZeroCount ==
    ASSUME Typed, NEW g \in Greenlets, rc[g] = References(g), rc[g] = 0
    PROVE  Disowned(g) /\ Unnamed(g) /\ \A t \in Threads : g \notin deleteme[t]
<1>1. OwnedIn(calls, Greenlets, g) = 0
    <2>1. Natural(g)
        BY RefsNat
    <2>2. OwnedIn(calls, Greenlets, g) \in Nat /\ OwnedIn(calls, Greenlets, g) <= rc[g]
        BY <2>1 DEF References, Natural
    <2> QED BY <2>2
<1>2. /\ \A c \in Greenlets : parent[c] # g /\ g \notin attr[c]
      /\ \A h \in Holders : g \notin held[h]
      /\ \A t \in Threads : current[t] # g /\ g \notin deleteme[t]
    <2>1. ~(rc[g] >= 1)
        OBVIOUS
    <2>2. /\ \A c \in Greenlets : (parent[c] = g => rc[g] >= 1) /\ (g \in attr[c] => rc[g] >= 1)
          /\ \A h \in Holders : g \in held[h] => rc[g] >= 1
          /\ \A t \in Threads : (current[t] = g => rc[g] >= 1) /\ (g \in deleteme[t] => rc[g] >= 1)
        BY Counted
    <2> QED BY <2>1, <2>2
<1> QED BY <1>1, <1>2, OwnedNowhere DEF Unnamed

\* All references to what the garbage collector takes are those that it sees.
LEMMA VisitedOnly ==
    ASSUME Typed, NEW S \in SUBSET Greenlets, NEW x \in S,
           rc[x] = References(x), rc[x] = Visited(S, x)
    PROVE  Disowned(x) /\ \A t \in Threads : current[t] # x /\ x \notin deleteme[t]
<1>1. /\ DOMAIN parent = Greenlets /\ DOMAIN home = Greenlets /\ DOMAIN attr = Greenlets
      /\ DOMAIN deleteme = Threads /\ IsFiniteSet(Greenlets) /\ IsFiniteSet(Threads)
    BY FiniteAssumption DEF Typed
<1>2. /\ Part(parent, S, x) \in Nat /\ Part(parent, S, x) <= Pointing(parent, x)
      /\ Part(home, S, x) \in Nat /\ Part(home, S, x) <= Pointing(home, x)
      /\ Share(attr, S, x) \in Nat /\ Share(attr, S, x) <= Holding(attr, x)
    BY <1>1, PartAtMost
<1>3. Visited(S, x) = Part(parent, S, x) + Part(home, S, x) + Share(attr, S, x)
    BY DEF Visited, Part, Share
<1>4. Natural(x)
    BY RefsNat
<1>5. OwnedIn(calls, Greenlets, x) = 0 /\ Holding(deleteme, x) = 0
    <2>1. PICK n \in Nat : n = OwnedIn(calls, Greenlets, x)
        BY <1>4 DEF Natural
    <2>2. PICK m \in Nat : m = Holding(deleteme, x)
        BY <1>4 DEF Natural
    <2>3. n + m + Visited(S, x) <= rc[x] /\ Visited(S, x) \in Nat
        BY <1>2, <1>3, <1>4, <2>1, <2>2, SMTT(30) DEF References, Natural
    <2>4. n = 0 /\ m = 0
        BY <2>3
    <2> QED BY <2>1, <2>2, <2>4
<1>6. ASSUME NEW t \in Threads, x \in deleteme[t] PROVE FALSE
    <2>1. t \in {u \in Threads : x \in deleteme[u]}
        BY <1>6
    <2>2. {u \in Threads : x \in deleteme[u]} \in SUBSET Threads
        OBVIOUS
    <2>3. Holding(deleteme, x) >= 1
        BY <1>1, <2>1, <2>2, Positive DEF Holding
    <2> QED BY <1>5, <2>3
<1> QED BY <1>5, <1>6, OwnedNowhere, VisitedIdle

\* A greenlet that no call owns, and that is on no list, is not on a list being cleared.
LEMMA DisownedListing ==
    ASSUME NEW g, Disowned(g)
    PROVE  ~Listing(g)
BY DisownedCalls DEF Listing

-----------------------------------------------------------------------------
(* Steps that leave lives, homes and threads alone. *)

\* The current greenlet is active, or the call that takes it away goes on.
GoesOn(c, n, r) ==
    \/ life[c] = "active"
    \/ n = Len(calls[c])
    \/ /\ calls[c] # <<>> /\ n = Len(calls[c]) - 1
       /\ ~Leaving(Last(calls[c])) \/ (Len(r) >= 1 /\ Leaving(r[1]))

LEMMA GoesOnLeaving ==
    ASSUME Typed, LeavingInv, NEW c \in Greenlets, Runs(c), NEW n, NEW r, GoesOn(c, n, r),
           life[c] = "dead"
    PROVE  n >= 1 \/ (Len(r) >= 1 /\ n = 0 /\ Leaving(r[1]))
<1>1. /\ Len(calls[c]) \in Nat /\ DOMAIN calls[c] = 1..Len(calls[c])
      /\ Last(calls[c]) = calls[c][Len(calls[c])]
    <2>1. calls[c] \in Seq(Calls)
        BY DEF Typed
    <2> QED BY <2>1 DEF Last
<1>2. Len(calls[c]) >= 1 /\ Leaving(calls[c][1])
    <2>1. 1 \in DOMAIN calls[c] /\ Leaving(calls[c][1])
        BY DEF LeavingInv
    <2> QED BY <1>1, <2>1
<1>3. n = Len(calls[c]) \/ n = Len(calls[c]) - 1
    BY DEF GoesOn
<1>4. CASE n = Len(calls[c])
    BY <1>2, <1>4
<1>5. CASE n = Len(calls[c]) - 1 /\ ~(n >= 1)
    <2>0. PICK m \in Nat : m = Len(calls[c])
        BY <1>1
    <2>1. n = 0 /\ Len(calls[c]) = 1
        <3>1. n = m - 1 /\ ~(n >= 1) /\ m >= 1
            BY <1>2, <1>5, <2>0
        <3>2. m = 1
            BY <3>1
        <3> QED BY <2>0, <3>1, <3>2
    <2>2. Len(r) >= 1 /\ Leaving(r[1])
        BY <1>1, <1>2, <2>1 DEF GoesOn
    <2> QED BY <2>1, <2>2
<1> QED BY <1>3, <1>4, <1>5

\* What becomes of the list of t, and where the greenlets S come from
ListStep(t, S) ==
    \/ S = deleteme[t] /\ deleteme' = [deleteme EXCEPT ![t] = {}]
    \/ deleteme' = deleteme /\ \A x \in S : Listing(x)

LEMMA ListStepPasses ==
    ASSUME Typed, CareCalls, ParkInv, NEW t \in Threads, NEW S, ListStep(t, S)
    PROVE  /\ Passing(S) /\ ListsKept({})
           /\ \A u \in Threads : deleteme'[u] \subseteq deleteme[u]
<1>1. CASE S = deleteme[t] /\ deleteme' = [deleteme EXCEPT ![t] = {}]
    <2>1. deleteme'[t] = {} /\ \A u \in Threads \ {t} : deleteme'[u] = deleteme[u]
        BY <1>1 DEF Typed
    <2>2. ASSUME NEW x \in S, NEW u \in Threads PROVE x \notin deleteme'[u]
        BY <1>1, <2>1 DEF ParkInv, ParkOK
    <2> QED BY <1>1, <2>1, <2>2 DEF Passing, ListsKept
<1>2. CASE deleteme' = deleteme /\ \A x \in S : Listing(x)
    <2>1. ASSUME NEW x \in S, NEW u \in Threads PROVE x \notin deleteme[u]
        BY <1>2 DEF Listing, CareCalls, CareOK
    <2> QED BY <1>2, <2>1 DEF Passing, ListsKept
<1> QED BY <1>1, <1>2 DEF ListStep

\* What is parked gets no name.
NamesKept ==
    \A u \in Threads : \A g \in deleteme[u] : g \notin Weak /\ Unnamed(g) /\ AsParked(u, g) => Unnamed(g)'

LEMMA CareKeeps ==
    ASSUME Typed, ControlInv, CareInv,
           NEW t \in Threads, thread[t] = "running", NEW c \in Greenlets, c = current[t],
           NEW n, NEW r, Becomes(c, n, r), NEW S, CarefulCalls(c, n, r, S),
           NEW w \in Threads, ListStep(w, S), GoesOn(c, n, r),
           \A h \in Greenlets \ {c} : calls'[h] = calls[h],
           UNCHANGED <<life, home, thread, current>>, NamesKept
    PROVE  CareInv'
<1>1. CareCalls /\ ParkInv /\ HomeInv /\ IdleInv /\ LeavingInv
    BY DEF CareInv
<1>2. Runs(c) /\ life[c] \in {"active", "dead"}
    BY DEF Runs, ControlInv, CurrentInv
<1>3. /\ \A x \in Greenlets : Runs(x)' <=> Runs(x)
      /\ \A x \in Greenlets : MainFor(x)' = MainFor(x)
      /\ \A x \in Greenlets : Linked(x)' <=> Linked(x)
      /\ RunnersStay
    BY DEF Runs, MainFor, Linked, RunnersStay
<1>4. Passing(S) /\ ListsKept({}) /\ \A u \in Threads : deleteme'[u] \subseteq deleteme[u]
    BY <1>1, ListStepPasses
<1>5. CareCalls'
    <2>1. Unowned({})
        <3> SUFFICES ASSUME NEW h \in Greenlets, NEW i \in DOMAIN calls[h],
                            calls[h][i].op = "destroy"
                     PROVE  thread[calls[h][i].state] # "running"
            BY DEF Unowned
        <3> QED BY DEF ControlInv, CallsInv, CallOK
    <2>2. KillsKept
        BY <1>3 DEF KillsKept, KillOK
    <2>3. Careful(S)
        BY BecomesCareful
    <2> QED BY <1>1, <1>4, <2>1, <2>2, <2>3, CareCallsKept
<1>6. ParkInv'
    <2>1. ParkedKept
        <3> SUFFICES ASSUME NEW u \in Threads, NEW g \in deleteme'[u] PROVE
                  /\ g \in deleteme[u] /\ \A v \in Threads \ {u} : g \in deleteme'[v] => g \in deleteme[v]
                  /\ thread'[u] # "destroyed" /\ (thread'[u] = "running" => thread[u] = "running")
                  /\ thread'[u] = "running" \/ g \notin Weak => (AsParked(u, g) => AsParked(u, g)')
                  /\ g \notin Weak /\ Unnamed(g) /\ AsParked(u, g) => Unnamed(g)'
            BY DEF ParkedKept
        <3>1. g \in deleteme[u] /\ ParkOK(u, g)
            BY <1>1, <1>4 DEF ParkInv
        <3> QED BY <1>4, <3>1 DEF ParkOK, AsParked, NamesKept
    <2> QED BY <1>1, <2>1, ParkKept
<1>7. HomeInv'
    BY <1>1, <1>3 DEF HomeInv, MainFor
<1>8. IdleInv'
    <2>1. \A x \in Greenlets : Idle(x)' <=> Idle(x)
        BY <1>3 DEF Idle
    <2>2. ~Idle(c)
        BY <1>2 DEF Idle
    <2> QED BY <1>1, <2>1, <2>2 DEF IdleInv
<1>9. LeavingInv'
    <2>1. life'[c] = "dead" => n >= 1 \/ (Len(r) >= 1 /\ n = 0 /\ Leaving(r[1]))
        BY <1>1, <1>2, GoesOnLeaving
    <2> QED BY <1>1, <1>3, <2>1, LeavingKept
<1> QED BY <1>5, <1>6, <1>7, <1>8, <1>9 DEF CareInv

LEMMA TameCareful ==
    ASSUME NEW c, NEW n, NEW r, NEW S, Tame(r, S)
    PROVE  CarefulCalls(c, n, r, S)
BY DEF Tame, CarefulCalls

Steady == UNCHANGED <<life, home, thread, current>>

LEMMA CalledTame ==
    ASSUME LifeInv, NEW t \in Threads, PythonRuns(t), NEW c \in Greenlets, c = current[t],
           NEW r, NEW S, Tame(r, S), calls' = Called(c, r), ListStep(t, S), Steady, NamesKept
    PROVE  CareInv' /\ KillsSame
<1>1. Typed /\ ControlInv /\ CareInv /\ thread[t] = "running"
    BY Running DEF LifeInv, Cared
<1>2. r \in Seq(Calls)
    BY DEF Tame
<1>3. Becomes(c, Len(calls[c]), r)
    BY <1>1, <1>2, CalledBecomes
<1>4. GoesOn(c, Len(calls[c]), r)
    BY DEF GoesOn
<1>5. \A h \in Greenlets \ {c} : calls'[h] = calls[h]
    BY <1>1 DEF Typed, Called
<1>6. CarefulCalls(c, Len(calls[c]), r, S)
    BY TameCareful
<1>7. CareInv'
    BY <1>1, <1>3, <1>4, <1>5, <1>6, CareKeeps DEF Steady
<1>8. KillsSame
    <2>1. NoKills(r) /\ LastStays(c, Len(calls[c]))
        BY DEF Tame, NoKills, LastStays
    <2> QED BY <1>1, <1>3, <1>5, <2>1, BecomesKills
<1> QED BY <1>7, <1>8

\* The same where nothing is called
LEMMA QuietTame ==
    ASSUME LifeInv, NEW t \in Threads, PythonRuns(t), calls' = calls, deleteme' = deleteme,
           Steady, NamesKept
    PROVE  CareInv' /\ KillsSame
<1>1. Typed /\ current[t] \in Greenlets
    BY Running DEF LifeInv
<1>2. PICK c \in Greenlets : c = current[t]
    BY <1>1
<1>3. PICK r : r = <<>> /\ r \in Seq(Calls)
    <2>1. <<>> \in Seq(Calls)
        OBVIOUS
    <2> QED BY <2>1
<1>4. calls \in [Greenlets -> Seq(Calls)] /\ calls[c] \o r = calls[c]
    <2>1. calls \in [Greenlets -> Seq(Calls)] /\ calls[c] \in Seq(Calls)
        BY <1>1 DEF Typed
    <2> QED BY <1>3, <2>1, ConcatEmptySeq
<1>5. calls' = Called(c, r)
    BY <1>4 DEF Called
<1>6. Tame(r, {})
    BY <1>3, TameEmpty
<1>7. ListStep(t, {})
    BY DEF ListStep
<1> QED BY <1>2, <1>5, <1>6, <1>7, CalledTame

LEMMA ReplacedTame ==
    ASSUME LifeInv, NEW t \in Threads, fault = "none", thread[t] = "running",
           NEW c \in Greenlets, c = current[t], calls[c] # <<>>,
           NEW r, NEW S, Tame(r, S), calls' = Replaced(c, r), ListStep(t, S), Steady, NamesKept,
           ~Leaving(Last(calls[c])) \/ (Len(r) >= 1 /\ Leaving(r[1])) \/ life[c] = "active"
    PROVE  CareInv' /\ (Last(calls[c]).op # "kill" => KillsSame)
<1>1. Typed /\ ControlInv /\ CareInv
    <2>1. Typed
        BY TypeOKTyped DEF LifeInv, RefInv
    <2> QED BY <2>1 DEF LifeInv, RefInv, Controlled, Cared
<1>2. r \in Seq(Calls)
    BY DEF Tame
<1>3. Becomes(c, Len(calls[c]) - 1, r)
    BY <1>1, <1>2, ReplacedBecomes
<1>4. GoesOn(c, Len(calls[c]) - 1, r)
    BY DEF GoesOn
<1>5. \A h \in Greenlets \ {c} : calls'[h] = calls[h]
    BY <1>1 DEF Typed, Replaced
<1>6. CarefulCalls(c, Len(calls[c]) - 1, r, S)
    BY TameCareful
<1>7. CareInv'
    BY <1>1, <1>3, <1>4, <1>5, <1>6, CareKeeps DEF Steady
<1>8. ASSUME Last(calls[c]).op # "kill" PROVE KillsSame
    <2>1. NoKills(r) /\ LastStays(c, Len(calls[c]) - 1)
        BY <1>8 DEF Tame, NoKills, LastStays
    <2> QED BY <1>1, <1>3, <1>5, <2>1, BecomesKills
<1> QED BY <1>7, <1>8

\* The greenlets of a list are swapped out for a call that clears it.
LEMMA TameList ==
    ASSUME Typed, NEW t \in Threads, NEW call \in Calls,
           call.op \notin {"kill", "finish", "destroy", "clear"}
    PROVE  /\ Tame(<<call>> \o Clearing(deleteme[t], FALSE), deleteme[t])
           /\ Len(<<call>> \o Clearing(deleteme[t], FALSE)) >= 1
           /\ (<<call>> \o Clearing(deleteme[t], FALSE))[1] = call
<1>1. PICK S \in SUBSET Greenlets : S = deleteme[t]
    BY DEF Typed
<1>2. Tame(<<call>>, S)
    BY TameOne
<1>3. Tame(Clearing(S, FALSE), S) /\ IsQuiet(Clearing(S, FALSE))
    BY TameClearing, QuietClearing
<1>4. Tame(<<call>> \o Clearing(S, FALSE), S)
    BY <1>2, <1>3, TameConcat
<1>5. Len(<<call>> \o Clearing(S, FALSE)) >= 1 /\ (<<call>> \o Clearing(S, FALSE))[1] = call
    <2>1. PICK s : s = Clearing(S, FALSE) /\ IsQuiet(s)
        BY <1>3
    <2>2. 1 \in 1..Len(<<call>> \o s) /\ (<<call>> \o s)[1] = call
        BY <2>1, FirstThen
    <2>3. PICK z \in Seq(Calls) : z = <<call>> \o s
        BY <2>1, FirstThen
    <2>4. Len(z) >= 1
        BY <2>2, <2>3
    <2> QED BY <2>1, <2>2, <2>3, <2>4
<1> QED BY <1>1, <1>4, <1>5

\* Nothing refers to what was not referred to.
LEMMA NamesSteady ==
    ASSUME UNCHANGED <<parent, attr, current>>, \A h \in Holders : held'[h] \subseteq held[h]
    PROVE  NamesKept
BY DEF NamesKept, Unnamed

\* Python code cannot get hold of what is parked, unless there is a weak reference to it.
LEMMA ParkedNameless ==
    ASSUME RefInv, NEW t \in Threads, PythonRuns(t), NEW g \in Greenlets \ Weak, Unnamed(g)
    PROVE  g \notin Names(t)
<1>1. current[t] \in Greenlets /\ Typed
    BY Running
<1>2. g \notin held[current[t]] \cup held[Globals] \cup {x \in Greenlets : Loadable(x)}
    BY <1>1 DEF Unnamed, Loadable, Holders
<1>3. g # parent[current[t]]
    BY <1>1 DEF Unnamed
<1>4. held[current[t]] \cup held[Globals] \cup {x \in Greenlets : Loadable(x)} \subseteq Greenlets
    BY <1>1 DEF Typed, Holders
<1>5. \A x \in Greenlets : g \notin attr[x]
    BY DEF Unnamed
<1> QED BY <1>2, <1>3, <1>4, <1>5 DEF Names

LEMMA NewCares ==
    ASSUME LifeInv, NEW t \in Threads, NEW g \in Greenlets, New(t, g)
    PROVE  CareInv' /\ KillsSame
<1>1. /\ PythonRuns(t)
      /\ calls' = Called(current[t], <<Doing("new", g)>> \o Clearing(deleteme[t], FALSE))
      /\ deleteme' = [deleteme EXCEPT ![t] = {}]
      /\ UNCHANGED <<life, parent, home, attr, held, current, thread>>
    BY DEF New
<1>2. Typed /\ current[t] \in Greenlets
    BY <1>1, Running DEF LifeInv
<1>3. PICK call \in Calls : call = Doing("new", g) /\ call.op = "new"
    BY Constructors DEF Doing
<1>4. Tame(<<call>> \o Clearing(deleteme[t], FALSE), deleteme[t])
    BY <1>2, <1>3, TameList
<1>5. ListStep(t, deleteme[t]) /\ Steady
    BY <1>1 DEF ListStep, Steady
<1>6. NamesKept
    BY <1>1, NamesSteady
<1> QED BY <1>1, <1>2, <1>3, <1>4, <1>5, <1>6, CalledTame

LEMMA GetCurrentCares ==
    ASSUME LifeInv, NEW t \in Threads, GetCurrent(t)
    PROVE  CareInv' /\ KillsSame
<1>1. /\ PythonRuns(t)
      /\ calls' = Called(current[t], <<Doing("current", current[t])>> \o Clearing(deleteme[t], FALSE))
      /\ deleteme' = [deleteme EXCEPT ![t] = {}]
      /\ UNCHANGED <<life, parent, home, attr, held, current, thread>>
    BY DEF GetCurrent
<1>2. Typed /\ current[t] \in Greenlets
    BY <1>1, Running DEF LifeInv
<1>3. PICK call \in Calls : call = Doing("current", current[t]) /\ call.op = "current"
    BY <1>2, Constructors DEF Doing
<1>4. Tame(<<call>> \o Clearing(deleteme[t], FALSE), deleteme[t])
    BY <1>2, <1>3, TameList
<1>5. ListStep(t, deleteme[t]) /\ Steady
    BY <1>1 DEF ListStep, Steady
<1>6. NamesKept
    BY <1>1, NamesSteady
<1> QED BY <1>1, <1>2, <1>3, <1>4, <1>5, <1>6, CalledTame

LEMMA KeepCares ==
    ASSUME LifeInv, NEW t \in Threads, NEW h \in Holders, NEW g \in Greenlets, Keep(t, h, g)
    PROVE  CareInv' /\ KillsSame
<1>1. /\ PythonRuns(t) /\ g \in Names(t)
      /\ held' = [held EXCEPT ![h] = @ \cup {g}]
      /\ UNCHANGED <<life, parent, home, attr, current, thread, calls, deleteme>>
    BY DEF Keep
<1>2. Typed
    BY <1>1, Running DEF LifeInv
<1>3. ASSUME NEW u \in Threads, NEW x \in deleteme[u], x \notin Weak, Unnamed(x) PROVE Unnamed(x)'
    <2>1. x \in Greenlets
        BY <1>2 DEF Typed
    <2>2. x # g
        BY <1>1, <1>3, <2>1, ParkedNameless DEF LifeInv
    <2>3. \A k \in Holders : x \notin held'[k]
        BY <1>1, <1>2, <1>3, <2>2 DEF Unnamed, Typed
    <2> QED BY <1>1, <1>3, <2>3 DEF Unnamed
<1>4. NamesKept
    BY <1>3 DEF NamesKept
<1> QED BY <1>1, <1>4, QuietTame DEF Steady

LEMMA ForgetCares ==
    ASSUME LifeInv, NEW t \in Threads, NEW h \in Holders, NEW g \in Greenlets, Forget(t, h, g)
    PROVE  CareInv' /\ KillsSame
<1>1. /\ PythonRuns(t)
      /\ held' = [held EXCEPT ![h] = @ \ {g}]
      /\ calls' = Called(current[t], Dropping(<<g>>))
      /\ UNCHANGED <<life, parent, home, attr, current, thread, deleteme>>
    BY DEF Forget
<1>2. Typed /\ current[t] \in Greenlets
    BY <1>1, Running DEF LifeInv
<1>3. Tame(Dropping(<<g>>), {})
    <2>1. <<g>> \in Seq(Greenlets)
        OBVIOUS
    <2> QED BY <2>1, TameDropping
<1>4. ListStep(t, {}) /\ Steady
    BY <1>1 DEF ListStep, Steady
<1>5. NamesKept
    <2>1. \A k \in Holders : held'[k] \subseteq held[k]
        BY <1>1, <1>2 DEF Typed
    <2> QED BY <1>1, <2>1, NamesSteady
<1> QED BY <1>1, <1>2, <1>3, <1>4, <1>5, CalledTame

LEMMA NameCares ==
    ASSUME LifeInv, NEW t \in Threads, NEW g \in Greenlets, NEW x \in Greenlets, Name(t, g, x)
    PROVE  CareInv' /\ KillsSame
<1>1. /\ PythonRuns(t) /\ x \in Names(t)
      /\ attr' = [attr EXCEPT ![g] = @ \cup {x}]
      /\ UNCHANGED <<life, parent, home, held, current, thread, calls, deleteme>>
    BY DEF Name
<1>2. Typed
    BY <1>1, Running DEF LifeInv
<1>3. ASSUME NEW u \in Threads, NEW y \in deleteme[u], y \notin Weak, Unnamed(y) PROVE Unnamed(y)'
    <2>1. y \in Greenlets
        BY <1>2 DEF Typed
    <2>2. y # x
        BY <1>1, <1>3, <2>1, ParkedNameless DEF LifeInv
    <2>3. \A k \in Greenlets : y \notin attr'[k]
        BY <1>1, <1>2, <1>3, <2>2 DEF Unnamed, Typed
    <2> QED BY <1>1, <1>3, <2>3 DEF Unnamed
<1>4. NamesKept
    BY <1>3 DEF NamesKept
<1> QED BY <1>1, <1>4, QuietTame DEF Steady

LEMMA UnnameCares ==
    ASSUME LifeInv, NEW t \in Threads, NEW g \in Greenlets, NEW x \in Greenlets, Unname(t, g, x)
    PROVE  CareInv' /\ KillsSame
<1>1. /\ PythonRuns(t)
      /\ attr' = [attr EXCEPT ![g] = @ \ {x}]
      /\ calls' = Called(current[t], Dropping(<<x>>))
      /\ UNCHANGED <<life, parent, home, held, current, thread, deleteme>>
    BY DEF Unname
<1>2. Typed /\ current[t] \in Greenlets
    BY <1>1, Running DEF LifeInv
<1>3. Tame(Dropping(<<x>>), {})
    <2>1. <<x>> \in Seq(Greenlets)
        OBVIOUS
    <2> QED BY <2>1, TameDropping
<1>4. ListStep(t, {}) /\ Steady
    BY <1>1 DEF ListStep, Steady
<1>5. NamesKept
    <2>1. \A k \in Greenlets : attr'[k] \subseteq attr[k]
        BY <1>1, <1>2 DEF Typed
    <2> QED BY <1>1, <2>1 DEF NamesKept, Unnamed
<1> QED BY <1>1, <1>2, <1>3, <1>4, <1>5, CalledTame

LEMMA SetParentCares ==
    ASSUME LifeInv, NEW t \in Threads, NEW g \in Greenlets, NEW p \in Greenlets, SetParent(t, g, p)
    PROVE  CareInv' /\ KillsSame
<1>1. /\ PythonRuns(t) /\ p \in Names(t)
      /\ parent' = [parent EXCEPT ![g] = p]
      /\ calls' = Called(current[t], Dropping(Present(parent[g])))
      /\ UNCHANGED <<life, home, attr, held, current, thread, deleteme>>
    BY DEF SetParent
<1>2. Typed /\ current[t] \in Greenlets
    BY <1>1, Running DEF LifeInv
<1>3. Tame(Dropping(Present(parent[g])), {})
    <2>1. parent[g] \in Greenlets \cup {NoOne}
        BY <1>2 DEF Typed
    <2> QED BY <2>1, PresentListed, TameDropping
<1>4. ListStep(t, {}) /\ Steady
    BY <1>1 DEF ListStep, Steady
<1>5. NamesKept
    <2>1. ASSUME NEW u \in Threads, NEW y \in deleteme[u], y \notin Weak, Unnamed(y) PROVE Unnamed(y)'
        <3>1. y \in Greenlets
            BY <1>2 DEF Typed
        <3>2. y # p
            BY <1>1, <2>1, <3>1, ParkedNameless DEF LifeInv
        <3>3. \A k \in Greenlets : parent'[k] # y
            BY <1>1, <1>2, <2>1, <3>2 DEF Unnamed, Typed
        <3> QED BY <1>1, <2>1, <3>3 DEF Unnamed
    <2> QED BY <2>1 DEF NamesKept
<1> QED BY <1>1, <1>2, <1>3, <1>4, <1>5, CalledTame

LEMMA SwitchCares ==
    ASSUME LifeInv, NEW t \in Threads, NEW g \in Greenlets, Switch(t, g)
    PROVE  CareInv' /\ KillsSame
<1>1. /\ PythonRuns(t) /\ calls' = Called(current[t], <<SwitchTo(g, FALSE)>>)
      /\ UNCHANGED <<life, parent, home, attr, held, current, thread, deleteme>>
    BY DEF Switch
<1>2. Typed /\ current[t] \in Greenlets
    BY <1>1, Running DEF LifeInv
<1>3. PICK call \in Calls : call = SwitchTo(g, FALSE) /\ call.op = "switch"
    BY Constructors DEF SwitchTo
<1>4. Tame(<<call>>, {})
    BY <1>3, TameOne
<1>5. ListStep(t, {}) /\ Steady
    BY <1>1 DEF ListStep, Steady
<1>6. NamesKept
    BY <1>1, NamesSteady
<1> QED BY <1>1, <1>2, <1>3, <1>4, <1>5, <1>6, CalledTame

LEMMA ReturnCares ==
    ASSUME LifeInv, NEW t \in Threads, Return(t)
    PROVE  CareInv' /\ KillsSame
<1>1. /\ PythonRuns(t) /\ calls[current[t]] # <<>> /\ calls' = Replaced(current[t], <<>>)
      /\ UNCHANGED <<life, parent, home, attr, held, current, thread, deleteme>>
    BY DEF Return
<1>2. /\ fault = "none" /\ Typed /\ current[t] \in Greenlets /\ thread[t] = "running" /\ ~InC(t)
    BY <1>1, Running DEF LifeInv
<1>3. ~Leaving(Last(calls[current[t]])) /\ Last(calls[current[t]]).op # "kill"
    BY <1>1, <1>2 DEF InC, Top, Leaving
<1>4. ListStep(t, {}) /\ Steady
    BY <1>1 DEF ListStep, Steady
<1>5. NamesKept
    BY <1>1, NamesSteady
<1> QED BY <1>1, <1>2, <1>3, <1>4, <1>5, TameEmpty, ReplacedTame

\* The innermost call of the thread that is in C code is replaced by others.
LEMMA ExecutedTame ==
    ASSUME LifeInv, NEW t \in Threads, NEW op, Executes(t, op),
           NEW r, NEW S, Tame(r, S), calls' = Replaced(current[t], r), ListStep(t, S), Steady, NamesKept,
           ~Leaving(Top(t)) \/ (Len(r) >= 1 /\ Leaving(r[1])) \/ life[current[t]] = "active"
    PROVE  CareInv' /\ KillsSameAfter(op)
<1>1. /\ fault = "none" /\ thread[t] = "running" /\ current[t] \in Greenlets
      /\ calls[current[t]] # <<>> /\ Top(t) = Last(calls[current[t]]) /\ Top(t).op = op
    BY Executing DEF LifeInv
<1>2. PICK c \in Greenlets : c = current[t]
    BY <1>1
<1> QED BY <1>1, <1>2, ReplacedTame DEF KillsSameAfter

\* The same, when nothing is on its way, no list is touched and nothing gets a name
LEMMA ExecutedQuietly ==
    ASSUME LifeInv, NEW t \in Threads, NEW op, Executes(t, op), op \notin {"switch", "start", "stack", "jump"},
           NEW r, Tame(r, {}), calls' = Replaced(current[t], r), deleteme' = deleteme,
           Steady, NamesKept
    PROVE  CareInv' /\ KillsSameAfter(op)
<1>1. ListStep(t, {})
    BY DEF ListStep
<1>2. ~Leaving(Top(t))
    BY DEF Executes, Leaving
<1> QED BY <1>1, <1>2, ExecutedTame

LEMMA TopOf ==
    ASSUME RefInv, NEW t \in Threads, NEW op \in {"new", "dealloc", "kill", "undo", "free", "delete"},
           Executes(t, op)
    PROVE  Top(t).of \in Greenlets
<1>1. Top(t) \in Calls /\ Top(t).op = op
    BY Executing
<1> QED BY <1>1, CallKinds

LEMMA CurrentStepCares ==
    ASSUME LifeInv, NEW t \in Threads, CurrentStep(t)
    PROVE  CareInv' /\ KillsSame
<1>1. PICK kept : /\ Executes(t, "current") /\ kept \subseteq {current[t]}
                  /\ held' = [held EXCEPT ![current[t]] = @ \cup kept]
                  /\ calls' = Replaced(current[t], <<>>)
                  /\ UNCHANGED <<life, parent, home, attr, current, thread, deleteme>>
    BY DEF CurrentStep
<1>2. Typed /\ current[t] \in Greenlets
    BY <1>1, Executing DEF LifeInv
<1>3. ASSUME NEW x, Unnamed(x) PROVE Unnamed(x)'
    <2>1. x \notin kept
        BY <1>1, <1>3 DEF Unnamed
    <2>2. \A h \in Holders : x \notin held'[h]
        BY <1>1, <1>2, <1>3, <2>1 DEF Unnamed, Typed
    <2> QED BY <1>1, <1>3, <2>2 DEF Unnamed
<1>12. CareInv' /\ KillsSameAfter("current")
    BY <1>1, <1>3, TameEmpty, ExecutedQuietly DEF NamesKept, Steady
<1> QED BY <1>12 DEF KillsSameAfter

LEMMA DropCares ==
    ASSUME LifeInv, NEW t \in Threads, Drop(t)
    PROVE  CareInv' /\ KillsSame
<1>1. /\ Executes(t, "drop")
      /\ calls' = Replaced(current[t],
                           IF rc[Head(Top(t).todo)] = 1
                           THEN Append(Dropping(Tail(Top(t).todo)), Doing("dealloc", Head(Top(t).todo)))
                           ELSE Dropping(Tail(Top(t).todo)))
      /\ UNCHANGED <<life, parent, home, attr, held, current, thread, deleteme>>
    BY DEF Drop
<1>2. Top(t) \in Calls /\ Top(t).op = "drop"
    BY <1>1, Executing DEF LifeInv
<1>3. PICK s \in Seq(Greenlets) : s = Top(t).todo /\ s # <<>>
    BY <1>2, CallKinds
<1>4. PICK g \in Greenlets : g = Head(s)
    BY <1>3
<1>5. PICK r : r = Dropping(Tail(s)) /\ Tame(r, {}) /\ r \in Seq(Calls)
    <2>1. Tail(s) \in Seq(Greenlets)
        BY <1>3
    <2> QED BY <2>1, TameDropping DEF Tame
<1>6. PICK call \in Calls : call = Doing("dealloc", g) /\ call.op = "dealloc"
    BY Constructors DEF Doing
<1>7. Tame(<<call>>, {})
    BY <1>6, TameOne
<1>8. Tame(r \o <<call>>, {})
    BY <1>5, <1>7, TameConcat
<1>9. Append(r, call) = r \o <<call>>
    BY <1>5
<1>10. calls' = Replaced(current[t], r) \/ calls' = Replaced(current[t], r \o <<call>>)
    BY <1>1, <1>3, <1>4, <1>5, <1>6, <1>9
<1>11. NamesKept
    BY <1>1, NamesSteady
<1>12. CareInv' /\ KillsSameAfter("drop")
    BY <1>1, <1>5, <1>8, <1>10, <1>11, ExecutedQuietly DEF Steady
<1> QED BY <1>12 DEF KillsSameAfter

LEMMA ClearNextCares ==
    ASSUME LifeInv, NEW t \in Threads, ClearNext(t)
    PROVE  CareInv' /\ KillsSame
<1>1. PICK g \in Top(t).todo :
          /\ Executes(t, "clear")
          /\ calls' = Replaced(current[t], Clearing(Top(t).todo \ {g}, FALSE) \o Dropping(<<g>>))
          /\ UNCHANGED <<life, parent, home, attr, held, current, thread, deleteme>>
    BY DEF ClearNext
<1>2. /\ Top(t) \in Calls /\ Top(t).op = "clear" /\ current[t] \in Greenlets
      /\ Len(calls[current[t]]) \in DOMAIN calls[current[t]]
      /\ Top(t) = calls[current[t]][Len(calls[current[t]])]
    BY <1>1, Executing DEF LifeInv
<1>3. PICK S \in SUBSET Greenlets : S = Top(t).todo
    BY <1>2, CallKinds
<1>4. Tame(Clearing(S \ {g}, FALSE), S)
    <2>1. S \ {g} \in SUBSET Greenlets
        OBVIOUS
    <2> QED BY <2>1, TameClearing, TameWithin
<1>5. Tame(Dropping(<<g>>), S)
    <2>1. g \in Greenlets
        BY <1>1, <1>3
    <2>2. <<g>> \in Seq(Greenlets)
        BY <2>1
    <2>3. Tame(Dropping(<<g>>), {}) /\ {} \subseteq S
        BY <2>2, TameDropping
    <2> QED BY <2>3, TameWithin
<1>6. Tame(Clearing(S \ {g}, FALSE) \o Dropping(<<g>>), S)
    BY <1>4, <1>5, TameConcat
<1>7. ListStep(t, S)
    BY <1>1, <1>2, <1>3 DEF ListStep, Listing
<1>8. NamesKept /\ ~Leaving(Top(t))
    BY <1>1, <1>2, NamesSteady DEF Leaving
<1>9. CareInv' /\ KillsSameAfter("clear")
    BY <1>1, <1>3, <1>6, <1>7, <1>8, ExecutedTame DEF Steady
<1> QED BY <1>9 DEF KillsSameAfter

LEMMA DeallocIdleCares ==
    ASSUME LifeInv, NEW t \in Threads, DeallocIdle(t)
    PROVE  CareInv' /\ KillsSame
<1>1. /\ Executes(t, "dealloc")
      /\ calls' = Replaced(current[t], <<Doing("free", Top(t).of)>>)
      /\ UNCHANGED <<life, parent, home, attr, held, current, thread, deleteme>>
    BY DEF DeallocIdle
<1>2. Top(t).of \in Greenlets
    BY <1>1, TopOf DEF LifeInv
<1>3. PICK call \in Calls : call = Doing("free", Top(t).of) /\ call.op = "free"
    BY <1>2, Constructors DEF Doing
<1>4. Tame(<<call>>, {})
    BY <1>3, TameOne
<1>5. NamesKept
    BY <1>1, NamesSteady
<1>12. CareInv' /\ KillsSameAfter("dealloc")
    BY <1>1, <1>3, <1>4, <1>5, ExecutedQuietly DEF Steady
<1> QED BY <1>12 DEF KillsSameAfter

LEMMA UndoCares ==
    ASSUME LifeInv, NEW t \in Threads, Undo(t)
    PROVE  CareInv' /\ KillsSame
<1>1. PICK freed \in BOOLEAN :
          /\ Executes(t, "undo")
          /\ calls' = Replaced(current[t], IF freed THEN <<Doing("free", Top(t).of)>> ELSE <<>>)
          /\ UNCHANGED <<life, parent, home, attr, held, current, thread, deleteme>>
    BY DEF Undo
<1>2. Top(t).of \in Greenlets
    BY <1>1, TopOf DEF LifeInv
<1>3. PICK call \in Calls : call = Doing("free", Top(t).of) /\ call.op = "free"
    BY <1>2, Constructors DEF Doing
<1>4. Tame(<<call>>, {})
    BY <1>3, TameOne
<1>5. NamesKept
    BY <1>1, NamesSteady
<1>6. calls' = Replaced(current[t], <<call>>) \/ calls' = Replaced(current[t], <<>>)
    BY <1>1, <1>3
<1>12. CareInv' /\ KillsSameAfter("undo")
    BY <1>1, <1>4, <1>5, <1>6, TameEmpty, ExecutedQuietly DEF Steady
<1> QED BY <1>12 DEF KillsSameAfter

LEMMA FreeCares ==
    ASSUME LifeInv, NEW t \in Threads, Free(t)
    PROVE  CareInv' /\ KillsSame
<1>1. /\ Executes(t, "free")
      /\ calls' = Replaced(current[t], <<Doing("delete", Top(t).of)>>
                                \o IF Top(t).of \in Callbacks THEN <<Python>> ELSE <<>>)
      /\ UNCHANGED <<life, parent, home, attr, held, current, thread, deleteme>>
    BY DEF Free
<1>2. Top(t).of \in Greenlets
    BY <1>1, TopOf DEF LifeInv
<1>3. PICK call \in Calls : call = Doing("delete", Top(t).of) /\ call.op = "delete"
    BY <1>2, Constructors DEF Doing
<1>4. Tame(<<call>>, {})
    BY <1>3, TameOne
<1>5. Tame(<<Python>>, {})
    <2>1. Python \in Calls /\ Python.op = "python"
        BY DEF Calls, Python
    <2> QED BY <2>1, TameOne
<1>6. PICK r : r = (IF Top(t).of \in Callbacks THEN <<Python>> ELSE <<>>) /\ Tame(r, {})
    BY <1>5, TameEmpty
<1>7. Tame(<<call>> \o r, {})
    BY <1>4, <1>6, TameConcat
<1>8. NamesKept
    BY <1>1, NamesSteady
<1>12. CareInv' /\ KillsSameAfter("free")
    BY <1>1, <1>3, <1>6, <1>7, <1>8, ExecutedQuietly DEF Steady
<1> QED BY <1>12 DEF KillsSameAfter

-----------------------------------------------------------------------------
(* A greenlet that is on its way. *)

\* It goes on to another parent, unless there is none.
LEMMA TriesParent ==
    ASSUME LifeInv, NEW t \in Threads, NEW op, Executes(t, op), NEW p \in Greenlets \cup {NoOne},
           TryParent(current[t], p), deleteme' = deleteme, fault' = "none", Steady, NamesKept
    PROVE  CareInv' /\ KillsSameAfter(op)
<1>1. p \in Greenlets /\ calls' = Replaced(current[t], <<SwitchTo(p, TRUE)>>)
    BY DEF TryParent
<1>2. PICK call \in Calls : /\ call = SwitchTo(p, TRUE) /\ call.op = "switch"
                             /\ Leaving(call)
    BY <1>1, Constructors DEF SwitchTo, Leaving
<1>3. PICK r : r = <<call>> /\ Tame(r, {}) /\ Len(r) = 1 /\ r[1] = call
    BY <1>2, TameOne
<1>4. Len(r) >= 1 /\ Leaving(r[1])
    <2>1. Len(r) >= 1
        BY <1>3
    <2> QED BY <1>2, <1>3, <2>1
<1>5. ListStep(t, {})
    BY DEF ListStep
<1> QED BY <1>1, <1>2, <1>3, <1>4, <1>5, ExecutedTame

LEMMA RefuseCares ==
    ASSUME LifeInv, NEW t \in Threads, Refuse(t), fault' = "none"
    PROVE  CareInv' /\ KillsSame
<1>1. /\ Executes(t, "switch")
      /\ IF Top(t).dying THEN TryParent(current[t], NextParent(Top(t).of))
                         ELSE calls' = Replaced(current[t], <<>>)
      /\ UNCHANGED <<life, parent, home, attr, held, current, thread, deleteme>>
    BY DEF Refuse
<1>2. Typed /\ Top(t) \in Calls /\ Top(t).op = "switch"
    BY <1>1, Executing DEF LifeInv
<1>3. NamesKept /\ Steady
    BY <1>1, NamesSteady DEF Steady
<1>4. CASE Top(t).dying
    <2>1. NextParent(Top(t).of) \in Greenlets \cup {NoOne}
        BY <1>2, CallKinds DEF NextParent, Typed
    <2>2. CareInv' /\ KillsSameAfter("switch")
        BY <1>1, <1>3, <1>4, <2>1, TriesParent
    <2> QED BY <2>2 DEF KillsSameAfter
<1>5. CASE ~Top(t).dying
    <2>1. ~Leaving(Top(t)) /\ ListStep(t, {})
        BY <1>1, <1>2, <1>5 DEF Leaving, ListStep
    <2>2. CareInv' /\ KillsSameAfter("switch")
        BY <1>1, <1>3, <1>5, <2>1, TameEmpty, ExecutedTame
    <2> QED BY <2>2 DEF KillsSameAfter
<1> QED BY <1>4, <1>5

\* g_switchstack() swaps the list out.  A dead greenlet does not switch to itself.
LEMMA SwitchstackCares ==
    ASSUME LifeInv, NEW t \in Threads, NEW op, Executes(t, op), NEW g \in Greenlets, NEW first \in BOOLEAN,
           GSwitchstack(t, g, first), Steady, NamesKept,
           g = current[t] => life[current[t]] = "active"
    PROVE  CareInv' /\ KillsSameAfter(op)
<1>1. Typed /\ current[t] \in Greenlets
    BY Executing DEF LifeInv
<1>2. ListStep(t, deleteme[t])
    BY DEF GSwitchstack, ListStep
<1>3. CASE g = current[t]
    <2>1. calls' = Replaced(current[t], <<>> \o Clearing(deleteme[t], FALSE))
        BY <1>3 DEF GSwitchstack
    <2>2. deleteme[t] \in SUBSET Greenlets
        BY <1>1 DEF Typed
    <2>3. PICK r : r = Clearing(deleteme[t], FALSE) /\ Tame(r, deleteme[t]) /\ r \in Seq(Calls)
        BY <2>2, TameClearing DEF Tame
    <2>4. <<>> \o r = r
        BY <2>3, ConcatEmptySeq
    <2> QED BY <1>2, <1>3, <2>1, <2>3, <2>4, ExecutedTame
<1>4. CASE g # current[t]
    <2>1. PICK call \in Calls : call = Entering("jump", g, first) /\ call.op = "jump"
        BY Constructors DEF Entering
    <2>2. PICK r : /\ r = <<call>> \o Clearing(deleteme[t], FALSE)
                   /\ Tame(r, deleteme[t]) /\ Len(r) >= 1 /\ r[1] = call
        BY <1>1, <2>1, TameList
    <2>3. calls' = Replaced(current[t], r)
        BY <1>4, <2>1, <2>2 DEF GSwitchstack
    <2>4. Leaving(r[1])
        BY <2>1, <2>2 DEF Leaving
    <2>5. Len(r) >= 1 /\ Tame(r, deleteme[t])
        BY <2>2
    <2> QED BY <1>2, <2>3, <2>4, <2>5, ExecutedTame
<1> QED BY <1>3, <1>4

LEMMA GSwitchCares ==
    ASSUME LifeInv, NEW t \in Threads, GSwitch(t)
    PROVE  CareInv' /\ KillsSame
<1>1. PICK g \in Greenlets :
          /\ Executes(t, "switch") /\ life[g] = "active" /\ GSwitchstack(t, g, FALSE)
          /\ UNCHANGED <<life, parent, home, attr, held, current, thread>>
    BY DEF GSwitch
<1>2. NamesKept
    BY <1>1, NamesSteady
<1>3. CareInv' /\ KillsSameAfter("switch")
    BY <1>1, <1>2, SwitchstackCares DEF Steady
<1> QED BY <1>3 DEF KillsSameAfter

LEMMA GSwitchstackCares ==
    ASSUME LifeInv, NEW t \in Threads, Switchstack(t)
    PROVE  CareInv' /\ KillsSame
<1>1. /\ Executes(t, "stack") /\ GSwitchstack(t, Top(t).of, TRUE)
      /\ UNCHANGED <<life, parent, home, attr, held, current, thread>>
    BY DEF Switchstack
<1>2. NamesKept
    BY <1>1, NamesSteady
<1>3. /\ thread[t] = "running" /\ current[t] \in Greenlets /\ ControlInv
      /\ Top(t) \in Calls /\ Top(t).op = "stack"
      /\ Len(calls[current[t]]) \in DOMAIN calls[current[t]]
      /\ Top(t) = calls[current[t]][Len(calls[current[t]])]
    BY <1>1, Executing DEF LifeInv
<1>4. Top(t).of \in Greenlets /\ Top(t).first
    BY <1>3, CallKinds
<1>5. ~Runs(Top(t).of)
    BY <1>3, <1>4 DEF ControlInv, CallsInv, CallOK
<1>6. Top(t).of # current[t]
    BY <1>3, <1>5 DEF Runs
<1>7. CareInv' /\ KillsSameAfter("stack")
    BY <1>1, <1>2, <1>4, <1>6, SwitchstackCares DEF Steady
<1> QED BY <1>7 DEF KillsSameAfter

LEMMA GInitialstubCares ==
    ASSUME LifeInv, NEW t \in Threads, GInitialstub(t)
    PROVE  CareInv' /\ KillsSame
<1>1. PICK g \in Greenlets :
          /\ Executes(t, "switch")
          /\ calls' = Replaced(current[t], <<Entering("start", g, TRUE)>> \o Clearing(deleteme[t], FALSE))
          /\ deleteme' = [deleteme EXCEPT ![t] = {}]
          /\ UNCHANGED <<life, parent, home, attr, held, current, thread>>
    BY DEF GInitialstub
<1>2. Typed
    BY <1>1, Executing DEF LifeInv
<1>3. PICK call \in Calls : call = Entering("start", g, TRUE) /\ call.op = "start"
    BY Constructors DEF Entering
<1>4. PICK r : /\ r = <<call>> \o Clearing(deleteme[t], FALSE)
               /\ Tame(r, deleteme[t]) /\ Len(r) >= 1 /\ r[1] = call
    BY <1>2, <1>3, TameList
<1>5. ListStep(t, deleteme[t]) /\ Leaving(r[1])
    BY <1>1, <1>3, <1>4 DEF ListStep, Leaving
<1>6. NamesKept /\ Steady
    BY <1>1, NamesSteady DEF Steady
<1>7. Len(r) >= 1 /\ Tame(r, deleteme[t])
    BY <1>4
<1>8. calls' = Replaced(current[t], r) /\ Executes(t, "switch")
    BY <1>1, <1>3, <1>4
<1>9. CareInv' /\ KillsSameAfter("switch")
    BY <1>5, <1>6, <1>7, <1>8, ExecutedTame
<1> QED BY <1>9 DEF KillsSameAfter

-----------------------------------------------------------------------------
(* The calls that kill, finish and destroy. *)

\* One such call, and tame ones within it
LEMMA CarefulFirst ==
    ASSUME NEW c, NEW n \in Nat, NEW call \in Calls, call.op # "clear", CareOK(c, n + 1, call)',
           NEW s, NEW S, Tame(s, S)
    PROVE  /\ CarefulCalls(c, n, <<call>> \o s, S)
           /\ call.op # "kill" => NoKills(<<call>> \o s)
           /\ <<call>> \o s \in Seq(Calls)
           /\ Len(<<call>> \o s) >= 1 /\ (<<call>> \o s)[1] = call
<1>1. PICK r \in Seq(Calls) : r = <<call>> /\ Len(r) = 1 /\ r[1] = call
    <2>1. <<call>> \in Seq(Calls) /\ Len(<<call>>) = 1 /\ <<call>>[1] = call
        OBVIOUS
    <2> QED BY <2>1
<1>2. s \in Seq(Calls) /\ Len(s) \in Nat
    <2>1. s \in Seq(Calls)
        BY DEF Tame
    <2> QED BY <2>1
<1>3. PICK z \in Seq(Calls) :
          /\ z = r \o s /\ Len(z) = Len(r) + Len(s)
          /\ \A i \in 1..(Len(r) + Len(s)) : z[i] = IF i <= Len(r) THEN r[i] ELSE s[i - Len(r)]
    BY <1>1, <1>2, Joined
<1>4. Len(z) >= 1 /\ z[1] = call
    <2>1. 1 \in 1..(Len(r) + Len(s)) /\ 1 <= Len(r)
        BY <1>1, <1>2
    <2>2. z[1] = r[1]
        BY <1>3, <2>1
    <2> QED BY <1>1, <1>2, <1>3, <2>2
<1>5. ASSUME NEW k \in 1..Len(z), k # 1 PROVE \E j \in 1..Len(s) : z[k] = s[j]
    <2>1. k \in 1..(Len(r) + Len(s)) /\ ~(k <= Len(r)) /\ k - Len(r) \in 1..Len(s)
        BY <1>1, <1>2, <1>3, <1>5
    <2> QED BY <1>3, <2>1
<1>6. CarefulCalls(c, n, z, S)
    <2> SUFFICES ASSUME NEW k \in 1..Len(z)
                 PROVE  /\ z[k].op = "clear" => z[k].todo \subseteq S
                        /\ z[k].op \in {"finish", "destroy", "kill"} => CareOK(c, n + k, z[k])'
        BY DEF CarefulCalls
    <2>1. CASE k = 1
        BY <1>4, <2>1
    <2>2. CASE k # 1
        BY <1>5, <2>2 DEF Tame
    <2> QED BY <2>1, <2>2
<1>7. ASSUME call.op # "kill" PROVE NoKills(z)
    BY <1>4, <1>5, <1>7 DEF NoKills, Tame
<1> QED BY <1>1, <1>3, <1>4, <1>6, <1>7

\* run() returns in a greenlet without C code, which is active then.
LEMMA FinishCares ==
    ASSUME LifeInv, NEW t \in Threads, Finish(t)
    PROVE  CareInv' /\ KillsSame
<1>1. /\ PythonRuns(t) /\ calls[current[t]] = <<>>
      /\ held' = [held EXCEPT ![current[t]] = {}]
      /\ UNCHANGED <<life, parent, home, attr, current, thread, deleteme>>
    BY DEF Finish
<1>2. /\ fault = "none" /\ Typed /\ ControlInv /\ CareInv /\ thread[t] = "running"
      /\ current[t] \in Greenlets
    BY <1>1, Running DEF LifeInv, Cared
<1>3. PICK c \in Greenlets : c = current[t]
    BY <1>2
<1>4. PICK locals \in SetToSeqs(held[c]) :
          calls' = Called(c, <<Doing("finish", c)>> \o Dropping(locals))
    BY <1>3 DEF Finish
<1>5. PICK s : s = Dropping(locals) /\ Tame(s, {})
    <2>1. held[c] \in SUBSET Greenlets
        BY <1>2 DEF Typed, Holders
    <2>2. locals \in Seq(Greenlets)
        BY <2>1, OccursSeqs
    <2> QED BY <2>2, TameDropping
<1>6. PICK call \in Calls : call = Doing("finish", c) /\ call.op = "finish"
    BY Constructors DEF Doing
<1>7. Len(calls[c]) = 0
    BY <1>1, <1>3
<1>8. PICK r \in Seq(Calls) : r = <<call>> \o s /\ CarefulCalls(c, 0, r, {}) /\ NoKills(r)
    <2>1. CareOK(c, 0 + 1, call)'
        BY <1>6 DEF CareOK
    <2> QED BY <1>5, <1>6, <2>1, CarefulFirst
<1>9. Becomes(c, 0, r)
    BY <1>2, <1>4, <1>5, <1>6, <1>7, <1>8, CalledBecomes
<1>10. \A h \in Greenlets \ {c} : calls'[h] = calls[h]
    BY <1>2, <1>4, <1>5, <1>6, <1>8 DEF Typed, Called
<1>11. ListStep(t, {}) /\ GoesOn(c, 0, r)
    BY <1>1, <1>7 DEF ListStep, GoesOn
<1>12. NamesKept
    <2>1. \A h \in Holders : held'[h] \subseteq held[h]
        BY <1>1, <1>2 DEF Typed
    <2> QED BY <1>1, <2>1, NamesSteady
<1>13. LastStays(c, 0)
    BY <1>7 DEF LastStays
<1>14. KillsSame
    BY <1>2, <1>8, <1>9, <1>10, <1>13, BecomesKills
<1> QED BY <1>1, <1>2, <1>3, <1>8, <1>9, <1>10, <1>11, <1>12, <1>14, CareKeeps

\* The list of a thread state that is destroyed is swapped out.
LEMMA DestroyCares ==
    ASSUME LifeInv, NEW u \in Threads, Destroy(u)
    PROVE  CareInv' /\ KillsSame
<1>0. MainThread \in Threads
    BY ThreadsAssumption
<1>1. /\ PythonRuns(MainThread)
      /\ calls' = Called(current[MainThread], <<Destroying(u)>> \o Clearing(deleteme[u], TRUE))
      /\ deleteme' = [deleteme EXCEPT ![u] = {}]
      /\ UNCHANGED <<life, parent, home, attr, held, current, thread>>
    BY DEF Destroy
<1>2. /\ Typed /\ ControlInv /\ CareInv /\ thread[MainThread] = "running"
      /\ current[MainThread] \in Greenlets
    BY <1>0, <1>1, Running DEF LifeInv, Cared
<1>3. PICK c \in Greenlets : c = current[MainThread]
    BY <1>2
<1>4. PICK n \in Nat : n = Len(calls[c])
    <2>1. calls[c] \in Seq(Calls)
        BY <1>2 DEF Typed
    <2> QED BY <2>1
<1>5. PICK call \in Calls : call = Destroying(u) /\ call.op = "destroy" /\ call.state = u
    BY Constructors DEF Destroying
<1>6. deleteme'[u] = {}
    BY <1>1, <1>2 DEF Typed
<1>7. PICK s : s = Clearing(deleteme[u], TRUE) /\ Tame(s, deleteme[u])
    <2>1. deleteme[u] \in SUBSET Greenlets
        BY <1>2 DEF Typed
    <2> QED BY <2>1, TameClearing
<1>8. PICK r \in Seq(Calls) : r = <<call>> \o s /\ CarefulCalls(c, n, r, deleteme[u]) /\ NoKills(r)
    <2>1. CareOK(c, n + 1, call)'
        BY <1>5, <1>6 DEF CareOK
    <2> QED BY <1>5, <1>7, <2>1, CarefulFirst
<1>9. Becomes(c, n, r)
    BY <1>1, <1>2, <1>3, <1>4, <1>5, <1>7, <1>8, CalledBecomes
<1>10. \A h \in Greenlets \ {c} : calls'[h] = calls[h]
    BY <1>1, <1>2, <1>3 DEF Typed, Called
<1>11. ListStep(u, deleteme[u]) /\ GoesOn(c, n, r)
    BY <1>1, <1>4 DEF ListStep, GoesOn
<1>12. NamesKept
    BY <1>1, NamesSteady
<1>13. LastStays(c, n)
    BY <1>4 DEF LastStays
<1>14. KillsSame
    BY <1>2, <1>8, <1>9, <1>10, <1>13, BecomesKills
<1> QED BY <1>0, <1>1, <1>2, <1>3, <1>8, <1>9, <1>10, <1>11, <1>12, <1>14, CareKeeps

\* Who is killed is at home in the thread, is on no list and is not taken from one.
LEMMA KillCares ==
    ASSUME LifeInv, NEW t \in Threads, Kill(t)
    PROVE  CareInv'
<1>1. PICK g : /\ g = Top(t).of /\ Executes(t, "dealloc")
               /\ g \notin Mains /\ life[g] = "active" /\ BelongsTo(g, t)
               /\ parent' = [parent EXCEPT ![g] = current[t]]
               /\ calls' = Replaced(current[t], <<Killing(g, parent[g]), SwitchTo(g, FALSE)>>)
               /\ UNCHANGED <<life, home, attr, held, current, thread, deleteme>>
    BY DEF Kill
<1>2. /\ fault = "none" /\ Typed /\ ControlInv /\ CareInv /\ thread[t] = "running"
      /\ current[t] \in Greenlets /\ calls[current[t]] # <<>> /\ calls[current[t]] \in Seq(Calls)
      /\ Len(calls[current[t]]) \in DOMAIN calls[current[t]]
      /\ Top(t) = calls[current[t]][Len(calls[current[t]])] /\ Top(t) = Last(calls[current[t]])
      /\ Top(t) \in Calls /\ Top(t).op = "dealloc"
      /\ \A x \in Greenlets : rc[x] = References(x)
    BY <1>1, Executing DEF LifeInv, Cared
<1>3. PICK c \in Greenlets : c = current[t]
    BY <1>2
<1>4. g \in Greenlets
    BY <1>1, <1>2, CallKinds
<1>5. rc[g] = 0
    <2>1. CallOK(c, Len(calls[c]), Top(t))
        BY <1>2, <1>3 DEF ControlInv, CallsInv
    <2> QED BY <1>1, <1>2, <2>1 DEF CallOK
<1>6. Disowned(g) /\ Unnamed(g) /\ (\A u \in Threads : g \notin deleteme[u]) /\ ~Listing(g)
    BY <1>2, <1>4, <1>5, ZeroCount, DisownedListing
<1>7. PICK p \in Greenlets \cup {NoOne} : p = parent[g]
    BY <1>2, <1>4 DEF Typed
<1>8. PICK call \in Calls : /\ call = Killing(g, p) /\ call.op = "kill"
                            /\ call.of = g /\ call.old = p
    BY <1>4, Constructors DEF Killing
<1>9. PICK to \in Calls : to = SwitchTo(g, FALSE) /\ to.op = "switch"
    BY <1>4, Constructors DEF SwitchTo
<1>10. PICK n \in Nat : n = Len(calls[c]) - 1 /\ n + 1 = Len(calls[c])
    <2>1. PICK m \in Nat : m = Len(calls[c]) /\ m # 0
        BY <1>2, <1>3, EmptySeq
    <2>2. m - 1 \in Nat /\ m - 1 + 1 = m
        BY <2>1
    <2> QED BY <2>1, <2>2
<1>11. PICK s : s = <<to>> /\ Tame(s, {}) /\ s \in Seq(Calls)
    BY <1>9, TameOne
<1>12. calls' = Replaced(c, <<call>> \o s)
    <2>1. <<call>> \o <<to>> = <<call, to>>
        BY Pair
    <2> QED BY <1>1, <1>3, <1>7, <1>8, <1>9, <1>11, <2>1
<1>13. KillOK(c, g)'
    <2>1. MainFor(g) = MainOf[t]
        BY <1>1 DEF BelongsTo, MainFor
    <2>2. MainFor(c) \in {MainOf[t], NoOne}
        BY <1>2, <1>3 DEF CareInv, HomeInv
    <2>3. Linked(c) => MainFor(c) # NoOne
        BY MainOfAssumption, ThreadsAssumption DEF Linked
    <2>4. KillOK(c, g)
        BY <1>1, <2>1, <2>2, <2>3 DEF KillOK
    <2> QED BY <1>1, <2>4 DEF KillOK, Linked, MainFor
<1>14. \A u \in Threads : p \in deleteme[u] => p \in Weak
    BY <1>2, <1>4, <1>7 DEF CareInv, ParkInv, ParkOK, Unnamed
<1>15. ~Listing(g)'
    <2> SUFFICES ASSUME NEW h \in Greenlets, NEW i \in DOMAIN calls'[h], calls'[h][i].op = "clear",
                        g \in calls'[h][i].todo
                 PROVE  FALSE
        BY DEF Listing
    <2>1. PICK r \in Seq(Calls) : r = <<call>> \o s
        <3>1. <<call>> \in Seq(Calls)
            OBVIOUS
        <3>2. s \in Seq(Calls)
            BY <1>11
        <3>3. \E z \in Seq(Calls) : z = <<call>> \o s
            BY <3>1, <3>2, Joined
        <3> QED BY <3>3
    <2>2. Becomes(c, Len(calls[c]) - 1, r)
        BY <1>2, <1>3, <1>12, <2>1, ReplacedBecomes
    <2>3. CASE i \in DOMAIN calls[h] /\ calls'[h][i] = calls[h][i]
        BY <1>6, <2>3 DEF Listing
    <2>4. CASE \E k \in 1..Len(r) : calls'[h][i] = r[k]
        <3>1. r = <<call, to>>
            BY <1>9, <1>11, <2>1, Pair
        <3>2. \A k \in 1..Len(r) : r[k] \in {call, to}
            BY <3>1
        <3> QED BY <1>8, <1>9, <2>4, <3>2
    <2> QED BY <2>2, <2>3, <2>4, Origin
<1>16. CareOK(c, n + 1, call)'
    BY <1>1, <1>6, <1>8, <1>13, <1>14, <1>15 DEF CareOK
<1>17. PICK r \in Seq(Calls) : r = <<call>> \o s /\ CarefulCalls(c, n, r, {})
    BY <1>8, <1>11, <1>16, CarefulFirst
<1>18. Becomes(c, n, r)
    BY <1>2, <1>3, <1>10, <1>12, <1>17, ReplacedBecomes
<1>19. \A h \in Greenlets \ {c} : calls'[h] = calls[h]
    BY <1>2, <1>12 DEF Typed, Replaced
<1>20. ListStep(t, {}) /\ GoesOn(c, n, r)
    BY <1>1, <1>2, <1>3, <1>10 DEF ListStep, GoesOn, Leaving
<1>21. NamesKept
    <2>1. ASSUME NEW x, Unnamed(x) PROVE Unnamed(x)'
        <3>1. \A h \in Greenlets : parent'[h] # x
            BY <1>1, <1>2, <2>1 DEF Unnamed, Typed
        <3> QED BY <1>1, <2>1, <3>1 DEF Unnamed
    <2> QED BY <2>1 DEF NamesKept
<1> QED BY <1>1, <1>2, <1>3, <1>17, <1>18, <1>19, <1>20, <1>21, CareKeeps

LEMMA KillReturnCares ==
    ASSUME LifeInv, NEW t \in Threads, KillReturn(t)
    PROVE  CareInv'
<1>1. PICK g : /\ g = Top(t).of /\ Executes(t, "kill")
               /\ parent' = [parent EXCEPT ![g] = Top(t).old]
               /\ calls' = Replaced(current[t], <<Doing("undo", g)>> \o Dropping(Present(parent[g])))
               /\ UNCHANGED <<life, home, attr, held, current, thread, deleteme>>
    BY DEF KillReturn, OldParent
<1>2. /\ Typed /\ CareInv /\ current[t] \in Greenlets
      /\ Len(calls[current[t]]) \in DOMAIN calls[current[t]]
      /\ Top(t) = calls[current[t]][Len(calls[current[t]])]
      /\ Top(t) \in Calls /\ Top(t).op = "kill"
    BY <1>1, Executing DEF LifeInv, Cared
<1>3. g \in Greenlets
    BY <1>1, <1>2, CallKinds
<1>4. PICK call \in Calls : call = Doing("undo", g) /\ call.op = "undo"
    BY <1>3, Constructors DEF Doing
<1>5. PICK s : s = Dropping(Present(parent[g])) /\ Tame(s, {})
    <2>1. parent[g] \in Greenlets \cup {NoOne}
        BY <1>2, <1>3 DEF Typed
    <2> QED BY <2>1, PresentListed, TameDropping
<1>6. Tame(<<call>>, {})
    BY <1>4, TameOne
<1>7. PICK r : r = <<call>> \o s /\ Tame(r, {})
    BY <1>5, <1>6, TameConcat
<1>8. NamesKept
    <2>1. \A u \in Threads : Top(t).old \in deleteme[u] => Top(t).old \in Weak
        BY <1>2 DEF CareInv, CareCalls, CareOK
    <2>2. ASSUME NEW u \in Threads, NEW x \in deleteme[u], x \notin Weak, Unnamed(x) PROVE Unnamed(x)'
        <3>1. x # Top(t).old
            BY <2>1, <2>2
        <3>2. \A h \in Greenlets : parent'[h] # x
            BY <1>1, <1>2, <2>2, <3>1 DEF Unnamed, Typed
        <3> QED BY <1>1, <2>2, <3>2 DEF Unnamed
    <2> QED BY <2>2 DEF NamesKept
<1> QED BY <1>1, <1>4, <1>5, <1>7, <1>8, ExecutedQuietly DEF Steady

-----------------------------------------------------------------------------
(* Steps that change lives, homes and threads. *)

\* What is parked stays as it was.
StayParked ==
    \A u \in Threads : \A g \in deleteme[u] : ParkOK(u, g) =>
        /\ thread'[u] # "destroyed" /\ (thread'[u] = "running" => thread[u] = "running")
        /\ (thread'[u] = "running" \/ g \notin Weak) /\ AsParked(u, g) => AsParked(u, g)'
        /\ g \notin Weak /\ Unnamed(g) /\ AsParked(u, g) => Unnamed(g)'

\* Whoever runs stays at home.
HomesStay == \A x \in Greenlets : Runs(x) => MainFor(x)' \in {MainFor(x), NoOne}

\* Beside c nobody becomes idle with calls, or dies while it runs.
OthersLive(c) ==
    \A x \in Greenlets \ {c} :
        /\ Idle(x)' => Idle(x) \/ calls'[x] = <<>>
        /\ Runs(x) /\ life'[x] = "dead" => life[x] = "dead" /\ calls'[x] = calls[x]

\* c goes on, or is dead and leaves.
LivesOn(c, n, r) ==
    \/ life'[c] = life[c] /\ GoesOn(c, n, r)
    \/ life'[c] = "dead" /\ n = 0 /\ Len(r) >= 1 /\ Leaving(r[1])

LEMMA UnownedNone ==
    ASSUME ControlInv
    PROVE  Unowned({})
<1> SUFFICES ASSUME NEW h \in Greenlets, NEW i \in DOMAIN calls[h],
                    calls[h][i].op = "destroy"
             PROVE  thread[calls[h][i].state] # "running"
    BY DEF Unowned
<1> QED BY DEF ControlInv, CallsInv, CallOK

LEMMA LifeKeeps ==
    ASSUME Typed, ControlInv, CareInv,
           NEW t \in Threads, thread[t] = "running", NEW c \in Greenlets, c = current[t],
           thread'[t] = "running", current'[t] = c,
           NEW n, NEW r, Becomes(c, n, r), NEW S, Tame(r, S),
           deleteme' = deleteme, ListStep(t, S),
           KillsKept, StayParked, RunnersStay,
           HomesStay, OthersLive(c), LivesOn(c, n, r)
    PROVE  CareInv'
<1>1. CareCalls /\ ParkInv /\ HomeInv /\ IdleInv /\ LeavingInv
    BY DEF CareInv
<1>2. Runs(c) /\ life[c] \in {"active", "dead"} /\ OthersKept(c) /\ Runs(c)'
    BY DEF Runs, ControlInv, CurrentInv, Becomes
<1>3. CareCalls'
    <2>2. Passing(S) /\ ListsKept({})
        BY <1>1, ListStepPasses
    <2>3. Careful(S)
        BY TameCareful, BecomesCareful
    <2> QED BY <1>1, <2>2, <2>3, UnownedNone, CareCallsKept
<1>4. ParkInv'
    <2>1. ParkedKept
        BY <1>1 DEF StayParked, ParkedKept, ParkInv
    <2> QED BY <1>1, <2>1, ParkKept
<1>5. HomeInv'
    <2>1. \A u \in Threads : thread[u] = "running" => current[u] \in Greenlets
        BY DEF ControlInv, CurrentInv
    <2> QED BY <1>1, <2>1, HomeKept DEF HomesStay
<1>6. IdleInv'
    <2>1. ~Idle(c)'
        BY <1>2 DEF Idle, LivesOn
    <2> QED BY <1>1, <1>2, <2>1, IdleKept DEF OthersLive
<1>7. LeavingInv'
    <2>1. life'[c] = "dead" => (n >= 1 /\ life[c] = "dead") \/ (Len(r) >= 1 /\ n = 0 /\ Leaving(r[1]))
        BY <1>1, <1>2, GoesOnLeaving DEF LivesOn
    <2> QED BY <1>1, <2>1, LeavingKept DEF OthersLive
<1> QED BY <1>3, <1>4, <1>5, <1>6, <1>7 DEF CareInv

\* A thread exits, and its main greenlet is left without calls.
LEMMA ExitCares ==
    ASSUME LifeInv, fault = "none", NEW t \in Threads, Exit(t)
    PROVE  CareInv' /\ KillsSame
<1>1. /\ thread[t] = "running" /\ current[t] = MainOf[t] /\ calls[MainOf[t]] = <<>>
      /\ thread' = [thread EXCEPT ![t] = "exited"]
      /\ UNCHANGED <<life, parent, home, attr, held, current, deleteme, calls>>
    BY DEF Exit
<1>2. Typed /\ ControlInv /\ CareCalls /\ ParkInv /\ HomeInv /\ IdleInv /\ LeavingInv
    <2>1. TypeOK
        BY DEF LifeInv, RefInv
    <2> QED BY <2>1, TypeOKTyped DEF LifeInv, RefInv, Controlled, Cared, CareInv
<1>3. /\ thread'[t] = "exited" /\ \A u \in Threads \ {t} : thread'[u] = thread[u]
      /\ \A u \in Threads : thread'[u] = "running" => thread[u] = "running" /\ u # t
      /\ \A x \in Greenlets : (Linked(x)' => Linked(x)) /\ MainFor(x)' = MainFor(x)
    BY <1>1, <1>2 DEF Typed, Linked, MainFor
<1>4. CareCalls'
    <2>1. KillsKept
        BY <1>1, <1>3 DEF KillsKept, KillOK
    <2>2. Careful({}) /\ Passing({}) /\ ListsKept({})
        BY <1>1 DEF Careful, Passing, ListsKept
    <2> QED BY <1>2, <2>1, <2>2, UnownedNone, CareCallsKept
<1>5. ParkInv'
    <2>1. ParkedKept
        BY <1>1, <1>2, <1>3 DEF ParkedKept, ParkInv, ParkOK, AsParked, Unnamed
    <2> QED BY <1>2, <2>1, ParkKept
<1>6. HomeInv'
    BY <1>1, <1>2, <1>3 DEF HomeInv, MainFor
<1>7. \A x \in Greenlets : Runs(x)' => Runs(x)
    BY <1>1, <1>3 DEF Runs
<1>8. IdleInv'
    <2> SUFFICES ASSUME NEW x \in Greenlets, Idle(x)', calls[x] # <<>> PROVE FALSE
        BY <1>1 DEF IdleInv
    <2>1. ~Idle(x) /\ x # MainOf[t]
        BY <1>1, <1>2 DEF IdleInv
    <2>2. Runs(x) /\ ~Runs(x)'
        BY <1>1, <2>1 DEF Idle
    <2> QED BY <1>1, <1>3, <2>1, <2>2 DEF Runs
<1>9. LeavingInv'
    BY <1>1, <1>2, <1>7 DEF LeavingInv
<1>10. KillsSame
    BY <1>1 DEF KillsSame, NoNewKills, KillsStay
<1> QED BY <1>4, <1>5, <1>6, <1>8, <1>9, <1>10 DEF CareInv

\* Nothing is on the list of a thread state when it goes.
LEMMA DestroyStepCares ==
    ASSUME LifeInv, NEW t \in Threads, DestroyStep(t)
    PROVE  CareInv' /\ KillsSame
<1>1. PICK u, s : /\ Executes(t, "destroy") /\ u = Top(t).state
                  /\ s \in {<<MainOf[u], MainOf[u]>> \o <<MainOf[u]>>, <<MainOf[u], MainOf[u]>> \o <<>>}
                  /\ thread' = [thread EXCEPT ![u] = "destroyed"]
                  /\ current' = [current EXCEPT ![u] = NoOne]
                  /\ calls' = Replaced(current[t], Dropping(s))
                  /\ UNCHANGED <<life, parent, home, attr, held, deleteme>>
    BY DEF DestroyStep
<1>2. /\ Typed /\ ControlInv /\ CareInv /\ thread[t] = "running"
      /\ current[t] \in Greenlets /\ calls[current[t]] # <<>>
      /\ Len(calls[current[t]]) \in DOMAIN calls[current[t]]
      /\ Top(t) = calls[current[t]][Len(calls[current[t]])] /\ Top(t) = Last(calls[current[t]])
      /\ Top(t) \in Calls /\ Top(t).op = "destroy"
    BY <1>1, Executing DEF LifeInv, Cared
<1>3. PICK c \in Greenlets : c = current[t]
    BY <1>2
<1>4. u \in Threads /\ thread[u] = "exited" /\ deleteme[u] = {}
    <2>1. CallOK(c, Len(calls[c]), Top(t)) /\ CareOK(c, Len(calls[c]), Top(t))
        BY <1>2, <1>3 DEF ControlInv, CallsInv, CareInv, CareCalls
    <2> QED BY <1>1, <1>2, <2>1, CallKinds DEF CallOK, CareOK
<1>5. PICK r : r = Dropping(s) /\ Tame(r, {}) /\ r \in Seq(Calls)
    <2>1. MainOf[u] \in Greenlets
        BY <1>4, MainOfAssumption
    <2>2. <<MainOf[u], MainOf[u]>> \in Seq(Greenlets) /\ <<MainOf[u]>> \in Seq(Greenlets)
          /\ <<>> \in Seq(Greenlets)
        BY <2>1
    <2>3. \A p, q \in Seq(Greenlets) : p \o q \in Seq(Greenlets)
        BY ConcatProperties
    <2>4. s \in Seq(Greenlets)
        BY <1>1, <2>2, <2>3
    <2> QED BY <2>4, TameDropping DEF Tame
<1>6. PICK n : n = Len(calls[c]) - 1 /\ Becomes(c, n, r)
    BY <1>1, <1>2, <1>3, <1>5, ReplacedBecomes
<1>7. /\ thread'[t] = "running" /\ current'[t] = c
      /\ \A w \in Threads : w # u => thread'[w] = thread[w] /\ current'[w] = current[w]
      /\ thread'[u] = "destroyed" /\ current'[u] = NoOne
    BY <1>1, <1>2, <1>3, <1>4 DEF Typed
<1>8. /\ RunnersStay
      /\ \A x \in Greenlets : (Linked(x)' => Linked(x)) /\ MainFor(x)' = MainFor(x)
      /\ \A x \in Greenlets : Runs(x) <=> Runs(x)'
    BY <1>1, <1>4, <1>7 DEF RunnersStay, Linked, MainFor, Runs
<1>9. KillsKept
    BY <1>1, <1>8 DEF KillsKept, KillOK
<1>10. StayParked
    <2>1. ASSUME NEW w \in Threads, NEW g \in deleteme[w] PROVE w # u /\ g # NoOne
        BY <1>2, <1>4, ThreadsAssumption DEF Typed
    <2>2. ASSUME NEW g, g # NoOne, Unnamed(g) PROVE Unnamed(g)'
        BY <1>1, <1>7, <2>2 DEF Unnamed
    <2> QED BY <1>1, <1>7, <2>1, <2>2 DEF StayParked, ParkOK, AsParked
<1>11. OthersLive(c)
    BY <1>1, <1>2, <1>3, <1>8 DEF Idle, Replaced, Typed, OthersLive
<1>12. LivesOn(c, n, r)
    BY <1>1, <1>2, <1>3, <1>6 DEF GoesOn, Leaving, LivesOn
<1>13. HomesStay /\ deleteme' = deleteme /\ ListStep(t, {})
    BY <1>1, <1>8 DEF HomesStay, ListStep
<1>14. RunnersStay /\ thread'[t] = "running" /\ current'[t] = c
    BY <1>7, <1>8
<1>15. Typed /\ ControlInv /\ CareInv /\ thread[t] = "running"
    BY <1>2
<1>16. KillsSame
    <2>1. NoKills(r) /\ LastStays(c, n)
        BY <1>2, <1>3, <1>5, <1>6 DEF Tame, NoKills, LastStays
    <2>2. \A x \in Greenlets \ {c} : calls'[x] = calls[x] \/ Unwound(x)
        BY <1>1, <1>2, <1>3 DEF Replaced, Typed
    <2> QED BY <1>2, <1>3, <1>5, <1>6, <2>1, <2>2, BecomesKills
<1> QED BY <1>3, <1>5, <1>6, <1>9, <1>10, <1>11, <1>12, <1>13, <1>14, <1>15, <1>16, LifeKeeps

\* What is known of the innermost call when it is executed
LEMMA Innermost ==
    ASSUME LifeInv, NEW t \in Threads, NEW op, Executes(t, op)
    PROVE  /\ fault = "none" /\ Typed /\ ControlInv /\ CareInv /\ thread[t] = "running"
           /\ current[t] \in Greenlets /\ life[current[t]] \in {"active", "dead"}
           /\ calls[current[t]] # <<>> /\ calls[current[t]] \in Seq(Calls)
           /\ Top(t) \in Calls /\ Top(t).op = op /\ Top(t) = Last(calls[current[t]])
           /\ CallOK(current[t], Len(calls[current[t]]), Top(t))
           /\ CareOK(current[t], Len(calls[current[t]]), Top(t))
           /\ \A x \in Greenlets : rc[x] = References(x)
<1>1. /\ fault = "none" /\ Typed /\ ControlInv /\ CareInv /\ thread[t] = "running"
      /\ current[t] \in Greenlets /\ calls[current[t]] \in Seq(Calls) /\ calls[current[t]] # <<>>
      /\ Len(calls[current[t]]) \in DOMAIN calls[current[t]]
      /\ Top(t) = Last(calls[current[t]]) /\ Top(t) \in Calls /\ Top(t).op = op
      /\ Top(t) = calls[current[t]][Len(calls[current[t]])]
      /\ \A x \in Greenlets : rc[x] = References(x)
    BY Executing DEF LifeInv, Cared
<1>2. CallsInv /\ CareCalls /\ life[current[t]] \in {"active", "dead"}
    BY <1>1 DEF ControlInv, CurrentInv, CareInv
<1>3. CallOK(current[t], Len(calls[current[t]]), Top(t))
    BY <1>1, <1>2 DEF CallsInv
<1>4. CareOK(current[t], Len(calls[current[t]]), Top(t))
    BY <1>1, <1>2 DEF CareCalls
<1> QED BY <1>1, <1>2, <1>3, <1>4

LEMMA HomeGreenlet ==
    ASSUME Typed, NEW g \in Greenlets
    PROVE  home[g] \in Greenlets \cup {NoOne}
<1>1. home[g] \in Mains \cup {NoOne}
    BY DEF Typed
<1>2. Mains \subseteq Greenlets
    BY MainOfAssumption DEF Mains
<1> QED BY <1>1, <1>2

\* A greenlet that has run dies and is on its way to its parent.
LEMMA DieCares ==
    ASSUME LifeInv, NEW t \in Threads, Die(t), fault' = "none"
    PROVE  CareInv' /\ KillsSame
<1>1. /\ Executes(t, "finish") /\ TryParent(current[t], parent[current[t]])
      /\ life' = [life EXCEPT ![current[t]] = "dead"]
      /\ UNCHANGED <<parent, home, attr, held, current, thread, deleteme>>
    BY DEF Die
<1>2. /\ Typed /\ ControlInv /\ CareInv /\ thread[t] = "running" /\ current[t] \in Greenlets
      /\ calls[current[t]] # <<>> /\ life[current[t]] \in {"active", "dead"}
      /\ Len(calls[current[t]]) = 1
    <2>1. CareOK(current[t], Len(calls[current[t]]), Top(t)) /\ Top(t).op = "finish"
        BY <1>1, Innermost
    <2> QED BY <1>1, <2>1, Innermost DEF CareOK
<1>3. PICK c \in Greenlets : c = current[t]
    BY <1>2
<1>4. PICK p \in Greenlets : p = parent[c] /\ calls' = Replaced(c, <<SwitchTo(p, TRUE)>>)
    <2>1. parent[c] \in Greenlets \cup {NoOne} /\ parent[c] # NoOne
        BY <1>1, <1>2, <1>3 DEF TryParent, Typed
    <2> QED BY <1>1, <1>3, <2>1 DEF TryParent
<1>5. PICK call \in Calls : call = SwitchTo(p, TRUE) /\ call.op = "switch" /\ Leaving(call)
    BY Constructors DEF SwitchTo, Leaving
<1>6. PICK r \in Seq(Calls) : r = <<call>> /\ Tame(r, {}) /\ Len(r) = 1 /\ r[1] = call
    BY <1>5, TameOne
<1>7. PICK n : n = 0 /\ Becomes(c, n, r)
    <2>1. Becomes(c, Len(calls[c]) - 1, r)
        BY <1>2, <1>3, <1>4, <1>5, <1>6, ReplacedBecomes
    <2>2. Len(calls[c]) - 1 = 0
        BY <1>2, <1>3
    <2> QED BY <2>1, <2>2
<1>8. /\ life'[c] = "dead" /\ \A x \in Greenlets \ {c} : life'[x] = life[x] /\ calls'[x] = calls[x]
      /\ \A x \in Greenlets : life[x] \in {"active", "dead"} => life'[x] \in {"active", "dead"}
    BY <1>1, <1>2, <1>3, <1>4 DEF Typed, Replaced
<1>9. /\ \A x \in Greenlets : (Linked(x)' <=> Linked(x)) /\ MainFor(x)' = MainFor(x)
      /\ \A x \in Greenlets : Runs(x)' <=> Runs(x)
    BY <1>1 DEF Linked, MainFor, Runs
<1>10. KillsKept
    BY <1>8, <1>9 DEF KillsKept, KillOK
<1>11. StayParked
    <2>1. \A u \in Threads : deleteme[u] \subseteq Greenlets
        BY <1>2 DEF Typed
    <2> QED BY <1>1, <1>8, <2>1 DEF StayParked, ParkOK, AsParked, Unnamed
<1>12. RunnersStay /\ HomesStay /\ OthersLive(c) /\ deleteme' = deleteme /\ ListStep(t, {})
    BY <1>1, <1>8, <1>9 DEF RunnersStay, HomesStay, OthersLive, Idle, ListStep
<1>13. LivesOn(c, n, r)
    <2>1. Leaving(r[1]) /\ Len(r) >= 1
        <3>1. Len(r) >= 1
            BY <1>6
        <3> QED BY <1>5, <1>6, <3>1
    <2> QED BY <1>7, <1>8, <2>1 DEF LivesOn
<1>14. Typed /\ ControlInv /\ CareInv /\ thread[t] = "running" /\ thread'[t] = "running" /\ current'[t] = c
    BY <1>1, <1>2, <1>3
<1>15. KillsSame
    <2>1. NoKills(r) /\ LastStays(c, n)
        <3>1. NoKills(r)
            BY <1>6 DEF Tame, NoKills
        <3>2. Last(calls[c]).op = "finish"
            BY <1>1, <1>3 DEF Executes, Top
        <3>3. n = Len(calls[c]) - 1
            BY <1>2, <1>3, <1>7
        <3> QED BY <1>2, <1>3, <3>1, <3>2, <3>3 DEF LastStays
    <2>2. \A x \in Greenlets \ {c} : calls'[x] = calls[x] \/ Unwound(x)
        BY <1>8
    <2> QED BY <1>2, <1>3, <1>6, <1>7, <2>1, <2>2, BecomesKills
<1> QED BY <1>3, <1>6, <1>7, <1>10, <1>11, <1>12, <1>13, <1>14, <1>15, LifeKeeps

\* The new greenlet has been on no list.
LEMMA NewStepCares ==
    ASSUME LifeInv, NEW t \in Threads, NewStep(t)
    PROVE  CareInv' /\ KillsSame
<1>1. PICK g : /\ Executes(t, "new") /\ g = Top(t).of
               /\ life' = [life EXCEPT ![g] = "new"]
               /\ parent' = [parent EXCEPT ![g] = current[t]]
               /\ held' = [held EXCEPT ![current[t]] = @ \cup {g}]
               /\ calls' = Replaced(current[t], <<>>)
               /\ UNCHANGED <<home, attr, current, thread, deleteme>>
    BY DEF NewStep
<1>2. /\ Typed /\ ControlInv /\ CareInv /\ thread[t] = "running" /\ current[t] \in Greenlets
      /\ calls[current[t]] # <<>> /\ life[current[t]] \in {"active", "dead"}
      /\ Top(t) = Last(calls[current[t]]) /\ Top(t).op = "new" /\ g \in Greenlets
      /\ life[g] = "none"
    <2>1. CallOK(current[t], Len(calls[current[t]]), Top(t)) /\ Top(t).op = "new"
        BY <1>1, Innermost
    <2>2. g \in Greenlets
        BY <1>1, TopOf DEF LifeInv
    <2> QED BY <1>1, <2>1, <2>2, Innermost DEF CallOK
<1>3. PICK c \in Greenlets : c = current[t]
    BY <1>2
<1>4. PICK r \in Seq(Calls) : r = <<>> /\ Tame(r, {})
    <2>1. <<>> \in Seq(Calls)
        OBVIOUS
    <2> QED BY <2>1, TameEmpty
<1>5. PICK n : n = Len(calls[c]) - 1 /\ Becomes(c, n, r)
    BY <1>1, <1>2, <1>3, <1>4, ReplacedBecomes
<1>6. /\ g # c /\ life'[g] = "new" /\ life'[c] = life[c]
      /\ \A x \in Greenlets : x # g => life'[x] = life[x]
      /\ \A x \in Greenlets : x # c => calls'[x] = calls[x]
    BY <1>1, <1>2, <1>3 DEF Typed, Replaced
<1>7. /\ \A x \in Greenlets : (Linked(x)' <=> Linked(x)) /\ MainFor(x)' = MainFor(x)
      /\ \A x \in Greenlets : Runs(x)' <=> Runs(x)
    BY <1>1 DEF Linked, MainFor, Runs
<1>8. KillsKept
    BY <1>2, <1>6, <1>7 DEF KillsKept, KillOK
<1>9. StayParked
    <2> SUFFICES ASSUME NEW u \in Threads, NEW x \in deleteme[u], ParkOK(u, x), AsParked(u, x)
                 PROVE  AsParked(u, x)' /\ (Unnamed(x) => Unnamed(x)')
        BY <1>1 DEF StayParked, ParkOK
    <2>1. x \in Greenlets /\ x # g
        BY <1>2 DEF Typed, AsParked
    <2>2. AsParked(u, x)'
        BY <1>1, <1>6, <2>1 DEF AsParked
    <2>3. ASSUME Unnamed(x) PROVE Unnamed(x)'
        <3>1. \A h \in Holders : x \notin held'[h]
            BY <1>1, <1>2, <2>1, <2>3 DEF Unnamed, Typed
        <3>2. \A h \in Greenlets : parent'[h] # x
            BY <1>1, <1>2, <2>3 DEF Unnamed, Typed
        <3> QED BY <1>1, <2>3, <3>1, <3>2 DEF Unnamed
    <2> QED BY <2>2, <2>3
<1>10. RunnersStay /\ HomesStay /\ deleteme' = deleteme /\ ListStep(t, {})
    BY <1>1, <1>7 DEF RunnersStay, HomesStay, ListStep
<1>11. OthersLive(c)
    BY <1>2, <1>6, <1>7 DEF OthersLive, Idle
<1>12. LivesOn(c, n, r)
    BY <1>2, <1>3, <1>5, <1>6 DEF LivesOn, GoesOn, Leaving
<1>13. Typed /\ ControlInv /\ CareInv /\ thread[t] = "running" /\ thread'[t] = "running" /\ current'[t] = c
    BY <1>1, <1>2, <1>3
<1>14. KillsSame
    <2>1. NoKills(r) /\ LastStays(c, n)
        BY <1>2, <1>3, <1>4, <1>5 DEF Tame, NoKills, LastStays
    <2>2. \A x \in Greenlets \ {c} : calls'[x] = calls[x] \/ Unwound(x)
        BY <1>6
    <2> QED BY <1>2, <1>3, <1>4, <1>5, <2>1, <2>2, BecomesKills
<1> QED BY <1>3, <1>4, <1>5, <1>8, <1>9, <1>10, <1>11, <1>12, <1>13, <1>14, LifeKeeps

\* A greenlet of a dead thread, which does not run, is deactivated.
LEMMA Deactivated ==
    ASSUME Typed, ControlInv, CareInv, NEW g \in Greenlets, life[g] = "active", ~Linked(g),
           life' = [life EXCEPT ![g] = "new"], held' = [held EXCEPT ![g] = {}],
           UNCHANGED <<parent, home, attr, current, thread, deleteme>>,
           \A u \in Threads : g \in deleteme[u] => g \in Weak,
           NEW c \in Greenlets, Runs(c),
           \A x \in Greenlets \ {c} : calls'[x] = IF x = g THEN <<>> ELSE calls[x]
    PROVE  /\ KillsKept /\ StayParked /\ RunnersStay /\ HomesStay /\ OthersLive(c)
           /\ ~Runs(g) /\ g # c /\ life'[c] = life[c]
<1>1. /\ life'[g] = "new" /\ \A x \in Greenlets : x # g => life'[x] = life[x]
      /\ \A h \in Holders : held'[h] \subseteq held[h]
    BY DEF Typed
<1>2. /\ \A x \in Greenlets : (Linked(x)' <=> Linked(x)) /\ MainFor(x)' = MainFor(x)
      /\ \A x \in Greenlets : Runs(x)' <=> Runs(x)
    BY DEF Linked, MainFor, Runs
<1>3. ~Runs(g)
    BY DEF Runs, ControlInv, CurrentInv, Linked
<1>4. KillsKept
    <2> SUFFICES ASSUME NEW h \in Greenlets, NEW x \in Greenlets, KillOK(h, x), Linked(h)
                 PROVE  MainFor(h) = MainFor(x) /\ life'[x] \in {"active", "dead"}
        BY <1>2 DEF KillsKept, KillOK
    <2>1. MainFor(h) = MainFor(x) /\ life[x] \in {"active", "dead"}
        BY DEF KillOK
    <2>2. x # g
        BY <2>1 DEF Linked
    <2> QED BY <1>1, <2>1, <2>2
<1>5. StayParked
    <2> SUFFICES ASSUME NEW u \in Threads, NEW x \in deleteme[u], ParkOK(u, x),
                        thread[u] = "running" \/ x \notin Weak, AsParked(u, x)
                 PROVE  AsParked(u, x)' /\ (Unnamed(x) => Unnamed(x)')
        BY <1>1 DEF StayParked, ParkOK
    <2>1. x \in Greenlets /\ x # g
        BY DEF Typed, ParkOK, AsParked, Linked, MainFor
    <2>2. AsParked(u, x)'
        BY <1>1, <2>1 DEF AsParked
    <2>3. Unnamed(x) => Unnamed(x)'
        BY <1>1 DEF Unnamed
    <2> QED BY <2>2, <2>3
<1>6. RunnersStay /\ HomesStay
    BY <1>2 DEF RunnersStay, HomesStay
<1>7. OthersLive(c)
    BY <1>1, <1>2 DEF OthersLive, Idle
<1> QED BY <1>1, <1>3, <1>4, <1>5, <1>6, <1>7

LEMMA LookDeadCares ==
    ASSUME LifeInv, NEW t \in Threads, NEW g \in Greenlets, LookDead(t, g)
    PROVE  CareInv' /\ KillsSame
<1>1. /\ PythonRuns(t) /\ g \in Names(t) /\ life[g] = "active" /\ ~Linked(g)
      /\ life' = [life EXCEPT ![g] = "new"] /\ held' = [held EXCEPT ![g] = {}]
      /\ calls' = [calls EXCEPT ![g] = <<>>]
      /\ UNCHANGED <<parent, home, attr, current, thread, deleteme>>
    BY DEF LookDead, InDeadThread, Abandon
<1>2. /\ Typed /\ ControlInv /\ CareInv /\ thread[t] = "running" /\ current[t] \in Greenlets
    BY <1>1, Running DEF LifeInv, Cared
<1>3. PICK c \in Greenlets : c = current[t] /\ Runs(c)
    BY <1>2 DEF Runs
<1>4. \A u \in Threads : g \in deleteme[u] => g \in Weak
    <2> SUFFICES ASSUME NEW u \in Threads, g \in deleteme[u], g \notin Weak PROVE FALSE
        OBVIOUS
    <2>1. Unnamed(g)
        BY <1>2 DEF CareInv, ParkInv, ParkOK
    <2> QED BY <1>1, <2>1, ParkedNameless DEF LifeInv
<1>5. \A x \in Greenlets : calls'[x] = IF x = g THEN <<>> ELSE calls[x]
    BY <1>1, <1>2 DEF Typed
<1>6. /\ KillsKept /\ StayParked /\ RunnersStay /\ HomesStay /\ OthersLive(c)
      /\ g # c /\ life'[c] = life[c]
    BY <1>1, <1>2, <1>3, <1>4, <1>5, Deactivated
<1>7. PICK r \in Seq(Calls) : r = <<>> /\ Tame(r, {})
    <2>1. <<>> \in Seq(Calls)
        OBVIOUS
    <2> QED BY <2>1, TameEmpty
<1>8. PICK n : n = Len(calls[c]) /\ Becomes(c, n, r)
    <2>1. calls[c] \in Seq(Calls)
        BY <1>2 DEF Typed
    <2>2. calls'[c] = calls[c] \o r
        BY <1>5, <1>6, <1>7, <2>1, ConcatEmptySeq
    <2>3. OthersKept(c)
        BY <1>5 DEF OthersKept
    <2> QED BY <1>2, <2>2, <2>3, AddedBecomes
<1>9. LivesOn(c, n, r) /\ deleteme' = deleteme /\ ListStep(t, {})
    BY <1>1, <1>6, <1>8 DEF LivesOn, GoesOn, ListStep
<1>10. Typed /\ ControlInv /\ CareInv /\ thread[t] = "running" /\ thread'[t] = "running" /\ current'[t] = c
    BY <1>1, <1>2, <1>3
<1>11. KillsSame
    <2>1. NoKills(r) /\ LastStays(c, n)
        BY <1>3, <1>7, <1>8 DEF Tame, NoKills, LastStays
    <2>2. \A x \in Greenlets \ {c} : calls'[x] = calls[x] \/ Unwound(x)
        BY <1>1, <1>5 DEF Unwound
    <2> QED BY <1>2, <1>3, <1>7, <1>8, <2>1, <2>2, BecomesKills
<1> QED BY <1>3, <1>6, <1>7, <1>8, <1>9, <1>10, <1>11, LifeKeeps

LEMMA GiveUpCares ==
    ASSUME LifeInv, NEW t \in Threads, GiveUp(t)
    PROVE  CareInv' /\ KillsSame
<1>1. PICK g : /\ Executes(t, "dealloc") /\ g = Top(t).of /\ life[g] = "active" /\ ~Linked(g)
               /\ life' = [life EXCEPT ![g] = "new"] /\ held' = [held EXCEPT ![g] = {}]
               /\ calls' = [Replaced(current[t], <<Doing("undo", g)>>) EXCEPT ![g] = <<>>]
               /\ UNCHANGED <<parent, home, attr, current, thread, deleteme>>
    BY DEF GiveUp, Abandon
<1>2. /\ Typed /\ ControlInv /\ CareInv /\ thread[t] = "running" /\ current[t] \in Greenlets
      /\ calls[current[t]] # <<>> /\ Top(t) = Last(calls[current[t]]) /\ Top(t).op = "dealloc"
      /\ g \in Greenlets /\ rc[g] = 0 /\ rc[g] = References(g)
    <2>1. g \in Greenlets
        BY <1>1, TopOf DEF LifeInv
    <2>2. Top(t).op = "dealloc" /\ CallOK(current[t], Len(calls[current[t]]), Top(t))
        BY <1>1, Innermost
    <2>3. rc[g] = 0
        BY <1>1, <2>2 DEF CallOK
    <2> QED BY <1>1, <2>1, <2>2, <2>3, Innermost
<1>3. PICK c \in Greenlets : c = current[t] /\ Runs(c)
    BY <1>2 DEF Runs
<1>4. Unnamed(g) /\ \A u \in Threads : g \in deleteme[u] => g \in Weak
    BY <1>2, ZeroCount
<1>5. g # c
    BY <1>3, <1>4 DEF Unnamed
<1>6. PICK call \in Calls : call = Doing("undo", g) /\ call.op = "undo"
    BY <1>2, Constructors DEF Doing
<1>7. PICK r \in Seq(Calls) : r = <<call>> /\ Tame(r, {})
    BY <1>6, TameOne
<1>8. /\ \A x \in Greenlets \ {c} : calls'[x] = IF x = g THEN <<>> ELSE calls[x]
      /\ calls'[c] = Front(calls[c]) \o r
    BY <1>1, <1>2, <1>3, <1>5, <1>6, <1>7 DEF Typed, Replaced
<1>9. KillsKept /\ StayParked /\ RunnersStay /\ HomesStay /\ OthersLive(c) /\ life'[c] = life[c]
    BY <1>1, <1>2, <1>3, <1>4, <1>8, Deactivated
<1>10. PICK n : n = Len(calls[c]) - 1 /\ Becomes(c, n, r)
    <2>1. OthersKept(c)
        BY <1>8 DEF OthersKept
    <2> QED BY <1>2, <1>3, <1>8, <2>1, FrontBecomes
<1>11. LivesOn(c, n, r) /\ deleteme' = deleteme /\ ListStep(t, {})
    BY <1>1, <1>2, <1>3, <1>9, <1>10 DEF LivesOn, GoesOn, ListStep, Leaving
<1>12. Typed /\ ControlInv /\ CareInv /\ thread[t] = "running" /\ thread'[t] = "running" /\ current'[t] = c
    BY <1>1, <1>2, <1>3
<1>13. KillsSame
    <2>1. NoKills(r) /\ LastStays(c, n)
        BY <1>2, <1>3, <1>7, <1>10 DEF Tame, NoKills, LastStays
    <2>2. \A x \in Greenlets \ {c} : calls'[x] = calls[x] \/ Unwound(x)
        BY <1>1, <1>8 DEF Unwound
    <2> QED BY <1>2, <1>3, <1>7, <1>10, <2>1, <2>2, BecomesKills
<1> QED BY <1>3, <1>7, <1>9, <1>10, <1>11, <1>12, <1>13, LifeKeeps

LEMMA DeleteCares ==
    ASSUME LifeInv, NEW t \in Threads, Delete(t)
    PROVE  CareInv' /\ KillsSame
<1>1. PICK g : /\ Executes(t, "delete") /\ g = Top(t).of
               /\ life' = [life EXCEPT ![g] = "freed"] /\ attr' = [attr EXCEPT ![g] = {}]
               /\ parent' = [parent EXCEPT ![g] = NoOne] /\ home' = [home EXCEPT ![g] = NoOne]
               /\ calls' = Replaced(current[t], Dropping(SetToSeq(attr[g]) \o Present(parent[g])
                                                         \o Present(home[g])))
               /\ UNCHANGED <<held, current, thread, deleteme>>
    BY DEF Delete
<1>2. /\ Typed /\ ControlInv /\ CareInv /\ thread[t] = "running" /\ current[t] \in Greenlets
      /\ calls[current[t]] # <<>> /\ Top(t) = Last(calls[current[t]]) /\ Top(t).op = "delete"
      /\ g \in Greenlets /\ rc[g] = 0 /\ rc[g] = References(g)
    <2>1. g \in Greenlets
        BY <1>1, TopOf DEF LifeInv
    <2>2. Top(t).op = "delete" /\ CallOK(current[t], Len(calls[current[t]]), Top(t))
        BY <1>1, Innermost
    <2>3. rc[g] = 0
        BY <1>1, <2>2 DEF CallOK
    <2> QED BY <1>1, <2>1, <2>2, <2>3, Innermost
<1>3. PICK c \in Greenlets : c = current[t]
    BY <1>2
<1>4. Disowned(g) /\ Unnamed(g) /\ \A u \in Threads : g \notin deleteme[u]
    BY <1>2, ZeroCount
<1>5. g # c /\ ~Runs(g)
    BY <1>3, <1>4 DEF Unnamed, Runs
<1>6. PICK r \in Seq(Calls) : /\ r = Dropping(SetToSeq(attr[g]) \o Present(parent[g]) \o Present(home[g]))
                              /\ Tame(r, {})
    <2>1. attr[g] \in SUBSET Greenlets /\ parent[g] \in Greenlets \cup {NoOne}
        BY <1>2 DEF Typed
    <2>2. SetToSeq(attr[g]) \in Seq(Greenlets)
        BY <2>1, OccursSetToSeq
    <2>3. Present(parent[g]) \in Seq(Greenlets) /\ Present(home[g]) \in Seq(Greenlets)
        BY <1>2, <2>1, HomeGreenlet, PresentListed
    <2>4. \A p, q \in Seq(Greenlets) : p \o q \in Seq(Greenlets)
        BY ConcatProperties
    <2>5. SetToSeq(attr[g]) \o Present(parent[g]) \o Present(home[g]) \in Seq(Greenlets)
        BY <2>2, <2>3, <2>4
    <2> QED BY <2>5, TameDropping DEF Tame
<1>7. PICK n : n = Len(calls[c]) - 1 /\ Becomes(c, n, r)
    BY <1>1, <1>2, <1>3, <1>6, ReplacedBecomes
<1>8. /\ life'[g] = "freed" /\ home'[g] = NoOne
      /\ \A x \in Greenlets : x # g => life'[x] = life[x] /\ home'[x] = home[x]
      /\ \A x \in Greenlets : x # c => calls'[x] = calls[x]
    BY <1>1, <1>2, <1>3 DEF Typed, Replaced
<1>9. /\ \A x \in Greenlets : MainFor(x)' = MainFor(x) \/ (x = g /\ MainFor(x)' = NoOne)
      /\ \A x \in Greenlets : Linked(x)' => Linked(x) /\ MainFor(x)' = MainFor(x)
      /\ \A x \in Greenlets : Runs(x)' <=> Runs(x)
    <2>1. \A x \in Greenlets : MainFor(x)' = MainFor(x) \/ (x = g /\ MainFor(x)' = NoOne)
        BY <1>8 DEF MainFor
    <2>2. \A u \in Threads : MainOf[u] # NoOne
        BY MainOfAssumption, ThreadsAssumption
    <2>3. \A x \in Greenlets : Linked(x)' => Linked(x) /\ MainFor(x)' = MainFor(x)
        BY <1>1, <2>1, <2>2 DEF Linked
    <2> QED BY <1>1, <2>1, <2>3 DEF Runs
<1>10. KillsKept
    <2> SUFFICES ASSUME NEW h \in Greenlets, NEW i \in DOMAIN calls[h], NEW x \in Greenlets,
                        calls[h][i].op = "kill", calls[h][i].of = x, KillOK(h, x)
                 PROVE  KillOK(h, x)'
        BY DEF KillsKept
    <2>1. x # g
        BY <1>4, DisownedCalls
    <2> QED BY <1>8, <1>9, <2>1 DEF KillOK
<1>11. StayParked
    <2> SUFFICES ASSUME NEW u \in Threads, NEW x \in deleteme[u], ParkOK(u, x)
                 PROVE  (AsParked(u, x) => AsParked(u, x)') /\ (Unnamed(x) => Unnamed(x)')
        BY <1>1 DEF StayParked, ParkOK
    <2>1. x \in Greenlets /\ x # g
        BY <1>2, <1>4 DEF Typed
    <2>2. \A y \in Greenlets : (parent'[y] = parent[y] \/ parent'[y] = NoOne) /\ attr'[y] \subseteq attr[y]
        BY <1>1, <1>2 DEF Typed
    <2>3. Unnamed(x) => Unnamed(x)'
        BY <1>1, <2>1, <2>2, ThreadsAssumption DEF Unnamed
    <2> QED BY <1>8, <2>1, <2>3 DEF AsParked
<1>12. RunnersStay /\ HomesStay /\ deleteme' = deleteme /\ ListStep(t, {})
    BY <1>1, <1>9 DEF RunnersStay, HomesStay, ListStep
<1>13. OthersLive(c)
    BY <1>8, <1>9 DEF OthersLive, Idle
<1>14. LivesOn(c, n, r)
    BY <1>2, <1>3, <1>5, <1>7, <1>8 DEF LivesOn, GoesOn, Leaving
<1>15. Typed /\ ControlInv /\ CareInv /\ thread[t] = "running" /\ thread'[t] = "running" /\ current'[t] = c
    BY <1>1, <1>2, <1>3
<1>16. KillsSame
    <2>1. NoKills(r) /\ LastStays(c, n)
        BY <1>2, <1>3, <1>6, <1>7 DEF Tame, NoKills, LastStays
    <2>2. \A x \in Greenlets \ {c} : calls'[x] = calls[x] \/ Unwound(x)
        BY <1>8
    <2> QED BY <1>2, <1>3, <1>6, <1>7, <2>1, <2>2, BecomesKills
<1> QED BY <1>3, <1>6, <1>7, <1>10, <1>11, <1>12, <1>13, <1>14, <1>15, <1>16, LifeKeeps

\* A greenlet on a list that is being cleared loses its home: no kill is about it.
LEMMA MurderCares ==
    ASSUME LifeInv, NEW t \in Threads, Murder(t), fault' = "none"
    PROVE  CareInv' /\ KillsSame
<1>1. PICK g \in Top(t).todo :
          /\ Executes(t, "clear") /\ home' = [home EXCEPT ![g] = NoOne]
          /\ ~(life[g] = "active" /\ Linked(g))
          /\ \/ /\ life[g] = "active" /\ life' = [life EXCEPT ![g] = "new"]
                /\ held' = [held EXCEPT ![g] = {}]
                /\ calls' = [Replaced(current[t], Clearing(Top(t).todo \ {g}, TRUE)
                                                      \o Dropping(Present(home[g]) \o <<g>>))
                                 EXCEPT ![g] = <<>>]
             \/ /\ life[g] # "active" /\ UNCHANGED <<life, held>>
                /\ calls' = Replaced(current[t], Clearing(Top(t).todo \ {g}, TRUE)
                                                     \o Dropping(Present(home[g]) \o <<g>>))
          /\ UNCHANGED <<parent, attr, current, thread, deleteme>>
    BY DEF Murder, Abandon
<1>2. /\ Typed /\ ControlInv /\ CareInv /\ thread[t] = "running" /\ current[t] \in Greenlets
      /\ calls[current[t]] # <<>> /\ calls[current[t]] \in Seq(Calls)
      /\ Top(t) = Last(calls[current[t]]) /\ Top(t).op = "clear" /\ Top(t) \in Calls
      /\ CareOK(current[t], Len(calls[current[t]]), Top(t))
    BY <1>1, Innermost
<1>3. PICK c \in Greenlets : c = current[t] /\ Runs(c)
    BY <1>2 DEF Runs
<1>4. PICK S \in SUBSET Greenlets : S = Top(t).todo
    BY <1>2, CallKinds
<1>5. g \in Greenlets /\ g \in S
    BY <1>1, <1>4
<1>6. \A x \in S : Listing(x)
    <2>1. PICK i : i = Len(calls[c]) /\ i \in DOMAIN calls[c] /\ Top(t) = calls[c][i]
        BY <1>1, <1>3, Executing DEF LifeInv
    <2> QED BY <1>2, <1>4, <2>1 DEF Listing
<1>7. /\ \A u \in Threads : g \notin deleteme[u]
      /\ \A h \in Greenlets : \A i \in DOMAIN calls[h] : calls[h][i].op = "kill" => calls[h][i].of # g
    <2>1. \A u \in Threads : g \notin deleteme[u]
        BY <1>2, <1>4, <1>5 DEF CareOK
    <2> QED BY <1>2, <1>5, <1>6, <2>1 DEF CareInv, CareCalls, CareOK
<1>8. life[g] = "active" => g # c
    BY <1>1, <1>2, <1>3 DEF ControlInv, CurrentInv, Linked
<1>9. PICK r \in Seq(Calls) :
          /\ r = Clearing(S \ {g}, TRUE) \o Dropping(Present(home[g]) \o <<g>>)
          /\ Tame(r, S)
    <2>1. S \ {g} \in SUBSET Greenlets
        OBVIOUS
    <2>2. Tame(Clearing(S \ {g}, TRUE), S)
        BY <2>1, TameClearing, TameWithin
    <2>3. home[g] \in Greenlets \cup {NoOne}
        BY <1>2, <1>5, HomeGreenlet
    <2>4. Present(home[g]) \in Seq(Greenlets) /\ <<g>> \in Seq(Greenlets)
        BY <1>5, <2>3, PresentListed
    <2>5. \A p, q \in Seq(Greenlets) : p \o q \in Seq(Greenlets)
        BY ConcatProperties
    <2>6. Present(home[g]) \o <<g>> \in Seq(Greenlets)
        BY <2>4, <2>5
    <2>7. Tame(Dropping(Present(home[g]) \o <<g>>), {}) /\ {} \subseteq S
        BY <2>6, TameDropping
    <2>8. Tame(Dropping(Present(home[g]) \o <<g>>), S)
        BY <2>7, TameWithin
    <2>9. Tame(Clearing(S \ {g}, TRUE) \o Dropping(Present(home[g]) \o <<g>>), S)
        BY <2>2, <2>8, TameConcat
    <2>10. PICK r : r = Clearing(S \ {g}, TRUE) \o Dropping(Present(home[g]) \o <<g>>) /\ Tame(r, S)
        BY <2>9
    <2> QED BY <2>10 DEF Tame
<1>10. /\ calls'[c] = Front(calls[c]) \o r
       /\ \A x \in Greenlets \ {c} : calls'[x] = calls[x] \/ (x = g /\ life[g] = "active" /\ calls'[x] = <<>>)
       /\ life[g] = "active" => calls'[g] = <<>>
    <2>1. calls \in [Greenlets -> Seq(Calls)] /\ calls[c] \in Seq(Calls)
        BY <1>2 DEF Typed
    <2>2. PICK v : v = Front(calls[c]) \o r /\ Replaced(c, r) = [calls EXCEPT ![c] = v]
        BY DEF Replaced
    <2>3. \/ life[g] # "active" /\ calls' = [calls EXCEPT ![c] = v]
          \/ life[g] = "active" /\ calls' = [[calls EXCEPT ![c] = v] EXCEPT ![g] = <<>>]
        BY <1>1, <1>3, <1>4, <1>9, <2>2
    <2>4. CASE life[g] # "active" /\ calls' = [calls EXCEPT ![c] = v]
        BY <2>1, <2>2, <2>4
    <2>5. CASE life[g] = "active" /\ calls' = [[calls EXCEPT ![c] = v] EXCEPT ![g] = <<>>]
        BY <1>5, <1>8, <2>1, <2>2, <2>5
    <2> QED BY <2>3, <2>4, <2>5
<1>11. PICK n : n = Len(calls[c]) - 1 /\ Becomes(c, n, r)
    <2>1. OthersKept(c)
        BY <1>10 DEF OthersKept
    <2> QED BY <1>2, <1>3, <1>10, <2>1, FrontBecomes
<1>12. /\ \A x \in Greenlets : x # g => life'[x] = life[x] /\ home'[x] = home[x]
       /\ home'[g] = NoOne /\ (life[g] = "active" => life'[g] = "new") /\ (life[g] # "active" => life' = life)
       /\ \A h \in Holders : held'[h] \subseteq held[h]
    <2>1. \A x \in Greenlets : x # g => life'[x] = life[x] /\ home'[x] = home[x]
        BY <1>1, <1>2, <1>5 DEF Typed
    <2>2. home'[g] = NoOne /\ (life[g] = "active" => life'[g] = "new") /\ (life[g] # "active" => life' = life)
        BY <1>1, <1>2, <1>5 DEF Typed
    <2>3. \A h \in Holders : held'[h] \subseteq held[h]
        BY <1>1, <1>2 DEF Typed
    <2> QED BY <2>1, <2>2, <2>3
<1>13. /\ \A x \in Greenlets : MainFor(x)' = MainFor(x) \/ (x = g /\ MainFor(x)' = NoOne)
       /\ \A x \in Greenlets : Linked(x)' => Linked(x) /\ MainFor(x)' = MainFor(x)
       /\ \A x \in Greenlets : Runs(x)' <=> Runs(x)
    <2>1. \A x \in Greenlets : MainFor(x)' = MainFor(x) \/ (x = g /\ MainFor(x)' = NoOne)
        BY <1>12 DEF MainFor
    <2>2. \A u \in Threads : MainOf[u] # NoOne
        BY MainOfAssumption, ThreadsAssumption
    <2>3. \A x \in Greenlets : Linked(x)' => Linked(x) /\ MainFor(x)' = MainFor(x)
        BY <1>1, <2>1, <2>2 DEF Linked
    <2> QED BY <1>1, <2>1, <2>3 DEF Runs
<1>14. KillsKept
    <2> SUFFICES ASSUME NEW h \in Greenlets, NEW i \in DOMAIN calls[h], NEW x \in Greenlets,
                        calls[h][i].op = "kill", calls[h][i].of = x, KillOK(h, x)
                 PROVE  KillOK(h, x)'
        BY DEF KillsKept
    <2>1. x # g
        BY <1>7
    <2> QED BY <1>12, <1>13, <2>1 DEF KillOK
<1>15. StayParked
    <2> SUFFICES ASSUME NEW u \in Threads, NEW x \in deleteme[u], ParkOK(u, x)
                 PROVE  (AsParked(u, x) => AsParked(u, x)') /\ (Unnamed(x) => Unnamed(x)')
        BY <1>1 DEF StayParked, ParkOK
    <2>1. x \in Greenlets /\ x # g
        BY <1>2, <1>7 DEF Typed
    <2>2. Unnamed(x) => Unnamed(x)'
        BY <1>1, <1>12 DEF Unnamed
    <2> QED BY <1>12, <2>1, <2>2 DEF AsParked
<1>16. RunnersStay /\ HomesStay /\ deleteme' = deleteme /\ ListStep(t, S)
    BY <1>1, <1>6, <1>13 DEF RunnersStay, HomesStay, ListStep
<1>17. OthersLive(c)
    BY <1>8, <1>10, <1>12, <1>13 DEF OthersLive, Idle
<1>18. LivesOn(c, n, r)
    BY <1>2, <1>3, <1>8, <1>11, <1>12 DEF LivesOn, GoesOn, Leaving
<1>19. Typed /\ ControlInv /\ CareInv /\ thread[t] = "running" /\ thread'[t] = "running" /\ current'[t] = c
    BY <1>1, <1>2, <1>3
<1>20. KillsSame
    <2>1. NoKills(r) /\ LastStays(c, n)
        BY <1>2, <1>3, <1>9, <1>11 DEF Tame, NoKills, LastStays
    <2>2. \A x \in Greenlets \ {c} : calls'[x] = calls[x] \/ Unwound(x)
        BY <1>1, <1>10 DEF Unwound
    <2> QED BY <1>2, <1>3, <1>9, <1>11, <2>1, <2>2, BecomesKills
<1> QED BY <1>3, <1>9, <1>11, <1>14, <1>15, <1>16, <1>17, <1>18, <1>19, <1>20, LifeKeeps

\* Who is parked is referred to by nobody, and its thread runs.
LEMMA ParkCares ==
    ASSUME LifeInv, NEW t \in Threads, Park(t)
    PROVE  CareInv' /\ KillsSame
<1>1. PICK g : \E u \in Threads :
               /\ Executes(t, "dealloc") /\ g = Top(t).of
               /\ g \notin Mains /\ life[g] = "active" /\ Linked(g) /\ MainOf[u] = home[g]
               /\ deleteme' = [deleteme EXCEPT ![u] = @ \cup {g}]
               /\ calls' = Replaced(current[t], <<Doing("undo", g)>>)
               /\ UNCHANGED <<life, parent, home, attr, held, current, thread>>
    BY DEF Park
<1>2. PICK u \in Threads :
               /\ Executes(t, "dealloc") /\ g = Top(t).of
               /\ g \notin Mains /\ life[g] = "active" /\ Linked(g) /\ MainOf[u] = home[g]
               /\ deleteme' = [deleteme EXCEPT ![u] = @ \cup {g}]
               /\ calls' = Replaced(current[t], <<Doing("undo", g)>>)
               /\ UNCHANGED <<life, parent, home, attr, held, current, thread>>
    BY <1>1
<1>3. /\ Typed /\ ControlInv /\ CareInv /\ thread[t] = "running" /\ current[t] \in Greenlets
      /\ calls[current[t]] # <<>> /\ Top(t) = Last(calls[current[t]]) /\ Top(t).op = "dealloc"
      /\ g \in Greenlets /\ rc[g] = 0 /\ rc[g] = References(g) /\ life[current[t]] \in {"active", "dead"}
    <2>1. g \in Greenlets
        BY <1>2, TopOf DEF LifeInv
    <2>2. Top(t).op = "dealloc" /\ CallOK(current[t], Len(calls[current[t]]), Top(t))
        BY <1>2, Innermost
    <2>3. rc[g] = 0
        BY <1>2, <2>2 DEF CallOK
    <2> QED BY <1>2, <2>1, <2>2, <2>3, Innermost
<1>4. PICK c \in Greenlets : c = current[t] /\ Runs(c)
    BY <1>3 DEF Runs
<1>5. Disowned(g) /\ Unnamed(g) /\ \A v \in Threads : g \notin deleteme[v]
    BY <1>3, ZeroCount
<1>6. thread[u] = "running"
    BY <1>2, MainOfAssumption DEF Linked, MainFor
<1>7. /\ deleteme'[u] = deleteme[u] \cup {g} /\ \A v \in Threads : v # u => deleteme'[v] = deleteme[v]
    BY <1>2, <1>3 DEF Typed
<1>8. PICK call \in Calls : call = Doing("undo", g) /\ call.op = "undo"
    BY <1>3, Constructors DEF Doing
<1>9. PICK r \in Seq(Calls) : r = <<call>> /\ Tame(r, {})
    BY <1>8, TameOne
<1>10. PICK n : n = Len(calls[c]) - 1 /\ Becomes(c, n, r)
    BY <1>2, <1>3, <1>4, <1>8, <1>9, ReplacedBecomes
<1>11. \A x \in Greenlets \ {c} : calls'[x] = calls[x]
    BY <1>2, <1>3, <1>4 DEF Typed, Replaced
<1>12. /\ \A x \in Greenlets : (Linked(x)' <=> Linked(x)) /\ MainFor(x)' = MainFor(x) /\ (Idle(x)' <=> Idle(x))
       /\ \A x \in Greenlets : Runs(x)' <=> Runs(x)
       /\ RunnersStay
    BY <1>2 DEF Linked, MainFor, Runs, Idle, RunnersStay
<1>13. CareCalls /\ ParkInv /\ HomeInv /\ IdleInv /\ LeavingInv
    BY <1>3 DEF CareInv
<1>14. CareCalls'
    <2>1. KillsKept
        BY <1>2, <1>12 DEF KillsKept, KillOK
    <2>2. Unowned({g})
        BY <1>3, <1>5, DisownedCalls DEF Unowned, ControlInv, CallsInv, CallOK
    <2>3. ListsKept({g}) /\ Passing({}) /\ {} \cap {g} = {}
        BY <1>6, <1>7 DEF ListsKept, Passing
    <2>4. Careful({})
        BY <1>9, <1>10, TameCareful, BecomesCareful
    <2> QED BY <1>3, <1>13, <2>1, <2>2, <2>3, <2>4, CareCallsKept
<1>15. ParkInv'
    <2>1. ParkOK(u, g)'
        <3>1. Unnamed(g)' /\ AsParked(u, g)'
            BY <1>2, <1>5 DEF Unnamed, AsParked
        <3>2. \A v \in Threads \ {u} : g \notin deleteme'[v]
            BY <1>5, <1>7
        <3> QED BY <1>2, <1>6, <3>1, <3>2 DEF ParkOK
    <2>2. ASSUME NEW v \in Threads, NEW x \in deleteme'[v], x # g
          PROVE  /\ x \in deleteme[v] /\ \A w \in Threads : x \in deleteme'[w] => x \in deleteme[w]
                 /\ thread'[v] # "destroyed" /\ (AsParked(v, x) => AsParked(v, x)')
                 /\ (Unnamed(x) => Unnamed(x)')
        <3>1. \A w \in Threads : x \in deleteme'[w] => x \in deleteme[w]
            BY <1>7, <2>2
        <3> QED BY <1>2, <1>13, <3>1 DEF ParkInv, ParkOK, AsParked, Unnamed
    <2>3. ASSUME NEW v \in Threads, g \in deleteme'[v] PROVE v = u
        BY <1>5, <1>7, <2>3
    <2>4. ParkedKept
        BY <1>2, <2>1, <2>2, <2>3 DEF ParkedKept
    <2> QED BY <1>13, <2>4, ParkKept
<1>16. HomeInv'
    BY <1>2, <1>12, <1>13 DEF HomeInv, MainFor
<1>17. IdleInv'
    <2>1. ~Idle(c)
        BY <1>3, <1>4 DEF Idle
    <2> QED BY <1>11, <1>12, <1>13, <2>1 DEF IdleInv
<1>18. LeavingInv'
    <2>1. GoesOn(c, n, r)
        BY <1>3, <1>4, <1>10 DEF GoesOn, Leaving
    <2>2. life'[c] = "dead" => (n >= 1 /\ life[c] = "dead") \/ (Len(r) >= 1 /\ n = 0 /\ Leaving(r[1]))
        BY <1>2, <1>3, <1>4, <1>13, <2>1, GoesOnLeaving
    <2>3. \A x \in Greenlets \ {c} :
              Runs(x) /\ life'[x] = "dead" => life[x] = "dead" /\ calls'[x] = calls[x]
        BY <1>2, <1>11
    <2> QED BY <1>10, <1>12, <1>13, <2>2, <2>3, LeavingKept
<1>19. KillsSame
    <2>1. NoKills(r) /\ LastStays(c, n)
        BY <1>3, <1>4, <1>9, <1>10 DEF Tame, NoKills, LastStays
    <2> QED BY <1>3, <1>10, <1>11, <2>1, BecomesKills
<1> QED BY <1>14, <1>15, <1>16, <1>17, <1>18, <1>19 DEF CareInv

\* A greenlet that is not started is on no list of a thread that runs, and has no calls.
LEMMA StartCares ==
    ASSUME LifeInv, NEW t \in Threads, Start(t), fault' = "none"
    PROVE  CareInv' /\ KillsSame
<1>1. PICK g : /\ Executes(t, "start") /\ g = Top(t).of /\ life[g] = "new"
               /\ life' = [life EXCEPT ![g] = "dead"]
               /\ home' = [home EXCEPT ![g] = MainOf[t]]
               /\ calls' = Replaced(current[t], <<Entering("stack", g, TRUE)>> \o Dropping(Present(home[g])))
               /\ UNCHANGED <<parent, attr, held, current, thread, deleteme>>
    BY DEF Start
<1>2. /\ Typed /\ ControlInv /\ CareInv /\ thread[t] = "running" /\ current[t] \in Greenlets
      /\ calls[current[t]] # <<>> /\ life[current[t]] \in {"active", "dead"}
      /\ Top(t) = Last(calls[current[t]]) /\ Top(t).op = "start" /\ Top(t) \in Calls
    BY <1>1, Innermost
<1>3. PICK c \in Greenlets : c = current[t] /\ Runs(c)
    BY <1>2 DEF Runs
<1>4. g \in Greenlets /\ g # c
    BY <1>1, <1>2, <1>3, CallKinds
<1>5. calls[g] = <<>> /\ ~Runs(g)
    BY <1>1, <1>2, <1>4 DEF CareInv, IdleInv, Idle, Runs, ControlInv, CurrentInv
<1>6. PICK call \in Calls : call = Entering("stack", g, TRUE) /\ call.op = "stack"
    BY <1>4, Constructors DEF Entering
<1>7. PICK s : s = Dropping(Present(home[g])) /\ Tame(s, {}) /\ IsQuiet(s)
    <2>1. home[g] \in Greenlets \cup {NoOne}
        BY <1>2, <1>4, HomeGreenlet
    <2>2. Present(home[g]) \in Seq(Greenlets)
        BY <2>1, PresentListed
    <2> QED BY <2>2, TameDropping, QuietDropping
<1>8. PICK r \in Seq(Calls) : r = <<call>> \o s /\ Tame(r, {}) /\ 1 \in 1..Len(r) /\ r[1] = call
    <2>1. Tame(<<call>>, {})
        BY <1>6, TameOne
    <2>2. PICK r : r = <<call>> \o s /\ Tame(r, {})
        BY <1>7, <2>1, TameConcat
    <2>3. 1 \in 1..Len(r) /\ r[1] = call
        BY <1>7, <2>2, FirstThen
    <2> QED BY <2>2, <2>3 DEF Tame
<1>9. PICK n : n = Len(calls[c]) - 1 /\ Becomes(c, n, r)
    BY <1>1, <1>2, <1>3, <1>6, <1>7, <1>8, ReplacedBecomes
<1>10. /\ life'[g] = "dead" /\ \A x \in Greenlets : x # g => life'[x] = life[x] /\ home'[x] = home[x]
       /\ \A x \in Greenlets : x # c => calls'[x] = calls[x]
    BY <1>1, <1>2, <1>3, <1>4 DEF Typed, Replaced
<1>11. /\ \A x \in Greenlets : x # g => (Linked(x)' <=> Linked(x)) /\ MainFor(x)' = MainFor(x)
       /\ \A x \in Greenlets : Runs(x)' <=> Runs(x)
    BY <1>1, <1>10 DEF Linked, MainFor, Runs
<1>12. KillsKept
    <2> SUFFICES ASSUME NEW h \in Greenlets, NEW i \in DOMAIN calls[h], NEW x \in Greenlets,
                        calls[h][i].op = "kill", calls[h][i].of = x, KillOK(h, x)
                 PROVE  KillOK(h, x)'
        BY DEF KillsKept
    <2>1. h # g
        BY <1>5
    <2>2. CASE x = g
        BY <1>1, <1>11, <2>1, <2>2 DEF KillOK
    <2>3. CASE x # g
        BY <1>10, <1>11, <2>1, <2>3 DEF KillOK
    <2> QED BY <2>2, <2>3
<1>13. StayParked
    <2> SUFFICES ASSUME NEW u \in Threads, NEW x \in deleteme[u], ParkOK(u, x)
                 PROVE  (AsParked(u, x) => AsParked(u, x)') /\ (Unnamed(x) => Unnamed(x)')
        BY <1>1 DEF StayParked, ParkOK
    <2>1. x \in Greenlets /\ (AsParked(u, x) => x # g)
        BY <1>1, <1>2 DEF Typed, AsParked
    <2> QED BY <1>1, <1>10, <2>1 DEF AsParked, Unnamed
<1>14. RunnersStay /\ HomesStay /\ deleteme' = deleteme /\ ListStep(t, {})
    BY <1>1, <1>5, <1>11 DEF RunnersStay, HomesStay, ListStep
<1>15. OthersLive(c)
    BY <1>1, <1>5, <1>10, <1>11 DEF OthersLive, Idle
<1>16. LivesOn(c, n, r)
    <2>1. Leaving(r[1]) /\ Len(r) >= 1
        <3>1. Leaving(call)
            BY <1>6 DEF Leaving
        <3>2. Len(r) \in Nat
            OBVIOUS
        <3>3. Len(r) >= 1
            BY <1>8, <3>2
        <3> QED BY <1>8, <3>1, <3>3
    <2> QED BY <1>2, <1>3, <1>4, <1>9, <1>10, <2>1 DEF LivesOn, GoesOn
<1>17. Typed /\ ControlInv /\ CareInv /\ thread[t] = "running" /\ thread'[t] = "running" /\ current'[t] = c
    BY <1>1, <1>2, <1>3
<1>18. Tame(r, {})
    BY <1>8
<1>19. KillsSame
    <2>1. NoKills(r) /\ LastStays(c, n)
        BY <1>2, <1>3, <1>8, <1>9 DEF Tame, NoKills, LastStays
    <2>2. \A x \in Greenlets \ {c} : calls'[x] = calls[x] \/ Unwound(x)
        BY <1>10
    <2> QED BY <1>2, <1>3, <1>8, <1>9, <2>1, <2>2, BecomesKills
<1> QED BY <1>3, <1>9, <1>12, <1>13, <1>14, <1>15, <1>16, <1>17, <1>18, <1>19, LifeKeeps

\* All references to a greenlet that is collected come from what is collected with it: it is
\* on no list, and no kill is about it.
LEMMA CollectCares ==
    ASSUME LifeInv, NEW t \in Threads, NEW S \in SUBSET Greenlets, Collect(t, S)
    PROVE  CareInv' /\ KillsSame
<1>1. PICK gone, F : 
          /\ PythonRuns(t) /\ gone = {g \in S : life[g] = "active" /\ InDeadThread(g)}
          /\ \A x \in S : rc[x] = Visited(S, x)
          /\ parent' = [g \in Greenlets |-> IF g \in S THEN NoOne ELSE parent[g]]
          /\ home' = [g \in Greenlets |-> IF g \in S THEN NoOne ELSE home[g]]
          /\ attr' = [g \in Greenlets |-> IF g \in S THEN {} ELSE attr[g]]
          /\ life' = [g \in Greenlets |-> IF g \in gone THEN "dead" ELSE life[g]]
          /\ held' = [h \in Holders |-> IF h \in gone THEN {} ELSE held[h]]
          /\ F = [i \in DOMAIN SetToSeq(Fields(S)) |-> SetToSeq(Fields(S))[i][3]]
          /\ calls' = [g \in Greenlets |-> IF g \in gone THEN <<>>
                                           ELSE IF g = current[t] THEN calls[g] \o Dropping(F)
                                           ELSE calls[g]]
          /\ UNCHANGED <<current, thread, deleteme>>
    BY DEF Collect
<1>2. /\ Typed /\ ControlInv /\ CareInv /\ thread[t] = "running" /\ current[t] \in Greenlets
      /\ \A x \in Greenlets : rc[x] = References(x)
    BY <1>1, Running DEF LifeInv, Cared
<1>3. PICK c \in Greenlets : c = current[t] /\ Runs(c)
    BY <1>2 DEF Runs
<1>4. ASSUME NEW x \in S
      PROVE  /\ Disowned(x) /\ x # c /\ ~Runs(x)
             /\ \A u \in Threads : x \notin deleteme[u]
    <2>1. rc[x] = References(x) /\ rc[x] = Visited(S, x)
        BY <1>1, <1>2
    <2>2. Disowned(x) /\ \A u \in Threads : current[u] # x /\ x \notin deleteme[u]
        BY <1>2, <2>1, VisitedOnly
    <2> QED BY <1>3, <2>2 DEF Runs
<1>5. c \notin S /\ c \notin gone
    BY <1>1, <1>4
<1>6. PICK r \in Seq(Calls) : r = Dropping(F) /\ Tame(r, {})
    <2>1. F \in Seq(Greenlets)
        BY <1>1, <1>3, OccursFields
    <2> QED BY <2>1, TameDropping DEF Tame
<1>7. /\ calls'[c] = calls[c] \o r
      /\ \A x \in Greenlets \ {c} : calls'[x] = IF x \in gone THEN <<>> ELSE calls[x]
      /\ \A x \in Greenlets : life'[x] = IF x \in gone THEN "dead" ELSE life[x]
      /\ \A x \in Greenlets : home'[x] = IF x \in S THEN NoOne ELSE home[x]
      /\ gone \subseteq S
    BY <1>1, <1>3, <1>5, <1>6
<1>8. PICK n : n = Len(calls[c]) /\ Becomes(c, n, r)
    <2>1. OthersKept(c)
        BY <1>7 DEF OthersKept
    <2> QED BY <1>2, <1>7, <2>1, AddedBecomes
<1>9. /\ \A x \in Greenlets : MainFor(x)' = MainFor(x) \/ (x \in S /\ MainFor(x)' = NoOne)
      /\ \A x \in Greenlets : Linked(x)' => Linked(x) /\ MainFor(x)' = MainFor(x)
      /\ \A x \in Greenlets : Runs(x)' <=> Runs(x)
    <2>1. \A x \in Greenlets : MainFor(x)' = MainFor(x) \/ (x \in S /\ MainFor(x)' = NoOne)
        BY <1>7 DEF MainFor
    <2>2. \A u \in Threads : MainOf[u] # NoOne
        BY MainOfAssumption, ThreadsAssumption
    <2>3. \A x \in Greenlets : Linked(x)' => Linked(x) /\ MainFor(x)' = MainFor(x)
        BY <1>1, <2>1, <2>2 DEF Linked
    <2> QED BY <1>1, <2>1, <2>3 DEF Runs
<1>10. KillsKept
    <2> SUFFICES ASSUME NEW h \in Greenlets, NEW i \in DOMAIN calls[h], NEW x \in Greenlets,
                        calls[h][i].op = "kill", calls[h][i].of = x, KillOK(h, x)
                 PROVE  KillOK(h, x)'
        BY DEF KillsKept
    <2>1. x \notin S
        BY <1>4, DisownedCalls
    <2>2. life'[x] = life[x] /\ MainFor(x)' = MainFor(x)
        BY <1>7, <1>9, <2>1
    <2> QED BY <1>9, <2>2 DEF KillOK
<1>11. StayParked
    <2> SUFFICES ASSUME NEW u \in Threads, NEW x \in deleteme[u], ParkOK(u, x)
                 PROVE  (AsParked(u, x) => AsParked(u, x)') /\ (Unnamed(x) => Unnamed(x)')
        BY <1>1 DEF StayParked, ParkOK
    <2>1. x \in Greenlets /\ x \notin S
        BY <1>2, <1>4 DEF Typed
    <2>2. AsParked(u, x) => AsParked(u, x)'
        BY <1>7, <2>1 DEF AsParked
    <2>3. /\ \A h \in Holders : held'[h] \subseteq held[h]
          /\ \A y \in Greenlets : (parent'[y] = parent[y] \/ parent'[y] = NoOne) /\ attr'[y] \subseteq attr[y]
        BY <1>1
    <2>4. Unnamed(x) => Unnamed(x)'
        BY <1>1, <2>1, <2>3, ThreadsAssumption DEF Unnamed
    <2> QED BY <2>2, <2>4
<1>12. RunnersStay /\ HomesStay /\ deleteme' = deleteme /\ ListStep(t, {})
    BY <1>1, <1>9 DEF RunnersStay, HomesStay, ListStep
<1>13. OthersLive(c)
    <2> SUFFICES ASSUME NEW x \in Greenlets \ {c}
                 PROVE  /\ Idle(x)' => Idle(x) \/ calls'[x] = <<>>
                        /\ Runs(x) /\ life'[x] = "dead" => life[x] = "dead" /\ calls'[x] = calls[x]
        BY DEF OthersLive
    <2>1. CASE x \in gone
        BY <1>4, <1>7, <2>1
    <2>2. CASE x \notin gone
        BY <1>7, <1>9, <2>2 DEF Idle
    <2> QED BY <2>1, <2>2
<1>14. LivesOn(c, n, r)
    BY <1>5, <1>7, <1>8 DEF LivesOn, GoesOn
<1>15. Typed /\ ControlInv /\ CareInv /\ thread[t] = "running" /\ thread'[t] = "running" /\ current'[t] = c
    BY <1>1, <1>2, <1>3
<1>16. KillsSame
    <2>1. NoKills(r) /\ LastStays(c, n)
        BY <1>3, <1>6, <1>8 DEF Tame, NoKills, LastStays
    <2>2. \A x \in Greenlets \ {c} : calls'[x] = calls[x] \/ Unwound(x)
        BY <1>1, <1>7 DEF Unwound, InDeadThread
    <2> QED BY <1>2, <1>3, <1>6, <1>8, <2>1, <2>2, BecomesKills
<1> QED BY <1>3, <1>6, <1>8, <1>10, <1>11, <1>12, <1>13, <1>14, <1>15, <1>16, LifeKeeps

-----------------------------------------------------------------------------
(* The switch itself. *)

\* Where the calls are after a jump from c to g
LEMMA JumpCareful ==
    ASSUME Typed, NEW c \in Greenlets, NEW g \in Greenlets, g # c, calls[c] # <<>>,
           NEW z, Tame(z, {}),
           calls'[c] \in {<<>>, Front(calls[c])}, calls'[g] = calls[g] \o z,
           \A x \in Greenlets : x # c /\ x # g => calls'[x] = calls[x]
    PROVE  Careful({}) /\ NoNewKills
<1>0. calls[c] \in Seq(Calls) /\ calls[g] \in Seq(Calls) /\ z \in Seq(Calls)
    BY DEF Typed, Tame
<1>1. ASSUME NEW i \in DOMAIN calls'[c] PROVE i \in DOMAIN calls[c] /\ calls'[c][i] = calls[c][i]
    <2>1. calls'[c] = Front(calls[c])
        OBVIOUS
    <2>2. PICK e \in Seq(Calls) : e = <<>> /\ Len(e) = 0
        <3>1. <<>> \in Seq(Calls) /\ Len(<<>>) = 0
            OBVIOUS
        <3> QED BY <3>1
    <2>3. PICK n \in 0..Len(calls[c]) : n = Len(calls[c]) - 1
        <3>1. PICK m \in Nat : m = Len(calls[c]) /\ m # 0
            BY <1>0, EmptySeq
        <3>2. m - 1 \in 0..m
            BY <3>1
        <3> QED BY <3>1, <3>2
    <2>4. SubSeq(calls[c], 1, n) \in Seq(Calls)
        <3>1. n \in Nat /\ n <= Len(calls[c]) /\ \A j \in 1..n : calls[c][j] \in Calls
            <4>1. Len(calls[c]) \in Nat
                BY <1>0
            <4>2. n \in Nat /\ n <= Len(calls[c])
                BY <2>3, <4>1
            <4> QED BY <1>0, <4>1, <4>2, ElementOfSeq
        <3> QED BY <3>1, SubSeqProperties
    <2>5. calls'[c] = SubSeq(calls[c], 1, n) \o e
        <3>1. calls'[c] = SubSeq(calls[c], 1, n)
            BY <2>1, <2>3 DEF Front
        <3> QED BY <2>2, <2>4, <3>1, ConcatEmptySeq
    <2>6. PICK y : y = calls'[c]
        OBVIOUS
    <2>7. DOMAIN y = 1..(n + Len(e)) /\ \A j \in 1..n : j \in DOMAIN calls[c] /\ y[j] = calls[c][j]
        BY <1>0, <2>2, <2>5, <2>6, Places
    <2>8. i \in 1..n
        BY <2>2, <2>3, <2>6, <2>7
    <2> QED BY <2>6, <2>7, <2>8
<1>2. ASSUME NEW i \in DOMAIN calls'[g]
      PROVE  \/ i \in DOMAIN calls[g] /\ calls'[g][i] = calls[g][i]
             \/ \E k \in 1..Len(z) : calls'[g][i] = z[k]
    <2>0. PICK s \in Seq(Calls) : s = calls[g]
        BY <1>0
    <2>1. PICK y \in Seq(Calls) :
              /\ y = calls'[g] /\ Len(y) = Len(s) + Len(z)
              /\ \A j \in 1..(Len(s) + Len(z)) : y[j] = IF j <= Len(s) THEN s[j] ELSE z[j - Len(s)]
        <3>1. PICK y \in Seq(Calls) :
                  /\ y = s \o z /\ Len(y) = Len(s) + Len(z)
                  /\ \A j \in 1..(Len(s) + Len(z)) : y[j] = IF j <= Len(s) THEN s[j] ELSE z[j - Len(s)]
            BY <1>0, Joined
        <3>2. y = calls'[g]
            BY <2>0, <3>1
        <3> QED BY <3>1, <3>2
    <2>2. PICK m \in Nat : m = Len(s) /\ DOMAIN s = 1..m
        OBVIOUS
    <2>3. PICK l \in Nat : l = Len(z)
        BY <1>0
    <2>4. i \in 1..(m + l) /\ y[i] = IF i <= m THEN s[i] ELSE z[i - m]
        BY <2>1, <2>2, <2>3
    <2>5. CASE i <= m
        BY <2>0, <2>1, <2>2, <2>4, <2>5
    <2>6. CASE ~(i <= m)
        <3>1. i - m \in 1..l
            BY <2>4, <2>6
        <3> QED BY <2>1, <2>3, <2>4, <2>6, <3>1
    <2> QED BY <2>5, <2>6
<1>3. ASSUME NEW h \in Greenlets, NEW i \in DOMAIN calls'[h],
             ~(i \in DOMAIN calls[h] /\ calls'[h][i] = calls[h][i])
      PROVE  /\ calls'[h][i].op = "clear" => calls'[h][i].todo \subseteq {}
             /\ calls'[h][i].op \notin {"finish", "destroy", "kill"}
    <2>1. h = g
        BY <1>1, <1>3
    <2>2. PICK k \in 1..Len(z) : calls'[h][i] = z[k]
        BY <1>2, <1>3, <2>1
    <2> QED BY <2>2 DEF Tame
<1> QED BY <1>3 DEF Careful, NoNewKills

LEMMA JumpKills ==
    ASSUME Typed, NEW c \in Greenlets, NEW g \in Greenlets, g # c, calls[c] # <<>>,
           Last(calls[c]).op # "kill", NEW z \in Seq(Calls),
           calls'[c] = Front(calls[c]) \/ (calls'[c] = <<>> /\ Len(calls[c]) = 1),
           calls'[g] = calls[g] \o z,
           \A x \in Greenlets : x # c /\ x # g => calls'[x] = calls[x],
           NEW h \in Greenlets, NEW i \in DOMAIN calls[h], calls[h][i].op = "kill"
    PROVE  i \in DOMAIN calls'[h] /\ calls'[h][i] = calls[h][i]
<1>1. PICK s \in Seq(Calls) : s = calls[h]
    BY DEF Typed
<1>2. PICK m \in Nat : m = Len(s) /\ DOMAIN s = 1..m
    OBVIOUS
<1>3. CASE h = c
    <2>1. i \in 1..m /\ i # m
        <3>1. Last(s) = s[m]
            BY <1>2 DEF Last
        <3> QED BY <1>1, <1>2, <1>3, <3>1
    <2>2. PICK n \in Nat : n = m - 1 /\ n <= m /\ i \in 1..n
        <3>1. m - 1 \in Nat /\ m - 1 <= m /\ i \in 1..(m - 1)
            BY <2>1
        <3> QED BY <3>1
    <2>3. calls'[c] = SubSeq(s, 1, n)
        <3>0. m # 1
            BY <2>1
        <3>1. Len(calls[c]) # 1
            BY <1>1, <1>2, <1>3, <3>0
        <3> QED BY <1>1, <1>2, <1>3, <2>2, <3>1 DEF Front
    <2>4. PICK e \in Seq(Calls) : e = <<>> /\ Len(e) = 0
        <3>1. <<>> \in Seq(Calls) /\ Len(<<>>) = 0
            OBVIOUS
        <3> QED BY <3>1
    <2>5. SubSeq(s, 1, n) \in Seq(Calls)
        <3>1. \A j \in 1..n : s[j] \in Calls
            BY <1>2, <2>2, ElementOfSeq
        <3> QED BY <1>2, <2>2, <3>1, SubSeqProperties
    <2>6. PICK y : y = calls'[c] /\ y = SubSeq(s, 1, n) \o e
        BY <2>3, <2>4, <2>5, ConcatEmptySeq
    <2>7. n \in 0..Len(s)
        BY <1>2, <2>2
    <2>8. DOMAIN y = 1..(n + Len(e)) /\ \A j \in 1..n : j \in DOMAIN s /\ y[j] = s[j]
        BY <2>6, <2>7, Places
    <2>9. i \in DOMAIN y
        BY <2>2, <2>4, <2>8
    <2> QED BY <1>1, <1>3, <2>2, <2>6, <2>8, <2>9
<1>4. CASE h = g
    <2>1. PICK y \in Seq(Calls) :
              /\ y = s \o z /\ Len(y) = Len(s) + Len(z)
              /\ \A j \in 1..(Len(s) + Len(z)) : y[j] = IF j <= Len(s) THEN s[j] ELSE z[j - Len(s)]
        BY Joined
    <2>2. PICK l \in Nat : l = Len(z)
        OBVIOUS
    <2>3. i \in 1..(m + l) /\ i <= m
        BY <1>1, <1>2, <2>2
    <2>4. i \in DOMAIN y /\ y[i] = s[i]
        BY <1>2, <2>1, <2>2, <2>3
    <2>5. y = calls'[h]
        BY <1>1, <1>4, <2>1
    <2> QED BY <1>1, <2>4, <2>5
<1>5. CASE h # c /\ h # g
    BY <1>5
<1> QED BY <1>3, <1>4, <1>5

\* The main greenlet of the thread that jumps is the home of both.
LEMMA JumpCares ==
    ASSUME LifeInv, NEW t \in Threads, Jump(t), fault' = "none"
    PROVE  CareInv' /\ KillsSame
<1>1. /\ Executes(t, "jump") /\ fault = "none" /\ Typed /\ ControlInv /\ CareInv
      /\ thread[t] = "running" /\ current[t] \in Greenlets /\ life[current[t]] \in {"active", "dead"}
      /\ calls[current[t]] # <<>> /\ calls[current[t]] \in Seq(Calls)
      /\ Top(t) \in Calls /\ Top(t).op = "jump" /\ Top(t) = Last(calls[current[t]])
      /\ CallOK(current[t], Len(calls[current[t]]), Top(t))
    <2>1. Executes(t, "jump")
        BY DEF Jump
    <2> QED BY <2>1, Innermost
<1>2. PICK c \in Greenlets : c = current[t] /\ Runs(c)
    BY <1>1 DEF Runs
<1>3. PICK g \in Greenlets : g = Top(t).of
    BY <1>1, CallKinds
<1>4. PICK first \in BOOLEAN : first = Top(t).first /\ (first => ~Runs(g))
    <2>1. Top(t).first \in BOOLEAN
        BY <1>1, CallKinds
    <2> QED BY <1>1, <1>3, <2>1 DEF CallOK
<1>5. PICK z : z = Dropping(<<c>>) /\ z \in Seq(Calls) /\ Tame(z, {})
    <2>1. <<c>> \in Seq(Greenlets)
        OBVIOUS
    <2> QED BY <2>1, TameDropping DEF Tame
<1>6. /\ deleteme[t] = {} /\ life[g] = (IF first THEN "dead" ELSE "active") /\ MainFor(g) = MainOf[t]
      /\ life[c] = "dead" => Len(calls[c]) = 1
      /\ life' = [life EXCEPT ![g] = "active"]
      /\ current' = [current EXCEPT ![t] = g]
      /\ calls' = [[calls EXCEPT ![c] = IF life[c] = "dead" THEN <<>> ELSE Front(@)]
                       EXCEPT ![g] = @ \o z]
      /\ UNCHANGED <<parent, home, attr, held, thread, deleteme>>
    BY <1>2, <1>3, <1>4, <1>5 DEF Jump
<1>7. CareCalls /\ ParkInv /\ HomeInv /\ IdleInv /\ LeavingInv
    BY <1>1 DEF CareInv
<1>8. CASE g = c
    <2>1. life[c] = "active"
        BY <1>2, <1>4, <1>6, <1>8
    <2>2. calls' = Replaced(c, z)
        <3>1. calls \in [Greenlets -> Seq(Calls)]
            BY <1>1 DEF Typed
        <3>2. calls' = [[calls EXCEPT ![c] = Front(@)] EXCEPT ![c] = @ \o z]
            BY <1>6, <1>8, <2>1
        <3> QED BY <3>1, <3>2 DEF Replaced
    <2>3. life' = life /\ current' = current
        BY <1>1, <1>2, <1>6, <1>8, <2>1 DEF Typed
    <2>4. Steady /\ NamesKept /\ ListStep(t, {})
        BY <1>6, <2>3, NamesSteady DEF Steady, ListStep
    <2>5. CareInv' /\ KillsSameAfter("jump")
        BY <1>1, <1>2, <1>5, <2>1, <2>2, <2>4, ExecutedTame
    <2> QED BY <2>5 DEF KillsSameAfter
<1>9. CASE g # c
    <2>1. /\ calls'[c] \in {<<>>, Front(calls[c])} /\ calls'[g] = calls[g] \o z
          /\ calls'[c] = Front(calls[c]) \/ (calls'[c] = <<>> /\ Len(calls[c]) = 1)
          /\ \A x \in Greenlets : x # c /\ x # g => calls'[x] = calls[x]
          /\ life[c] = "dead" => calls'[c] = <<>>
        <3>1. calls \in [Greenlets -> Seq(Calls)]
            BY <1>1 DEF Typed
        <3>2. PICK v : v = IF life[c] = "dead" THEN <<>> ELSE Front(calls[c])
            OBVIOUS
        <3>3. calls' = [[calls EXCEPT ![c] = v] EXCEPT ![g] = @ \o z]
            BY <1>6, <3>2
        <3>4. calls'[c] = v /\ calls'[g] = calls[g] \o z
              /\ \A x \in Greenlets : x # c /\ x # g => calls'[x] = calls[x]
            BY <1>9, <3>1, <3>3
        <3> QED BY <1>6, <3>2, <3>4
    <2>2. /\ life'[g] = "active" /\ \A x \in Greenlets : x # g => life'[x] = life[x]
          /\ current'[t] = g /\ \A u \in Threads : u # t => current'[u] = current[u]
        BY <1>1, <1>6 DEF Typed
    <2>3. /\ \A x \in Greenlets : MainFor(x)' = MainFor(x)
          /\ \A x \in Greenlets : Linked(x)' <=> Linked(x)
        BY <1>6 DEF MainFor, Linked
    <2>4. ~Runs(c)' /\ \A x \in Greenlets : x # c /\ x # g => (Runs(x)' <=> Runs(x))
        BY <1>1, <1>2, <1>6, <1>9, <2>2 DEF Runs, ControlInv, OneInv
    <2>5. CareCalls'
        <3>1. KillsKept
            BY <1>6, <2>2, <2>3 DEF KillsKept, KillOK
        <3>2. Careful({})
            BY <1>1, <1>2, <1>5, <1>9, <2>1, JumpCareful
        <3>3. Passing({}) /\ ListsKept({})
            BY <1>6 DEF Passing, ListsKept
        <3> QED BY <1>1, <1>7, <3>1, <3>2, <3>3, UnownedNone, CareCallsKept
    <2>6. ParkInv'
        <3> SUFFICES ASSUME NEW u \in Threads, NEW x \in deleteme[u], ParkOK(u, x)
                     PROVE  ParkOK(u, x)'
            BY <1>6, <1>7 DEF ParkInv
        <3>1. AsParked(u, x) => AsParked(u, x)' /\ x # g
            <4>1. AsParked(u, x) => AsParked(u, x)'
                BY <1>1, <1>6, <2>2 DEF AsParked, Typed
            <4>2. ASSUME x = g, home[x] = MainOf[u] PROVE FALSE
                <5>1. MainOf[u] = MainOf[t]
                    BY <1>6, <4>2 DEF ParkOK, MainFor
                <5> QED BY <1>6, <5>1, MainOfAssumption
            <4> QED BY <4>1, <4>2 DEF AsParked
        <3>2. x \notin Weak => Unnamed(x)'
            BY <1>6, <2>2, <3>1 DEF ParkOK, Unnamed
        <3> QED BY <1>6, <3>1, <3>2 DEF ParkOK
    <2>7. HomeInv'
        BY <1>6, <1>7, <2>2, <2>3 DEF HomeInv, MainFor
    <2>8. IdleInv'
        <3> SUFFICES ASSUME NEW x \in Greenlets, Idle(x)' PROVE calls'[x] = <<>>
            BY DEF IdleInv
        <3>1. x # g
            BY <2>2 DEF Idle
        <3>2. CASE x = c
            BY <1>1, <1>2, <2>1, <2>2, <3>1, <3>2 DEF Idle
        <3>3. CASE x # c
            BY <1>7, <2>1, <2>2, <2>4, <3>1, <3>3 DEF Idle, IdleInv
        <3> QED BY <3>2, <3>3
    <2>9. LeavingInv'
        <3> SUFFICES ASSUME NEW x \in Greenlets, Runs(x)', life'[x] = "dead"
                     PROVE  1 \in DOMAIN calls'[x] /\ Leaving(calls'[x][1])
            BY DEF LeavingInv
        <3>1. x # g /\ x # c
            BY <2>2, <2>4
        <3> QED BY <1>7, <2>1, <2>2, <2>4, <3>1 DEF LeavingInv
    <2>10. KillsSame
        <3>1. NoNewKills
            BY <1>1, <1>2, <1>5, <1>9, <2>1, JumpCareful
        <3>2. KillsStay
            BY <1>1, <1>2, <1>5, <1>9, <2>1, JumpKills DEF KillsStay
        <3> QED BY <3>1, <3>2 DEF KillsSame
    <2> QED BY <2>5, <2>6, <2>7, <2>8, <2>9, <2>10 DEF CareInv
<1> QED BY <1>8, <1>9

-----------------------------------------------------------------------------
(* Every step keeps what kills, lists and dying greenlets rely on. *)

LEMMA InitCares == Init => Cared
<1> SUFFICES ASSUME Init PROVE CareInv
    BY DEF Cared
<1>1. /\ \A h \in Greenlets : calls[h] = <<>> /\ DOMAIN calls[h] = {}
      /\ \A t \in Threads : deleteme[t] = {} /\ current[t] = MainOf[t] /\ MainFor(MainOf[t]) = MainOf[t]
      /\ \A g \in Greenlets : life[g] # "dead"
    BY DEF Init, MainFor, Mains
<1>2. CareCalls /\ ParkInv /\ IdleInv
    BY <1>1 DEF CareCalls, ParkInv, IdleInv
<1>3. HomeInv
    BY <1>1 DEF HomeInv, MainFor
<1>4. LeavingInv
    BY <1>1 DEF LeavingInv
<1> QED BY <1>2, <1>3, <1>4 DEF CareInv

LEMMA PythonCares ==
    ASSUME LifeInv, NEW t \in Threads, PythonStep(t)
    PROVE  CareInv' /\ KillsSame
<1>1. ASSUME NEW g \in Greenlets, New(t, g) \/ Switch(t, g) \/ LookDead(t, g) PROVE CareInv' /\ KillsSame
    BY <1>1, NewCares, SwitchCares, LookDeadCares
<1>2. ASSUME NEW h \in Holders, NEW g \in Greenlets, Keep(t, h, g) \/ Forget(t, h, g)
      PROVE  CareInv' /\ KillsSame
    BY <1>2, KeepCares, ForgetCares
<1>3. ASSUME NEW g \in Greenlets, NEW x \in Greenlets,
             Name(t, g, x) \/ Unname(t, g, x) \/ SetParent(t, g, x)
      PROVE  CareInv' /\ KillsSame
    BY <1>3, NameCares, UnnameCares, SetParentCares
<1>4. ASSUME NEW S \in SUBSET Greenlets, Collect(t, S) PROVE CareInv' /\ KillsSame
    BY <1>4, CollectCares
<1>5. CASE GetCurrent(t) \/ Finish(t) \/ Return(t)
    BY <1>5, GetCurrentCares, FinishCares, ReturnCares
<1> QED BY <1>1, <1>2, <1>3, <1>4, <1>5 DEF PythonStep

LEMMA CStepCares ==
    ASSUME LifeInv, NEW t \in Threads, CStep(t), fault' = "none"
    PROVE  CareInv' /\ (Kill(t) \/ KillReturn(t) \/ KillsSame)
<1>1. CASE NewStep(t) \/ CurrentStep(t) \/ Drop(t) \/ ClearNext(t) \/ Murder(t) \/ DestroyStep(t)
    BY <1>1, NewStepCares, CurrentStepCares, DropCares, ClearNextCares, MurderCares,
       DestroyStepCares
<1>2. CASE DeallocIdle(t) \/ Kill(t) \/ Park(t) \/ GiveUp(t) \/ KillReturn(t) \/ Undo(t)
    BY <1>2, DeallocIdleCares, KillCares, ParkCares, GiveUpCares, KillReturnCares, UndoCares
<1>3. CASE Free(t) \/ Delete(t) \/ Die(t) \/ Refuse(t) \/ GSwitch(t) \/ GInitialstub(t)
    BY <1>3, FreeCares, DeleteCares, DieCares, RefuseCares, GSwitchCares, GInitialstubCares
<1>4. CASE Start(t) \/ Switchstack(t) \/ Jump(t)
    BY <1>4, StartCares, GSwitchstackCares, JumpCares
<1> QED BY <1>1, <1>2, <1>3, <1>4 DEF CStep

LEMMA StutterCares ==
    ASSUME CareInv, UNCHANGED vars
    PROVE  CareInv'
<1>1. CareCalls'
    BY DEF CareInv, CareCalls, CareOK, Listing, KillOK, Linked, MainFor, vars
<1>2. ParkInv'
    BY DEF CareInv, ParkInv, ParkOK, AsParked, Unnamed, vars
<1>3. HomeInv' /\ IdleInv' /\ LeavingInv'
    BY DEF CareInv, HomeInv, MainFor, IdleInv, Idle, Runs, LeavingInv, vars
<1> QED BY <1>1, <1>2, <1>3 DEF CareInv

LEMMA StepCares == LifeInv /\ [Next]_vars => Cared'
<1> SUFFICES ASSUME LifeInv, [Next]_vars, fault' = "none" PROVE CareInv'
    BY DEF Cared
<1>1. ASSUME NEW t \in Threads, Exit(t) PROVE CareInv'
    <2>1. fault = "none"
        BY <1>1 DEF Exit
    <2> QED BY <1>1, <2>1, ExitCares
<1>2. CASE UNCHANGED vars
    <2>1. CareInv
        BY <1>2 DEF LifeInv, Cared, vars
    <2> QED BY <1>2, <2>1, StutterCares
<1> QED BY <1>1, <1>2, PythonCares, CStepCares, DestroyCares DEF Next

LEMMA LifeInvariance == Spec /\ []LeaksAreLost => []LifeInv
<1>1. Init => Cared
    BY InitCares
<1>2. RefInv /\ Cared <=> LifeInv
    BY DEF LifeInv
<1>3. LifeInv /\ [Next]_vars => Cared'
    BY StepCares
<1> QED BY <1>1, <1>2, <1>3, Invariance, PTL DEF Spec

\* Who is current in a thread is active there, or has just died in it and is on its way to
\* another greenlet: the target of a switch neither ends nor is dead.
THEOREM CurrentAliveHolds == Spec /\ []LeaksAreLost => []CurrentAlive
<1>1. LifeInv => CurrentAlive
    <2> SUFFICES ASSUME LifeInv, fault = "none", NEW t \in Threads, thread[t] = "running"
                 PROVE  \/ life[current[t]] = "active"
                        \/ life[current[t]] = "dead" /\ calls[current[t]] # <<>>
        BY DEF CurrentAlive
    <2>1. PICK c \in Greenlets : c = current[t] /\ life[c] \in {"active", "dead"} /\ Runs(c)
        BY DEF LifeInv, RefInv, Controlled, ControlInv, CurrentInv, Runs
    <2>2. life[c] = "dead" => 1 \in DOMAIN calls[c]
        BY <2>1 DEF LifeInv, Cared, CareInv, LeavingInv
    <2>3. life[c] = "dead" => calls[c] # <<>>
        BY <2>2
    <2> QED BY <2>1, <2>3
<1> QED BY <1>1, LifeInvariance, PTL

\* GreenletExit is thrown into a greenlet in its own thread only, whatever happens meanwhile.
THEOREM KilledInThreadHolds == Spec /\ []LeaksAreLost => []KilledInThread
<1>1. LifeInv => KilledInThread
    <2> SUFFICES ASSUME LifeInv, fault = "none", NEW g \in Greenlets, NEW h \in InProgress({"kill"}, g),
                        Linked(h)
                 PROVE  MainFor(h) = MainFor(g)
        BY DEF KilledInThread
    <2>1. PICK i \in DOMAIN calls[h] : h \in Greenlets /\ calls[h][i].op = "kill" /\ calls[h][i].of = g
        BY DEF InProgress
    <2>2. CareOK(h, i, calls[h][i])
        BY <2>1 DEF LifeInv, Cared, CareInv, CareCalls
    <2> QED BY <2>1, <2>2 DEF CareOK, KillOK
<1> QED BY <1>1, LifeInvariance, PTL

\* A list is for greenlets of its thread, and it is empty when the thread state goes.
THEOREM ParkedForThreadHolds == Spec /\ []LeaksAreLost => []ParkedForThread
<1>1. LifeInv => ParkedForThread
    <2> SUFFICES ASSUME LifeInv, fault = "none", NEW t \in Threads, NEW g \in deleteme[t]
                 PROVE  /\ thread[t] # "destroyed"
                        /\ home[g] = MainOf[t] \/ (thread[t] = "exited" /\ g \in Weak)
        BY DEF ParkedForThread
    <2>1. ParkOK(t, g)
        BY DEF LifeInv, Cared, CareInv, ParkInv
    <2>2. thread[t] \in {"running", "exited", "destroyed"}
        BY DEF LifeInv, RefInv, TypeOK
    <2> QED BY <2>1, <2>2 DEF ParkOK, AsParked
<1> QED BY <1>1, LifeInvariance, PTL

-----------------------------------------------------------------------------
(* Whose parent a kill puts back. *)

\* A kill interrupts a greenlet that has been started.  As long as its first run goes on,
\* the kill remembers the parent that Python code gave it, and goes on itself.
OwnCall(h, d) ==
    d.op = "kill" =>
        /\ runs[d.of] >= 1
        /\ FirstRun(d.of) => d.old \in {asked[d.of], NoOne} /\ (life[h] = "active" => Linked(h))
OwnCalls == \A h \in Greenlets : \A i \in DOMAIN calls[h] : OwnCall(h, calls[h][i])

RunsInv == \A g \in Greenlets \ Mains : life[g] = "active" => runs[g] >= 1

ParentInv ==
    \A g \in Greenlets \ Mains :
        parent[g] # NoOne /\ InProgress({"kill"}, g) = {} /\ FirstRun(g) => parent[g] = asked[g]

OwnInv == OwnCalls /\ RunsInv /\ ParentInv
OwnedParents == fault = "none" => OwnInv

\* Unless it is killed, a greenlet loses its parent, keeps it, or gets the one that is asked
\* for; what is asked for stays while it is killed.
ParentsFollow ==
    \A x \in Greenlets \ Mains :
        /\ InProgress({"kill"}, x) # {} => asked'[x] = asked[x]
        /\ InProgress({"kill"}, x) = {} =>
               \/ parent'[x] = NoOne
               \/ parent'[x] = parent[x] /\ asked'[x] = asked[x]
               \/ parent'[x] = asked'[x]

\* First runs are not had again; with a thread, all its greenlets lose it.
RunsGoOn ==
    /\ \A x \in Greenlets : (FirstRun(x)' => FirstRun(x)) /\ runs'[x] >= runs[x]
    /\ \A x \in Greenlets \ Mains : life'[x] = "active" => life[x] = "active" \/ runs'[x] >= 1
    /\ \A h \in Greenlets :
           calls[h] # <<>> /\ life'[h] = "active" =>
               /\ life[h] = "active"
               /\ Linked(h) => Linked(h)' \/ \A g \in Greenlets : MainFor(g) = MainFor(h) => ~Linked(g)'

LEMMA OwnKept ==
    ASSUME Typed, CareCalls, OwnInv, KillsSame, ParentsFollow, RunsGoOn,
           runs' \in [Greenlets -> Nat]
    PROVE  OwnInv'
<1>0. runs \in [Greenlets -> Nat]
    BY DEF Typed
<1>1. OwnCalls'
    <2> SUFFICES ASSUME NEW h \in Greenlets, NEW i \in DOMAIN calls'[h], NEW d, d = calls'[h][i],
                        d.op = "kill"
                 PROVE  OwnCall(h, d)'
        BY DEF OwnCalls, OwnCall
    <2>1. i \in DOMAIN calls[h] /\ d = calls[h][i] /\ calls[h] # <<>>
        <3>1. i \in DOMAIN calls[h] /\ d = calls[h][i]
            BY DEF KillsSame, NoNewKills
        <3> QED BY <3>1
    <2>2. d \in Calls
        <3>1. calls[h] \in Seq(Calls)
            BY DEF Typed
        <3> QED BY <2>1, <3>1
    <2>3. PICK x \in Greenlets : x = d.of /\ x \notin Mains /\ KillOK(h, x)
        <3>1. CareOK(h, i, d)
            BY <2>1 DEF CareCalls
        <3> QED BY <2>2, <3>1, CallKinds DEF CareOK
    <2>4. OwnCall(h, d)
        BY <2>1 DEF OwnInv, OwnCalls
    <2>5. runs[x] >= 1 /\ runs'[x] >= 1
        <3>1. runs[x] >= 1 /\ runs'[x] >= runs[x] /\ runs[x] \in Nat /\ runs'[x] \in Nat
            BY <1>0, <2>3, <2>4 DEF OwnCall, RunsGoOn
        <3> QED BY <3>1
    <2>6. h \in InProgress({"kill"}, x)
        BY <2>1, <2>3 DEF InProgress
    <2>7. asked'[x] = asked[x]
        BY <2>3, <2>6 DEF ParentsFollow
    <2>8. ASSUME FirstRun(x)' PROVE d.old \in {asked'[x], NoOne} /\ (life'[h] = "active" => Linked(h)')
        <3>1. FirstRun(x)
            BY <2>8 DEF RunsGoOn
        <3>2. d.old \in {asked[x], NoOne} /\ (life[h] = "active" => Linked(h))
            BY <2>3, <2>4, <3>1 DEF OwnCall
        <3>3. ASSUME life'[h] = "active", ~Linked(h)' PROVE FALSE
            <4>1. Linked(h) /\ \A g \in Greenlets : MainFor(g) = MainFor(h) => ~Linked(g)'
                BY <2>1, <3>2, <3>3 DEF RunsGoOn
            <4>2. ~Linked(x)'
                BY <2>3, <4>1 DEF KillOK
            <4>3. runs'[x] = 0 \/ Linked(x)'
                BY <2>8 DEF FirstRun
            <4> QED BY <2>5, <4>2, <4>3
        <3> QED BY <2>7, <3>2, <3>3
    <2> QED BY <2>3, <2>5, <2>8 DEF OwnCall
<1>2. RunsInv'
    <2> SUFFICES ASSUME NEW x \in Greenlets \ Mains, life'[x] = "active" PROVE runs'[x] >= 1
        BY DEF RunsInv, Mains
    <2>1. life[x] = "active" \/ runs'[x] >= 1
        BY DEF RunsGoOn
    <2>2. ASSUME life[x] = "active" PROVE runs'[x] >= 1
        <3>1. runs[x] >= 1 /\ runs'[x] >= runs[x] /\ runs[x] \in Nat /\ runs'[x] \in Nat
            BY <1>0, <2>2 DEF OwnInv, RunsInv, RunsGoOn
        <3> QED BY <3>1
    <2> QED BY <2>1, <2>2
<1>3. ParentInv'
    <2> SUFFICES ASSUME NEW x \in Greenlets \ Mains, parent'[x] # NoOne, InProgress({"kill"}, x)' = {},
                        FirstRun(x)'
                 PROVE  parent'[x] = asked'[x]
        BY DEF ParentInv, Mains
    <2>1. FirstRun(x)
        BY DEF RunsGoOn
    <2>2. CASE InProgress({"kill"}, x) = {}
        BY <2>1, <2>2 DEF ParentsFollow, OwnInv, ParentInv
    <2>3. CASE InProgress({"kill"}, x) # {}
        <3>1. PICK h \in Greenlets : \E i \in DOMAIN calls[h] : calls[h][i].op = "kill" /\ calls[h][i].of = x
            BY <2>3 DEF InProgress
        <3>2. PICK i \in DOMAIN calls[h] : calls[h][i].op = "kill" /\ calls[h][i].of = x
            BY <3>1
        <3>3. CASE i \in DOMAIN calls'[h] /\ calls'[h][i] = calls[h][i]
            <4>1. h \in InProgress({"kill"}, x)'
                BY <3>2, <3>3 DEF InProgress
            <4> QED BY <4>1
        <3>4. CASE Unwound(h)
            <4>1. OwnCall(h, calls[h][i])
                BY <3>2 DEF OwnInv, OwnCalls
            <4> QED BY <2>1, <3>2, <3>4, <4>1 DEF OwnCall, Unwound
        <3> QED BY <3>2, <3>3, <3>4 DEF KillsSame, KillsStay
    <2> QED BY <2>2, <2>3
<1> QED BY <1>1, <1>2, <1>3 DEF OwnInv

\* No greenlet comes to life, or loses its thread and stays alive.
LEMMA LivesEnd ==
    ASSUME Typed, runs' = runs,
           \A x \in Greenlets : life'[x] = "active" => life[x] = "active" /\ (Linked(x)' <=> Linked(x))
    PROVE  RunsGoOn
<1>1. \A x \in Greenlets : (FirstRun(x)' => FirstRun(x)) /\ runs'[x] >= runs[x]
    <2> TAKE x \in Greenlets
    <2>1. runs[x] \in Nat
        BY DEF Typed
    <2>2. runs[x] >= runs[x]
        BY <2>1
    <2> QED BY <2>2 DEF FirstRun
<1> QED BY <1>1 DEF RunsGoOn

LEMMA AsBefore ==
    ASSUME Typed, UNCHANGED <<life, home, thread, runs>>
    PROVE  RunsGoOn
<1>1. \A x \in Greenlets : Linked(x)' <=> Linked(x)
    BY DEF Linked, MainFor
<1> QED BY <1>1, LivesEnd

LEMMA ParentsStay ==
    ASSUME UNCHANGED <<parent, asked>>
    PROVE  ParentsFollow
BY DEF ParentsFollow

LEMMA SetParentFollows ==
    ASSUME LifeInv, NEW t \in Threads, NEW g \in Greenlets, NEW p \in Greenlets, SetParent(t, g, p)
    PROVE  ParentsFollow /\ RunsGoOn
<1>1. /\ PythonRuns(t) /\ parent' = [parent EXCEPT ![g] = p]
      /\ asked' = IF InProgress({"kill"}, g) # {} THEN asked ELSE [asked EXCEPT ![g] = p]
      /\ UNCHANGED <<life, home, thread, runs>>
    BY DEF SetParent
<1>2. Typed
    BY <1>1, Running DEF LifeInv
<1>3. ParentsFollow
    BY <1>1, <1>2 DEF ParentsFollow, Typed
<1> QED BY <1>1, <1>2, <1>3, AsBefore

LEMMA NewStepFollows ==
    ASSUME LifeInv, NEW t \in Threads, NewStep(t)
    PROVE  ParentsFollow /\ RunsGoOn
<1>1. PICK g : /\ g = Top(t).of /\ Executes(t, "new")
               /\ life' = [life EXCEPT ![g] = "new"]
               /\ parent' = [parent EXCEPT ![g] = current[t]]
               /\ asked' = [asked EXCEPT ![g] = current[t]]
               /\ UNCHANGED <<home, thread, runs>>
    BY DEF NewStep
<1>2. /\ Typed /\ ControlInv /\ Top(t) \in Calls /\ Top(t).op = "new"
      /\ CallOK(current[t], Len(calls[current[t]]), Top(t))
      /\ \A x \in Greenlets : rc[x] = References(x)
    BY <1>1, Innermost
<1>3. g \in Greenlets /\ life[g] = "none"
    BY <1>1, <1>2, CallKinds DEF CallOK
<1>4. Disowned(g)
    <2>1. rc[g] = 0
        BY <1>2, <1>3 DEF ControlInv, NoneInv
    <2> QED BY <1>2, <1>3, <2>1, ZeroCount
<1>5. InProgress({"kill"}, g) = {}
    BY <1>4, DisownedCalls DEF InProgress
<1>6. ParentsFollow
    BY <1>1, <1>2, <1>3, <1>5 DEF ParentsFollow, Typed
<1>7. \A x \in Greenlets : life'[x] = "active" => life[x] = "active" /\ (Linked(x)' <=> Linked(x))
    BY <1>1, <1>2, <1>3 DEF Typed, Linked, MainFor
<1> QED BY <1>1, <1>2, <1>6, <1>7, LivesEnd

\* What is deactivated starts anew.
LEMMA EndedFollows ==
    ASSUME Typed, NEW g \in Greenlets, NEW l, l # "active", life' = [life EXCEPT ![g] = l],
           \A x \in Greenlets \ {g} : home'[x] = home[x],
           UNCHANGED <<parent, thread, asked, runs>>
    PROVE  ParentsFollow /\ RunsGoOn
<1>1. \A x \in Greenlets : life'[x] = "active" => life[x] = "active" /\ (Linked(x)' <=> Linked(x))
    BY DEF Typed, Linked, MainFor
<1> QED BY <1>1, LivesEnd, ParentsStay

LEMMA LookDeadFollows ==
    ASSUME LifeInv, NEW t \in Threads, NEW g \in Greenlets, LookDead(t, g)
    PROVE  ParentsFollow /\ RunsGoOn
<1>1. Typed
    <2>1. PythonRuns(t)
        BY DEF LookDead
    <2> QED BY <2>1, Running DEF LifeInv
<1>2. life' = [life EXCEPT ![g] = "new"] /\ UNCHANGED <<home, parent, thread, asked, runs>>
    BY DEF LookDead
<1> QED BY <1>1, <1>2, EndedFollows

LEMMA CollectFollows ==
    ASSUME LifeInv, NEW t \in Threads, NEW S \in SUBSET Greenlets, Collect(t, S)
    PROVE  ParentsFollow /\ RunsGoOn
<1>1. PICK gone : /\ gone = {g \in S : life[g] = "active" /\ InDeadThread(g)}
                  /\ PythonRuns(t) /\ \A g \in S : IsGC(g)
                  /\ parent' = [g \in Greenlets |-> IF g \in S THEN NoOne ELSE parent[g]]
                  /\ home' = [g \in Greenlets |-> IF g \in S THEN NoOne ELSE home[g]]
                  /\ life' = [g \in Greenlets |-> IF g \in gone THEN "dead" ELSE life[g]]
                  /\ UNCHANGED <<thread, asked, runs>>
    BY DEF Collect
<1>2. Typed
    BY <1>1, Running DEF LifeInv
<1>3. ParentsFollow
    BY <1>1 DEF ParentsFollow
<1>4. ASSUME NEW x \in Greenlets, life'[x] = "active"
      PROVE  life[x] = "active" /\ (Linked(x)' <=> Linked(x))
    <2>1. life[x] = "active" /\ x \notin gone
        BY <1>1, <1>4
    <2>2. x \in S => x \in Mains
        BY <1>1, <2>1 DEF IsGC
    <2>3. MainFor(x)' = MainFor(x)
        BY <1>1, <2>2 DEF MainFor, Mains
    <2> QED BY <1>1, <2>1, <2>3 DEF Linked
<1> QED BY <1>1, <1>2, <1>3, <1>4, LivesEnd

LEMMA MurderFollows ==
    ASSUME LifeInv, NEW t \in Threads, Murder(t)
    PROVE  ParentsFollow /\ RunsGoOn
<1>1. PICK g \in Top(t).todo :
          /\ Executes(t, "clear") /\ home' = [home EXCEPT ![g] = NoOne]
          /\ IF life[g] = "active" THEN life' = [life EXCEPT ![g] = "new"] ELSE life' = life
          /\ UNCHANGED <<parent, thread, asked, runs>>
    BY DEF Murder
<1>2. Typed /\ Top(t) \in Calls /\ Top(t).op = "clear"
    BY <1>1, Innermost
<1>3. g \in Greenlets
    <2>1. Top(t).todo \subseteq Greenlets
        BY <1>2, CallKinds
    <2> QED BY <2>1
<1>4. life'[g] # "active" /\ \A x \in Greenlets \ {g} : life'[x] = life[x] /\ home'[x] = home[x]
    BY <1>1, <1>2, <1>3 DEF Typed
<1>5. \A x \in Greenlets : life'[x] = "active" => life[x] = "active" /\ (Linked(x)' <=> Linked(x))
    BY <1>1, <1>4 DEF Linked, MainFor
<1> QED BY <1>1, <1>2, <1>5, LivesEnd, ParentsStay

\* A thread state is destroyed when its thread has exited.
LEMMA DestroyStepFollows ==
    ASSUME LifeInv, NEW t \in Threads, DestroyStep(t)
    PROVE  ParentsFollow /\ RunsGoOn
<1>1. PICK u : /\ u = Top(t).state /\ Executes(t, "destroy")
               /\ thread' = [thread EXCEPT ![u] = "destroyed"]
               /\ UNCHANGED <<life, parent, home, asked, runs>>
    BY DEF DestroyStep
<1>2. /\ Typed /\ Top(t) \in Calls /\ Top(t).op = "destroy"
      /\ CallOK(current[t], Len(calls[current[t]]), Top(t))
    BY <1>1, Innermost
<1>3. u \in Threads /\ thread[u] = "exited"
    BY <1>1, <1>2, CallKinds DEF CallOK
<1>4. \A v \in Threads : thread'[v] = "running" <=> thread[v] = "running"
    BY <1>1, <1>2, <1>3 DEF Typed
<1>5. \A x \in Greenlets : Linked(x)' <=> Linked(x)
    BY <1>1, <1>4 DEF Linked, MainFor
<1> QED BY <1>1, <1>2, <1>5, LivesEnd, ParentsStay

LEMMA GiveUpFollows ==
    ASSUME LifeInv, NEW t \in Threads, GiveUp(t)
    PROVE  ParentsFollow /\ RunsGoOn
<1>1. PICK g : /\ g = Top(t).of /\ Executes(t, "dealloc") /\ life' = [life EXCEPT ![g] = "new"]
               /\ UNCHANGED <<parent, home, thread, asked, runs>>
    BY DEF GiveUp
<1>2. Typed /\ g \in Greenlets
    <2>1. Typed /\ Top(t) \in Calls /\ Top(t).op = "dealloc"
        BY <1>1, Innermost
    <2> QED BY <1>1, <2>1, CallKinds
<1> QED BY <1>1, <1>2, EndedFollows

LEMMA DeleteFollows ==
    ASSUME LifeInv, NEW t \in Threads, Delete(t)
    PROVE  ParentsFollow /\ RunsGoOn
<1>1. PICK g : /\ g = Top(t).of /\ Executes(t, "delete") /\ life' = [life EXCEPT ![g] = "freed"]
               /\ parent' = [parent EXCEPT ![g] = NoOne] /\ home' = [home EXCEPT ![g] = NoOne]
               /\ UNCHANGED <<thread, asked, runs>>
    BY DEF Delete
<1>2. Typed /\ g \in Greenlets
    <2>1. Typed /\ Top(t) \in Calls /\ Top(t).op = "delete"
        BY <1>1, Innermost
    <2> QED BY <1>1, <2>1, CallKinds
<1>3. ParentsFollow
    BY <1>1, <1>2 DEF ParentsFollow, Typed
<1>4. \A x \in Greenlets : life'[x] = "active" => life[x] = "active" /\ (Linked(x)' <=> Linked(x))
    BY <1>1, <1>2 DEF Typed, Linked, MainFor
<1> QED BY <1>1, <1>2, <1>3, <1>4, LivesEnd

LEMMA DieFollows ==
    ASSUME LifeInv, NEW t \in Threads, Die(t)
    PROVE  ParentsFollow /\ RunsGoOn
<1>1. /\ Executes(t, "finish") /\ life' = [life EXCEPT ![current[t]] = "dead"]
      /\ UNCHANGED <<parent, home, thread, asked, runs>>
    BY DEF Die
<1>2. Typed /\ current[t] \in Greenlets
    BY <1>1, Innermost
<1> QED BY <1>1, <1>2, EndedFollows

LEMMA StartFollows ==
    ASSUME LifeInv, NEW t \in Threads, Start(t)
    PROVE  ParentsFollow /\ RunsGoOn
<1>1. PICK g : /\ g = Top(t).of /\ Executes(t, "start") /\ life' = [life EXCEPT ![g] = "dead"]
               /\ home' = [home EXCEPT ![g] = MainOf[t]]
               /\ UNCHANGED <<parent, thread, asked, runs>>
    BY DEF Start
<1>2. Typed /\ g \in Greenlets
    <2>1. Typed /\ Top(t) \in Calls /\ Top(t).op = "start"
        BY <1>1, Innermost
    <2> QED BY <1>1, <2>1, CallKinds
<1>3. \A x \in Greenlets \ {g} : home'[x] = home[x]
    BY <1>1, <1>2 DEF Typed
<1> QED BY <1>1, <1>2, <1>3, EndedFollows

\* The greenlets of a thread that exits can never go on.
LEMMA ExitFollows ==
    ASSUME LifeInv, fault = "none", NEW t \in Threads, Exit(t)
    PROVE  ParentsFollow /\ RunsGoOn
<1>1. thread' = [thread EXCEPT ![t] = "exited"] /\ UNCHANGED <<life, parent, home, asked, runs>>
    BY DEF Exit
<1>2. Typed
    BY TypeOKTyped DEF LifeInv, RefInv
<1>3. \A x \in Greenlets : MainFor(x)' = MainFor(x) /\ (Linked(x)' => Linked(x))
    BY <1>1, <1>2 DEF Typed, Linked, MainFor
<1>4. \A x, h \in Greenlets : MainFor(x) = MainFor(h) /\ Linked(x)' => Linked(h)'
    BY <1>3 DEF Linked
<1>5. \A x \in Greenlets : (FirstRun(x)' => FirstRun(x)) /\ runs'[x] >= runs[x]
    <2> TAKE x \in Greenlets
    <2>1. runs[x] \in Nat
        BY <1>2 DEF Typed
    <2>2. runs[x] >= runs[x]
        BY <2>1
    <2> QED BY <1>1, <1>3, <2>2 DEF FirstRun
<1>6. RunsGoOn
    BY <1>1, <1>4, <1>5 DEF RunsGoOn
<1> QED BY <1>1, <1>6, ParentsStay

\* Whoever is entered for the first time has no calls.
LEMMA JumpFollows ==
    ASSUME LifeInv, NEW t \in Threads, Jump(t), fault' = "none"
    PROVE  ParentsFollow /\ RunsGoOn
<1>1. PICK g, first :
          /\ g = Top(t).of /\ first = Top(t).first /\ Executes(t, "jump")
          /\ life[g] = (IF first THEN "dead" ELSE "active")
          /\ life' = [life EXCEPT ![g] = "active"]
          /\ runs' = [runs EXCEPT ![g] = IF first THEN @ + 1 ELSE @]
          /\ UNCHANGED <<parent, home, thread, asked>>
    BY DEF Jump
<1>2. /\ Typed /\ CareInv /\ Top(t) \in Calls /\ Top(t).op = "jump"
      /\ CallOK(current[t], Len(calls[current[t]]), Top(t))
    BY <1>1, Innermost
<1>3. g \in Greenlets /\ first \in BOOLEAN /\ (first => ~Runs(g))
    BY <1>1, <1>2, CallKinds DEF CallOK
<1>4. \A x \in Greenlets : Linked(x)' <=> Linked(x)
    BY <1>1 DEF Linked, MainFor
<1>5. /\ \A x \in Greenlets : x # g => life'[x] = life[x] /\ runs'[x] = runs[x]
      /\ life'[g] = "active" /\ runs'[g] = (IF first THEN runs[g] + 1 ELSE runs[g])
      /\ \A x \in Greenlets : runs[x] \in Nat
    BY <1>1, <1>2, <1>3 DEF Typed
<1>6. PICK m \in Nat : m = runs[g]
    BY <1>3, <1>5
<1>7. (FirstRun(g)' => FirstRun(g)) /\ runs'[g] >= runs[g] /\ (life[g] = "active" \/ runs'[g] >= 1)
    <2>1. CASE first
        <3>1. runs'[g] = m + 1 /\ m + 1 # 0 /\ (m + 1 = 1 => m = 0) /\ m + 1 >= m /\ m + 1 >= 1
            BY <1>5, <1>6, <2>1
        <3> QED BY <1>6, <3>1 DEF FirstRun
    <2>2. CASE ~first
        <3>1. runs'[g] = m /\ m >= m /\ life[g] = "active"
            BY <1>1, <1>5, <1>6, <2>2
        <3> QED BY <1>4, <1>3, <1>5, <1>6, <3>1 DEF FirstRun
    <2> QED BY <1>3, <2>1, <2>2
<1>8. \A x \in Greenlets : (FirstRun(x)' => FirstRun(x)) /\ runs'[x] >= runs[x]
    <2> TAKE x \in Greenlets
    <2>1. CASE x # g
        <3>1. runs[x] >= runs[x]
            BY <1>5
        <3> QED BY <1>4, <1>5, <2>1, <3>1 DEF FirstRun
    <2> QED BY <1>7, <2>1
<1>9. calls[g] # <<>> => life[g] = "active"
    BY <1>1, <1>2, <1>3 DEF CareInv, IdleInv, Idle
<1>10. RunsGoOn
    BY <1>4, <1>5, <1>7, <1>8, <1>9 DEF RunsGoOn
<1> QED BY <1>1, <1>10, ParentsStay

\* The parent that the kill remembers is what was asked for.
LEMMA KillOwns ==
    ASSUME LifeInv, OwnInv, NEW t \in Threads, Kill(t)
    PROVE  OwnInv'
<1>1. PICK g : /\ g = Top(t).of /\ Executes(t, "dealloc")
               /\ g \notin Mains /\ life[g] = "active"
               /\ parent' = [parent EXCEPT ![g] = current[t]]
               /\ calls' = Replaced(current[t], <<Killing(g, parent[g]), SwitchTo(g, FALSE)>>)
               /\ UNCHANGED <<life, home, thread, current, asked, runs>>
    BY DEF Kill
<1>2. /\ Typed /\ ControlInv /\ CareInv /\ thread[t] = "running"
      /\ current[t] \in Greenlets /\ calls[current[t]] # <<>> /\ calls[current[t]] \in Seq(Calls)
      /\ Top(t) = Last(calls[current[t]]) /\ Top(t) \in Calls /\ Top(t).op = "dealloc"
      /\ CallOK(current[t], Len(calls[current[t]]), Top(t))
      /\ \A x \in Greenlets : rc[x] = References(x)
    BY <1>1, Innermost
<1>3. PICK c \in Greenlets : c = current[t]
    BY <1>2
<1>4. g \in Greenlets
    BY <1>1, <1>2, CallKinds
<1>5. InProgress({"kill"}, g) = {}
    <2>1. rc[g] = 0
        BY <1>1, <1>2 DEF CallOK
    <2>2. Disowned(g)
        BY <1>2, <1>4, <2>1, ZeroCount
    <2> QED BY <2>2, DisownedCalls DEF InProgress
<1>6. PICK p \in Greenlets \cup {NoOne} : p = parent[g]
    BY <1>2, <1>4 DEF Typed
<1>7. PICK call \in Calls : /\ call = Killing(g, p) /\ call.op = "kill"
                            /\ call.of = g /\ call.old = p
    BY <1>4, Constructors DEF Killing
<1>8. PICK to \in Calls : to = SwitchTo(g, FALSE) /\ to.op = "switch"
    BY <1>4, Constructors DEF SwitchTo
<1>9. PICK r \in Seq(Calls) : r = <<call, to>>
    <2>1. <<call, to>> \in Seq(Calls)
        OBVIOUS
    <2> QED BY <2>1
<1>10. Becomes(c, Len(calls[c]) - 1, r)
    BY <1>1, <1>2, <1>3, <1>6, <1>7, <1>8, <1>9, ReplacedBecomes
<1>11. \A h \in Greenlets \ {c} : calls'[h] = calls[h]
    BY <1>1, <1>2, <1>3 DEF Typed, Replaced
<1>12. \A x \in Greenlets : (Linked(x)' <=> Linked(x)) /\ (FirstRun(x)' <=> FirstRun(x))
    BY <1>1 DEF Linked, MainFor, FirstRun
<1>13. OwnCalls'
    <2> SUFFICES ASSUME NEW h \in Greenlets, NEW i \in DOMAIN calls'[h], NEW d, d = calls'[h][i],
                        d.op = "kill"
                 PROVE  OwnCall(h, d)'
        BY DEF OwnCalls, OwnCall
    <2>1. \/ i \in DOMAIN calls[h] /\ d = calls[h][i]
          \/ h = c /\ \E k \in 1..Len(r) : d = r[k]
        BY <1>10, Origin
    <2>2. CASE i \in DOMAIN calls[h] /\ d = calls[h][i]
        <3>1. calls[h] \in Seq(Calls)
            BY <1>2 DEF Typed
        <3>2. d \in Calls
            BY <2>2, <3>1
        <3>3. PICK x \in Greenlets : x = d.of
            BY <2>2, <3>2, CallKinds
        <3>4. OwnCall(h, d)
            BY <2>2 DEF OwnInv, OwnCalls
        <3> QED BY <1>1, <1>12, <3>3, <3>4 DEF OwnCall
    <2>3. CASE h = c /\ \E k \in 1..Len(r) : d = r[k]
        <3>1. d = call
            <4>1. \A k \in 1..Len(r) : r[k] \in {call, to}
                BY <1>9
            <4> QED BY <1>8, <2>3, <4>1
        <3>2. runs[g] >= 1
            BY <1>1, <1>4 DEF OwnInv, RunsInv
        <3>3. FirstRun(g) => p \in {asked[g], NoOne}
            BY <1>1, <1>4, <1>5, <1>6 DEF OwnInv, ParentInv
        <3>4. life[c] = "active" => Linked(c)
            BY <1>2, <1>3, CurrentLinked DEF Runs
        <3> QED BY <1>1, <1>3, <1>4, <1>7, <1>12, <2>3, <3>1, <3>2, <3>3, <3>4 DEF OwnCall
    <2> QED BY <2>1, <2>2, <2>3
<1>14. RunsInv'
    BY <1>1 DEF OwnInv, RunsInv, Mains
<1>15. ParentInv'
    <2> SUFFICES ASSUME NEW x \in Greenlets \ Mains, parent'[x] # NoOne, InProgress({"kill"}, x)' = {},
                        FirstRun(x)
                 PROVE  parent'[x] = asked'[x]
        BY <1>12 DEF ParentInv, Mains
    <2>1. x # g
        <3>1. PICK m \in Nat : m = Len(calls[c]) /\ m # 0
            BY <1>2, <1>3, EmptySeq
        <3>2. DOMAIN calls'[c] = 1..(m - 1 + 2) /\ m - 1 + 1 = m /\ m \in 1..(m - 1 + 2)
            <4>1. Len(r) = 2
                BY <1>9
            <4> QED BY <1>10, <3>1, <4>1 DEF Becomes
        <3>3. calls'[c][m] = call
            <4>1. 1 \in 1..Len(r) /\ r[1] = call
                BY <1>9
            <4>2. calls'[c][Len(calls[c]) - 1 + 1] = r[1]
                BY <1>10, <4>1 DEF Becomes
            <4> QED BY <3>1, <3>2, <4>1, <4>2
        <3>4. c \in InProgress({"kill"}, g)'
            BY <1>7, <3>2, <3>3 DEF InProgress
        <3> QED BY <3>4
    <2>2. InProgress({"kill"}, x) = {}
        <3> SUFFICES ASSUME NEW h \in Greenlets, NEW i \in DOMAIN calls[h], calls[h][i].op = "kill",
                            calls[h][i].of = x
                     PROVE  FALSE
            BY DEF InProgress
        <3>1. i \in DOMAIN calls'[h] /\ calls'[h][i] = calls[h][i]
            <4>1. CASE h = c
                <5>1. i # Len(calls[c])
                    BY <1>2, <1>3, <4>1 DEF Last
                <5> QED BY <1>2, <1>10, <4>1, <5>1, CallStays
            <4> QED BY <1>11, <4>1
        <3>2. h \in InProgress({"kill"}, x)'
            BY <3>1 DEF InProgress
        <3> QED BY <3>2
    <2>3. parent'[x] = parent[x]
        BY <1>1, <1>2, <2>1 DEF Typed
    <2> QED BY <1>1, <2>2, <2>3 DEF OwnInv, ParentInv
<1> QED BY <1>13, <1>14, <1>15 DEF OwnInv

\* When the kill is over, it puts that parent back.
LEMMA KillReturnOwns ==
    ASSUME LifeInv, OwnInv, NEW t \in Threads, KillReturn(t)
    PROVE  OwnInv'
<1>1. PICK g, old :
               /\ g = Top(t).of /\ old = Top(t).old /\ Executes(t, "kill")
               /\ parent' = [parent EXCEPT ![g] = old]
               /\ calls' = Replaced(current[t], <<Doing("undo", g)>> \o Dropping(Present(parent[g])))
               /\ UNCHANGED <<life, home, thread, asked, runs>>
    BY DEF KillReturn, OldParent
<1>2. /\ Typed /\ current[t] \in Greenlets
      /\ calls[current[t]] # <<>> /\ calls[current[t]] \in Seq(Calls)
      /\ Len(calls[current[t]]) \in DOMAIN calls[current[t]]
      /\ Top(t) = calls[current[t]][Len(calls[current[t]])]
      /\ Top(t) \in Calls /\ Top(t).op = "kill"
    BY <1>1, Executing DEF LifeInv
<1>3. PICK c \in Greenlets : c = current[t]
    BY <1>2
<1>4. g \in Greenlets
    BY <1>1, <1>2, CallKinds
<1>5. PICK call \in Calls : call = Doing("undo", g) /\ call.op = "undo"
    BY <1>4, Constructors DEF Doing
<1>6. PICK s : s = Dropping(Present(parent[g])) /\ Tame(s, {})
    <2>1. parent[g] \in Greenlets \cup {NoOne}
        BY <1>2, <1>4 DEF Typed
    <2> QED BY <2>1, PresentListed, TameDropping
<1>7. Tame(<<call>>, {})
    BY <1>5, TameOne
<1>8. PICK r \in Seq(Calls) : r = <<call>> \o s /\ NoKills(r)
    <2>1. Tame(<<call>> \o s, {})
        BY <1>6, <1>7, TameConcat
    <2> QED BY <2>1 DEF Tame, NoKills
<1>9. Becomes(c, Len(calls[c]) - 1, r)
    BY <1>1, <1>2, <1>3, <1>5, <1>6, <1>8, ReplacedBecomes
<1>10. \A h \in Greenlets \ {c} : calls'[h] = calls[h]
    BY <1>1, <1>2, <1>3 DEF Typed, Replaced
<1>11. \A x \in Greenlets : (Linked(x)' <=> Linked(x)) /\ (FirstRun(x)' <=> FirstRun(x))
    BY <1>1 DEF Linked, MainFor, FirstRun
<1>12. OwnCalls'
    <2> SUFFICES ASSUME NEW h \in Greenlets, NEW i \in DOMAIN calls'[h], NEW d, d = calls'[h][i],
                        d.op = "kill"
                 PROVE  OwnCall(h, d)'
        BY DEF OwnCalls, OwnCall
    <2>1. i \in DOMAIN calls[h] /\ d = calls[h][i]
        <3>1. \/ i \in DOMAIN calls[h] /\ d = calls[h][i]
              \/ \E k \in 1..Len(r) : d = r[k]
            BY <1>9, Origin
        <3> QED BY <1>8, <3>1 DEF NoKills
    <2>2. calls[h] \in Seq(Calls)
        BY <1>2 DEF Typed
    <2>3. d \in Calls
        BY <2>1, <2>2
    <2>4. PICK x \in Greenlets : x = d.of
        BY <2>3, CallKinds
    <2>5. OwnCall(h, d)
        BY <2>1 DEF OwnInv, OwnCalls
    <2> QED BY <1>1, <1>11, <2>4, <2>5 DEF OwnCall
<1>13. RunsInv'
    BY <1>1 DEF OwnInv, RunsInv, Mains
<1>14. ParentInv'
    <2> SUFFICES ASSUME NEW x \in Greenlets \ Mains, parent'[x] # NoOne, InProgress({"kill"}, x)' = {},
                        FirstRun(x)
                 PROVE  parent'[x] = asked'[x]
        BY <1>11 DEF ParentInv, Mains
    <2>1. CASE x = g
        <3>1. OwnCall(c, Top(t))
            BY <1>2, <1>3 DEF OwnInv, OwnCalls
        <3>2. old \in {asked[g], NoOne}
            BY <1>1, <1>2, <2>1, <3>1 DEF OwnCall
        <3>3. parent'[g] = old
            BY <1>1, <1>2, <1>4 DEF Typed
        <3> QED BY <1>1, <2>1, <3>2, <3>3
    <2>2. CASE x # g
        <3>1. InProgress({"kill"}, x) = {}
            <4> SUFFICES ASSUME NEW h \in Greenlets, NEW i \in DOMAIN calls[h], calls[h][i].op = "kill",
                                calls[h][i].of = x
                         PROVE  FALSE
                BY DEF InProgress
            <4>1. i \in DOMAIN calls'[h] /\ calls'[h][i] = calls[h][i]
                <5>1. CASE h = c
                    <6>1. i # Len(calls[c])
                        BY <1>1, <1>2, <1>3, <2>2, <5>1
                    <6> QED BY <1>2, <1>9, <5>1, <6>1, CallStays
                <5> QED BY <1>10, <5>1
            <4>2. h \in InProgress({"kill"}, x)'
                BY <4>1 DEF InProgress
            <4> QED BY <4>2
        <3>2. parent'[x] = parent[x]
            BY <1>1, <1>2, <2>2 DEF Typed
        <3> QED BY <1>1, <3>1, <3>2 DEF OwnInv, ParentInv
    <2> QED BY <2>1, <2>2
<1> QED BY <1>12, <1>13, <1>14 DEF OwnInv

LEMMA InitOwns == Init => OwnInv
<1> SUFFICES ASSUME Init PROVE OwnInv
    OBVIOUS
<1>1. \A h \in Greenlets : calls[h] = <<>> /\ DOMAIN calls[h] = {} /\ parent[h] = NoOne
    BY DEF Init
<1>2. \A g \in Greenlets \ Mains : life[g] # "active"
    BY DEF Init
<1> QED BY <1>1, <1>2 DEF OwnInv, OwnCalls, RunsInv, ParentInv

\* Most steps change neither parents, nor lives, nor threads.
Unchanging == UNCHANGED <<life, parent, home, thread, asked, runs>>

LEMMA PythonFollows ==
    ASSUME LifeInv, NEW t \in Threads, PythonStep(t), Typed
    PROVE  ParentsFollow /\ RunsGoOn
<1>1. CASE Unchanging
    BY <1>1, AsBefore, ParentsStay DEF Unchanging
<1>2. ASSUME NEW g \in Greenlets, New(t, g) \/ Switch(t, g) PROVE Unchanging
    BY <1>2 DEF New, Switch, Unchanging
<1>3. ASSUME NEW h \in Holders, NEW g \in Greenlets, Keep(t, h, g) \/ Forget(t, h, g)
      PROVE  Unchanging
    BY <1>3 DEF Keep, Forget, Unchanging
<1>4. ASSUME NEW g \in Greenlets, NEW x \in Greenlets, Name(t, g, x) \/ Unname(t, g, x)
      PROVE  Unchanging
    BY <1>4 DEF Name, Unname, Unchanging
<1>5. CASE GetCurrent(t) \/ Finish(t) \/ Return(t)
    BY <1>1, <1>5 DEF GetCurrent, Finish, Return, Unchanging
<1> QED BY <1>1, <1>2, <1>3, <1>4, <1>5, LookDeadFollows, SetParentFollows, CollectFollows
        DEF PythonStep

LEMMA CStepFollows ==
    ASSUME LifeInv, NEW t \in Threads, CStep(t), fault' = "none", Typed
    PROVE  Kill(t) \/ KillReturn(t) \/ (ParentsFollow /\ RunsGoOn)
<1>1. CASE Unchanging
    BY <1>1, AsBefore, ParentsStay DEF Unchanging
<1>2. CASE CurrentStep(t) \/ Drop(t) \/ ClearNext(t) \/ DeallocIdle(t)
    BY <1>1, <1>2 DEF CurrentStep, Drop, ClearNext, DeallocIdle, Unchanging
<1>3. CASE Park(t) \/ Undo(t) \/ Free(t) \/ Refuse(t)
    BY <1>1, <1>3 DEF Park, Undo, Free, Refuse, Unchanging
<1>4. CASE GSwitch(t) \/ GInitialstub(t) \/ Switchstack(t)
    BY <1>1, <1>4 DEF GSwitch, GInitialstub, Switchstack, Unchanging
<1>5. CASE NewStep(t) \/ Murder(t) \/ DestroyStep(t) \/ GiveUp(t)
    BY <1>5, NewStepFollows, MurderFollows, DestroyStepFollows, GiveUpFollows
<1>6. CASE Delete(t) \/ Die(t) \/ Start(t) \/ Jump(t)
    BY <1>6, DeleteFollows, DieFollows, StartFollows, JumpFollows
<1> QED BY <1>2, <1>3, <1>4, <1>5, <1>6 DEF CStep

LEMMA DestroyFollows ==
    ASSUME NEW u \in Threads, Destroy(u), Typed
    PROVE  ParentsFollow /\ RunsGoOn
<1>1. Unchanging
    BY DEF Destroy, Unchanging
<1> QED BY <1>1, AsBefore, ParentsStay DEF Unchanging

LEMMA StutterOwns ==
    ASSUME OwnInv, UNCHANGED vars
    PROVE  OwnInv'
<1>1. OwnCalls'
    BY DEF OwnInv, OwnCalls, OwnCall, FirstRun, Linked, MainFor, vars
<1>2. RunsInv' /\ ParentInv'
    BY DEF OwnInv, RunsInv, ParentInv, InProgress, FirstRun, Linked, MainFor, vars
<1> QED BY <1>1, <1>2 DEF OwnInv

\* Once the process has stopped, or been torn, it stays so.
LEMMA FaultsStay == [Next]_vars /\ fault' = "none" => fault = "none"
<1> SUFFICES ASSUME [Next]_vars, fault' = "none" PROVE fault = "none"
    OBVIOUS
<1>1. ASSUME NEW t \in Threads, PythonStep(t) PROVE fault = "none"
    BY <1>1 DEF PythonStep, PythonRuns, New, Switch, LookDead, Keep, Forget, Name, Unname, SetParent,
                Collect, GetCurrent, Finish, Return
<1>2. ASSUME NEW t \in Threads, NEW op, Executes(t, op) PROVE fault = "none"
    BY <1>2 DEF Executes
<1>3. ASSUME NEW t \in Threads, CStep(t) PROVE fault = "none"
    <2>1. CASE NewStep(t) \/ CurrentStep(t) \/ Drop(t) \/ ClearNext(t) \/ Murder(t) \/ DestroyStep(t)
        BY <1>2, <2>1 DEF NewStep, CurrentStep, Drop, ClearNext, Murder, DestroyStep
    <2>2. CASE DeallocIdle(t) \/ Kill(t) \/ Park(t) \/ GiveUp(t) \/ KillReturn(t) \/ Undo(t)
        BY <1>2, <2>2 DEF DeallocIdle, Kill, Park, GiveUp, KillReturn, Undo
    <2>3. CASE Free(t) \/ Delete(t) \/ Die(t) \/ Refuse(t) \/ GSwitch(t) \/ GInitialstub(t)
        BY <1>2, <2>3 DEF Free, Delete, Die, Refuse, GSwitch, GInitialstub
    <2>4. CASE Start(t) \/ Switchstack(t) \/ Jump(t)
        BY <1>2, <2>4 DEF Start, Switchstack, Jump
    <2> QED BY <1>3, <2>1, <2>2, <2>3, <2>4 DEF CStep
<1>4. ASSUME NEW t \in Threads, Exit(t) \/ Destroy(t) PROVE fault = "none"
    BY <1>4 DEF Exit, Destroy, PythonRuns
<1>5. CASE UNCHANGED vars
    BY <1>5 DEF vars
<1> QED BY <1>1, <1>3, <1>4, <1>5 DEF Next

LEMMA StepOwns == LifeInv /\ LifeInv' /\ OwnedParents /\ [Next]_vars => OwnedParents'
<1> SUFFICES ASSUME LifeInv, LifeInv', OwnedParents, [Next]_vars, fault' = "none" PROVE OwnInv'
    BY DEF OwnedParents
<1>1. fault = "none"
    BY FaultsStay
<1>2. OwnInv /\ Typed /\ CareCalls
    BY <1>1, TypeOKTyped DEF OwnedParents, LifeInv, RefInv, Cared, CareInv
<1>3. runs' \in [Greenlets -> Nat]
    BY DEF LifeInv, RefInv, TypeOK
<1>4. ASSUME KillsSame, ParentsFollow, RunsGoOn PROVE OwnInv'
    BY <1>2, <1>3, <1>4, OwnKept
<1>5. ASSUME NEW t \in Threads, PythonStep(t) PROVE OwnInv'
    BY <1>2, <1>4, <1>5, PythonCares, PythonFollows
<1>6. ASSUME NEW t \in Threads, CStep(t) PROVE OwnInv'
    <2>1. CASE Kill(t) \/ KillReturn(t)
        BY <1>2, <2>1, KillOwns, KillReturnOwns
    <2>2. CASE ~Kill(t) /\ ~KillReturn(t)
        BY <1>2, <1>4, <1>6, <2>2, CStepCares, CStepFollows
    <2> QED BY <2>1, <2>2
<1>7. ASSUME NEW t \in Threads, Exit(t) PROVE OwnInv'
    BY <1>1, <1>4, <1>7, ExitCares, ExitFollows
<1>8. ASSUME NEW t \in Threads, Destroy(t) PROVE OwnInv'
    BY <1>2, <1>4, <1>8, DestroyCares, DestroyFollows
<1>9. CASE UNCHANGED vars
    BY <1>2, <1>9, StutterOwns
<1> QED BY <1>5, <1>6, <1>7, <1>8, <1>9 DEF Next

\* A greenlet that survives GreenletExit has the parent that Python code gave it as soon as
\* the kill is over: no parent is put back that is out of date, whatever else is killed,
\* collected or destroyed meanwhile.
THEOREM OwnParentHolds == Spec /\ []LeaksAreLost => []OwnParent
<1>1. Init => OwnedParents
    BY InitOwns DEF OwnedParents
<1>2. LifeInv /\ LifeInv' /\ OwnedParents /\ [Next]_vars => OwnedParents'
    BY StepOwns
<1>3. OwnedParents => OwnParent
    BY DEF OwnedParents, OwnInv, ParentInv, OwnParent
<1> QED BY <1>1, <1>2, <1>3, LifeInvariance, PTL DEF Spec

\* Without optional cleanup nothing is searched for, and all of this holds as it stands.
THEOREM LivesWithoutCleanup ==
    ASSUME OptionalCleanup = FALSE
    PROVE  Spec => [](CurrentAlive /\ KilledInThread /\ ParkedForThread /\ OwnParent)
<1>1. LeaksAreLost
    BY DEF LeaksAreLost
<1> QED BY <1>1, CurrentAliveHolds, KilledInThreadHolds, ParkedForThreadHolds, OwnParentHolds, PTL

=============================================================================

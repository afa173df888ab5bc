-------------------------- MODULE DeallocationProofs --------------------------
(***************************************************************************)
(* The reference counts of Deallocation are exact, in every instance.      *)
(*                                                                         *)
(* The first part counts: what an assignment, a call and the end of a call *)
(* change in the number of references to a greenlet.                       *)
(***************************************************************************)
EXTENDS Deallocation, TLAPS, SequenceTheorems, FiniteSetTheorems

-----------------------------------------------------------------------------
(* Counting. *)

In(b) == IF b THEN 1 ELSE 0
Is(x, y) == IF x = y THEN 1 ELSE 0

\* A bijection, given as a function, carries finiteness and cardinality over.
LEMMA Carries ==
    ASSUME NEW S, IsFiniteSet(S), NEW T, NEW f \in [S -> T],
           \A x, y \in S : f[x] = f[y] => x = y,
           \A y \in T : \E x \in S : f[x] = y
    PROVE  IsFiniteSet(T) /\ Cardinality(T) = Cardinality(S)
<1>1. f \in Bijection(S, T)
    BY DEF Bijection, Injection, Surjection, IsInjective
<1>2. ExistsBijection(S, T)
    BY <1>1 DEF ExistsBijection
<1> QED BY <1>2, FS_Bijection

LEMMA DisjointUnion ==
    ASSUME NEW S, IsFiniteSet(S), NEW T, IsFiniteSet(T), S \cap T = {}
    PROVE  IsFiniteSet(S \cup T) /\ Cardinality(S \cup T) = Cardinality(S) + Cardinality(T)
BY FS_Union, FS_EmptySet, FS_CardinalityType, SMTT(30)

\* A part of a finite set of which at most one element changes sides
LEMMA OneMoves ==
    ASSUME NEW D, IsFiniteSet(D), NEW c \in D, NEW A, A \subseteq D, NEW B, B \subseteq D,
           \A x \in D \ {c} : x \in A <=> x \in B
    PROVE  /\ Cardinality(A) \in Nat /\ Cardinality(B) \in Nat
           /\ Cardinality(B) = Cardinality(A) - In(c \in A) + In(c \in B)
<1>1. IsFiniteSet(A) /\ IsFiniteSet(B)
    BY FS_Subset
<1>2. A \ {c} = B \ {c}
    OBVIOUS
<1>3. Cardinality(A \ {c}) = Cardinality(A) - In(c \in A)
    BY <1>1, FS_RemoveElement, FS_CardinalityType DEF In, Is
<1>4. Cardinality(B \ {c}) = Cardinality(B) - In(c \in B)
    BY <1>1, FS_RemoveElement, FS_CardinalityType DEF In, Is
<1>5. Cardinality(A) \in Nat /\ Cardinality(B) \in Nat
    BY <1>1, FS_CardinalityType
<1>6. Cardinality(A) - In(c \in A) = Cardinality(B) - In(c \in B)
    BY <1>2, <1>3, <1>4
<1>7. In(c \in A) \in Int /\ In(c \in B) \in Int
    BY DEF In, Is
<1> QED BY <1>5, <1>6, <1>7

LEMMA PointingUpdate ==
    ASSUME NEW f, IsFiniteSet(DOMAIN f), NEW c \in DOMAIN f, NEW d, DOMAIN d = DOMAIN f,
           \A x \in DOMAIN f \ {c} : d[x] = f[x], NEW g
    PROVE  Pointing(d, g) = Pointing(f, g) - Is(f[c], g) + Is(d[c], g)
<1> DEFINE A == {x \in DOMAIN f : f[x] = g}
           B == {x \in DOMAIN f : d[x] = g}
<1>1. /\ A \subseteq DOMAIN f /\ B \subseteq DOMAIN f
      /\ \A x \in DOMAIN f \ {c} : x \in A <=> x \in B
      /\ c \in A <=> f[c] = g
      /\ c \in B <=> d[c] = g
    OBVIOUS
<1>2. /\ Cardinality(A) \in Nat
      /\ Cardinality(B) = Cardinality(A) - In(c \in A) + In(c \in B)
    BY <1>1, OneMoves
<1>3. Pointing(f, g) = Cardinality(A) /\ Pointing(d, g) = Cardinality(B)
    BY DEF Pointing
<1> QED BY <1>1, <1>2, <1>3 DEF In, Is

LEMMA HoldingUpdate ==
    ASSUME NEW f, IsFiniteSet(DOMAIN f), NEW c \in DOMAIN f, NEW d, DOMAIN d = DOMAIN f,
           \A x \in DOMAIN f \ {c} : d[x] = f[x], NEW g
    PROVE  Holding(d, g) = Holding(f, g) - In(g \in f[c]) + In(g \in d[c])
<1> DEFINE A == {x \in DOMAIN f : g \in f[x]}
           B == {x \in DOMAIN f : g \in d[x]}
<1>1. /\ A \subseteq DOMAIN f /\ B \subseteq DOMAIN f
      /\ \A x \in DOMAIN f \ {c} : x \in A <=> x \in B
      /\ c \in A <=> g \in f[c]
      /\ c \in B <=> g \in d[c]
    OBVIOUS
<1>2. /\ Cardinality(A) \in Nat
      /\ Cardinality(B) = Cardinality(A) - In(c \in A) + In(c \in B)
    BY <1>1, OneMoves
<1>3. Holding(f, g) = Cardinality(A) /\ Holding(d, g) = Cardinality(B)
    BY DEF Holding
<1> QED BY <1>1, <1>2, <1>3 DEF In, Is

-----------------------------------------------------------------------------
(* The references that calls own. *)

LEMMA CallKinds ==
    ASSUME NEW call \in Calls
    PROVE  /\ call.op = "drop" => call.todo \in Seq(Greenlets) /\ call.todo # <<>>
           /\ call.op = "clear" => call.todo \subseteq Greenlets /\ call.murder \in BOOLEAN
           /\ call.op = "kill" => call.of \in Greenlets /\ call.old \in Greenlets \cup {NoOne}
           /\ call.op \in {"switch", "start", "stack", "jump", "new", "current", "dealloc",
                           "undo", "free", "delete", "finish"} => call.of \in Greenlets
           /\ call.op \in {"start", "stack"} => call.first = TRUE
           /\ call.op = "jump" => call.first \in BOOLEAN
           /\ call.op = "destroy" => call.state \in Threads
<1>1. CASE call \in [op : {"drop"}, todo : Seq(Greenlets) \ {<<>>}]
    BY <1>1
<1>2. CASE call \in [op : {"clear"}, todo : (SUBSET Greenlets) \ {{}}, murder : BOOLEAN]
    BY <1>2
<1>3. CASE call \in [op : {"kill"}, of : Greenlets, old : Greenlets \cup {NoOne}]
    BY <1>3
<1>4. CASE call \in [op : {"switch"}, of : Greenlets, dying : BOOLEAN]
    BY <1>4
<1>5. CASE call \in [op : {"start", "stack"}, of : Greenlets, first : {TRUE}]
    BY <1>5
<1>6. CASE call \in [op : {"jump"}, of : Greenlets, first : BOOLEAN]
    BY <1>6
<1>7. CASE call \in [op : {"new", "current", "dealloc", "undo", "free", "delete", "finish"}, of : Greenlets]
    BY <1>7
<1>8. CASE call \in [op : {"destroy"}, state : Threads]
    BY <1>8
<1>9. CASE call = Python
    BY <1>9 DEF Python
<1> QED BY <1>1, <1>2, <1>3, <1>4, <1>5, <1>6, <1>7, <1>8, <1>9 DEF Calls

LEMMA OwnedFinite ==
    ASSUME NEW call \in Calls
    PROVE  IsFiniteSet(Owned(call))
<1>1. CASE call.op = "drop"
    <2> DEFINE s == call.todo
               T == {<<i, s[i]>> : i \in DOMAIN s}
               f == [i \in DOMAIN s |-> <<i, s[i]>>]
    <2>1. s \in Seq(Greenlets)
        BY <1>1, CallKinds
    <2>2. DOMAIN s = 1..Len(s) /\ Len(s) \in Nat
        BY <2>1
    <2>3. IsFiniteSet(DOMAIN s)
        BY <2>2, FS_Interval
    <2>4. f \in [DOMAIN s -> T] /\ (\A y \in T : \E x \in DOMAIN s : f[x] = y)
        OBVIOUS
    <2>5. \A x, y \in DOMAIN s : f[x] = f[y] => x = y
        OBVIOUS
    <2> HIDE DEF s, T, f
    <2>6. IsFiniteSet(T)
        BY <2>3, <2>4, <2>5, Carries
    <2> QED BY <1>1, <2>6 DEF Owned, T, s
<1>2. CASE call.op = "clear"
    <2>1. IsFiniteSet(call.todo)
        BY <1>2, CallKinds, FS_Subset, FiniteAssumption
    <2>2. IsFiniteSet({0} \X call.todo)
        BY <2>1, FS_Product, FS_Singleton
    <2> QED BY <1>2, <2>2 DEF Owned
<1>3. CASE call.op = "kill"
    <2>1. IsFiniteSet({<<1, call.of>>}) /\ IsFiniteSet({<<2, call.old>>})
        BY FS_Singleton
    <2>2. IsFiniteSet({<<1, call.of>>} \cup {<<2, call.old>>})
        BY <2>1, FS_Union
    <2>3. Owned(call) = {<<1, call.of>>} \cup {<<2, call.old>>}
        BY <1>3 DEF Owned
    <2> QED BY <2>2, <2>3
<1>4. CASE call.op = "undo"
    <2>1. Owned(call) = {<<1, call.of>>}
        BY <1>4 DEF Owned
    <2> QED BY <2>1, FS_Singleton
<1>5. CASE call.op \notin {"drop", "clear", "kill", "undo"}
    <2>1. Owned(call) = {}
        BY <1>5 DEF Owned
    <2> QED BY <2>1, FS_EmptySet
<1> QED BY <1>1, <1>2, <1>3, <1>4, <1>5

\* How many references of one call are to g
Owns(call, g) == Cardinality({o \in Owned(call) : o[2] = g})

\* A family of disjoint finite sets
LEMMA FamilyFinite ==
    ASSUME NEW D, IsFiniteSet(D), NEW F, \A x \in D : IsFiniteSet(F[x])
    PROVE  IsFiniteSet(UNION {{x} \X F[x] : x \in D})
<1> DEFINE P == {{x} \X F[x] : x \in D}
           f == [x \in D |-> {x} \X F[x]]
<1>1. f \in Surjection(D, P)
    BY DEF Surjection
<1> HIDE DEF f
<1>2. IsFiniteSet(P)
    BY <1>1, FS_Surjection
<1>3. \A T \in P : IsFiniteSet(T)
    <2> SUFFICES ASSUME NEW x \in D PROVE IsFiniteSet({x} \X F[x])
        OBVIOUS
    <2> QED BY FS_Product, FS_Singleton
<1> QED BY <1>2, <1>3, FS_UNION

LEMMA TokensFinite ==
    ASSUME NEW s \in Seq(Calls), NEW g
    PROVE  IsFiniteSet(Tokens(s, g)) /\ OwnedBy(s, g) \in Nat
<1> DEFINE F == [i \in DOMAIN s |-> {o \in Owned(s[i]) : o[2] = g}]
<1>1. DOMAIN s = 1..Len(s) /\ Len(s) \in Nat
    OBVIOUS
<1>2. IsFiniteSet(DOMAIN s)
    BY <1>1, FS_Interval
<1>3. \A i \in DOMAIN s : IsFiniteSet(F[i])
    <2> SUFFICES ASSUME NEW i \in DOMAIN s PROVE IsFiniteSet({o \in Owned(s[i]) : o[2] = g})
        OBVIOUS
    <2>1. s[i] \in Calls
        BY <1>1, ElementOfSeq
    <2> QED BY <2>1, OwnedFinite, FS_Subset
<1>4. Tokens(s, g) = UNION {{i} \X F[i] : i \in DOMAIN s}
    BY DEF Tokens
<1> HIDE DEF F
<1>5. IsFiniteSet(Tokens(s, g))
    BY <1>2, <1>3, <1>4, FamilyFinite
<1> QED BY <1>5, FS_CardinalityType DEF OwnedBy

\* The calls r are added to s.
LEMMA OwnedConcat ==
    ASSUME NEW s \in Seq(Calls), NEW r \in Seq(Calls), NEW g
    PROVE  OwnedBy(s \o r, g) = OwnedBy(s, g) + OwnedBy(r, g)
<1> DEFINE n == Len(s)
           T == {p \in Tokens(s \o r, g) : p[1] > n}
           f == [p \in Tokens(r, g) |-> <<p[1] + n, p[2]>>]
<1>1. /\ n \in Nat /\ Len(r) \in Nat /\ DOMAIN s = 1..n /\ DOMAIN r = 1..Len(r)
      /\ DOMAIN (s \o r) = 1..(n + Len(r))
      /\ \A i \in 1..n : (s \o r)[i] = s[i]
      /\ \A i \in 1..Len(r) : (s \o r)[i + n] = r[i]
    OBVIOUS
<1>2. \A p : p \in Tokens(s \o r, g) <=>
                 \E i \in 1..(n + Len(r)) : \E o \in Owned((s \o r)[i]) :
                     o[2] = g /\ p = <<i, o>>
    BY <1>1 DEF Tokens
<1>3. \A p : p \in Tokens(s, g) <=> \E i \in 1..n : \E o \in Owned(s[i]) : o[2] = g /\ p = <<i, o>>
    BY <1>1 DEF Tokens
<1>4. \A p : p \in Tokens(r, g) <=>
                 \E i \in 1..Len(r) : \E o \in Owned(r[i]) : o[2] = g /\ p = <<i, o>>
    BY <1>1 DEF Tokens
<1> HIDE DEF n
<1>5. Tokens(s \o r, g) = Tokens(s, g) \cup T
    <2>1. ASSUME NEW p \in Tokens(s, g) PROVE p \in Tokens(s \o r, g)
        <3>1. PICK i \in 1..n : \E o \in Owned(s[i]) : o[2] = g /\ p = <<i, o>>
            BY <1>3
        <3>2. PICK o \in Owned(s[i]) : o[2] = g /\ p = <<i, o>>
            BY <3>1
        <3>3. i \in 1..(n + Len(r)) /\ o \in Owned((s \o r)[i])
            BY <1>1, <3>2
        <3> QED BY <1>2, <3>2, <3>3
    <2>2. ASSUME NEW p \in Tokens(s \o r, g), p \notin T PROVE p \in Tokens(s, g)
        <3>1. PICK i \in 1..(n + Len(r)) : \E o \in Owned((s \o r)[i]) : o[2] = g /\ p = <<i, o>>
            BY <1>2
        <3>2. PICK o \in Owned((s \o r)[i]) : o[2] = g /\ p = <<i, o>>
            BY <3>1
        <3>3. i \in 1..n /\ o \in Owned(s[i])
            BY <1>1, <2>2, <3>2
        <3> QED BY <1>3, <3>2, <3>3
    <2> QED BY <2>1, <2>2
<1>6. Tokens(s, g) \cap T = {}
    BY <1>1, <1>3
<1>7. f \in [Tokens(r, g) -> T]
    <2> SUFFICES ASSUME NEW p \in Tokens(r, g) PROVE <<p[1] + n, p[2]>> \in T
        OBVIOUS
    <2>1. PICK i \in 1..Len(r) : \E o \in Owned(r[i]) : o[2] = g /\ p = <<i, o>>
        BY <1>4
    <2>2. PICK o \in Owned(r[i]) : o[2] = g /\ p = <<i, o>>
        BY <2>1
    <2>3. i + n \in 1..(n + Len(r)) /\ o \in Owned((s \o r)[i + n]) /\ i + n > n
        BY <1>1, <2>2
    <2>4. <<i + n, o>> \in Tokens(s \o r, g)
        BY <1>2, <2>2, <2>3
    <2> QED BY <2>2, <2>3, <2>4
<1>8. \A p, q \in Tokens(r, g) : f[p] = f[q] => p = q
    <2> SUFFICES ASSUME NEW p \in Tokens(r, g), NEW q \in Tokens(r, g), f[p] = f[q]
                 PROVE  p = q
        OBVIOUS
    <2>1. PICK i \in 1..Len(r) : \E o \in Owned(r[i]) : p = <<i, o>>
        BY <1>4
    <2>2. PICK j \in 1..Len(r) : \E o \in Owned(r[j]) : q = <<j, o>>
        BY <1>4
    <2> QED BY <1>1, <2>1, <2>2
<1>9. \A y \in T : \E p \in Tokens(r, g) : f[p] = y
    <2> SUFFICES ASSUME NEW y \in T PROVE \E p \in Tokens(r, g) : f[p] = y
        OBVIOUS
    <2>1. PICK i \in 1..(n + Len(r)) : \E o \in Owned((s \o r)[i]) : o[2] = g /\ y = <<i, o>>
        BY <1>2
    <2>2. PICK o \in Owned((s \o r)[i]) : o[2] = g /\ y = <<i, o>>
        BY <2>1
    <2>3. i > n
        BY <2>2
    <2>4. i - n \in 1..Len(r) /\ (i - n) + n = i
        BY <1>1, <2>3
    <2>5. o \in Owned(r[i - n])
        BY <1>1, <2>2, <2>4
    <2>6. <<i - n, o>> \in Tokens(r, g)
        BY <1>4, <2>2, <2>4, <2>5
    <2>7. f[<<i - n, o>>] = y
        BY <2>2, <2>4, <2>6
    <2> QED BY <2>6, <2>7
<1>10. IsFiniteSet(Tokens(r, g)) /\ IsFiniteSet(Tokens(s, g))
    BY TokensFinite
<1> HIDE DEF f, T
<1>11. IsFiniteSet(T) /\ Cardinality(T) = Cardinality(Tokens(r, g))
    BY <1>7, <1>8, <1>9, <1>10, Carries
<1> QED BY <1>5, <1>6, <1>10, <1>11, DisjointUnion DEF OwnedBy

LEMMA OwnedEmpty ==
    ASSUME NEW g
    PROVE  OwnedBy(<<>>, g) = 0
<1>1. Tokens(<<>>, g) = {}
    BY DEF Tokens
<1> QED BY <1>1, FS_EmptySet DEF OwnedBy

LEMMA OwnedOne ==
    ASSUME NEW call \in Calls, NEW g
    PROVE  OwnedBy(<<call>>, g) = Owns(call, g) /\ Owns(call, g) \in Nat
<1> DEFINE O == {o \in Owned(call) : o[2] = g}
           f == [o \in O |-> <<1, o>>]
<1>1. Tokens(<<call>>, g) = {1} \X O
    BY DEF Tokens
<1>2. IsFiniteSet(O)
    BY OwnedFinite, FS_Subset
<1>3. /\ f \in [O -> {1} \X O]
      /\ \A x, y \in O : f[x] = f[y] => x = y
      /\ \A y \in {1} \X O : \E x \in O : f[x] = y
    OBVIOUS
<1> HIDE DEF f, O
<1>4. Cardinality({1} \X O) = Cardinality(O)
    BY <1>2, <1>3, Carries
<1> QED BY <1>1, <1>2, <1>4, FS_CardinalityType DEF OwnedBy, Owns, O

\* The last call of s ends.
LEMMA OwnedFront ==
    ASSUME NEW s \in Seq(Calls), s # <<>>, NEW g
    PROVE  /\ Front(s) \in Seq(Calls) /\ Last(s) \in Calls
           /\ OwnedBy(Front(s), g) = OwnedBy(s, g) - Owns(Last(s), g)
<1>1. /\ Front(s) \in Seq(Calls) /\ Last(s) \in Calls
      /\ s = Front(s) \o <<Last(s)>>
    <2>1. Len(s) \in Nat /\ Len(s) >= 1 /\ DOMAIN s = 1..Len(s)
        BY EmptySeq
    <2>2. Last(s) \in Calls
        BY <2>1, ElementOfSeq DEF Last
    <2>3. Front(s) \in Seq(Calls) /\ Len(Front(s)) = Len(s) - 1
        BY <2>1 DEF Front
    <2>4. Len(s) \in 1..Len(s) /\ 1 \in 1..Len(s)
        BY <2>1
    <2>5. SubSeq(s, 1, Len(s)) = SubSeq(s, 1, Len(s) - 1) \o <<s[Len(s)]>>
        BY <2>4, SubSeqRecursiveSecond
    <2>6. s = Front(s) \o <<Last(s)>>
        BY <2>5, SubSeqFull DEF Front, Last
    <2> QED BY <2>2, <2>3, <2>6
<1>2. PICK f \in Seq(Calls), l \in Calls : f = Front(s) /\ l = Last(s)
    BY <1>1
<1>3. s = f \o <<l>> /\ <<l>> \in Seq(Calls)
    BY <1>1, <1>2
<1>4. OwnedBy(f \o <<l>>, g) = OwnedBy(f, g) + OwnedBy(<<l>>, g)
    BY <1>3, OwnedConcat, ZenonT(30)
<1>5. OwnedBy(<<l>>, g) = Owns(l, g) /\ Owns(l, g) \in Nat /\ OwnedBy(f, g) \in Nat
    BY OwnedOne, TokensFinite
<1>6. OwnedBy(s, g) = OwnedBy(f, g) + Owns(l, g)
    BY <1>3, <1>4, <1>5
<1> QED BY <1>1, <1>2, <1>5, <1>6

LEMMA OwnedInSplit ==
    ASSUME NEW cs \in [Greenlets -> Seq(Calls)], NEW S \in SUBSET Greenlets, NEW c \in S, NEW g
    PROVE  /\ OwnedIn(cs, S, g) \in Nat /\ OwnedIn(cs, S \ {c}, g) \in Nat
           /\ OwnedIn(cs, S, g) = OwnedIn(cs, S \ {c}, g) + OwnedBy(cs[c], g)
<1> DEFINE F == [h \in Greenlets |-> Tokens(cs[h], g)]
           A == TokensIn(cs, S \ {c}, g)
           B == {c} \X Tokens(cs[c], g)
<1>1. \A h \in Greenlets : IsFiniteSet(Tokens(cs[h], g))
    BY TokensFinite
<1>2. IsFiniteSet(S \ {c}) /\ IsFiniteSet(S)
    BY FiniteAssumption, FS_Subset
<1>3. A = UNION {{x} \X F[x] : x \in S \ {c}}
    BY DEF TokensIn
<1>4. (\A x \in S \ {c} : IsFiniteSet(F[x]))
    BY <1>1
<1> HIDE DEF F
<1>5. IsFiniteSet(A)
    <2>1. IsFiniteSet(UNION {{x} \X F[x] : x \in S \ {c}})
        BY <1>2, <1>4, FamilyFinite, SMTT(30)
    <2> QED BY <1>3, <2>1
<1>6. IsFiniteSet(B) /\ Cardinality(B) = OwnedBy(cs[c], g)
    <2> DEFINE T == Tokens(cs[c], g)
               f == [o \in T |-> <<c, o>>]
    <2>1. /\ f \in [T -> {c} \X T]
          /\ \A x, y \in T : f[x] = f[y] => x = y
          /\ \A y \in {c} \X T : \E x \in T : f[x] = y
        OBVIOUS
    <2>2. IsFiniteSet(T)
        BY <1>1
    <2> HIDE DEF f, T
    <2>3. IsFiniteSet({c} \X T) /\ Cardinality({c} \X T) = Cardinality(T)
        BY <2>1, <2>2, Carries
    <2> QED BY <2>3 DEF T, OwnedBy
<1>7. TokensIn(cs, S, g) = A \cup B
    BY DEF TokensIn
<1>8. A \cap B = {}
    BY DEF TokensIn
<1> HIDE DEF A, B
<1>9. IsFiniteSet(A \cup B) /\ Cardinality(A \cup B) = Cardinality(A) + Cardinality(B)
    BY <1>5, <1>6, <1>8, DisjointUnion
<1> QED BY <1>5, <1>6, <1>7, <1>9, FS_CardinalityType DEF OwnedIn, A

\* The calls of c become s.
LEMMA OwnedUpdate ==
    ASSUME NEW cs \in [Greenlets -> Seq(Calls)], NEW c \in Greenlets, NEW s \in Seq(Calls), NEW g
    PROVE  /\ OwnedIn(cs, Greenlets, g) \in Nat
           /\ OwnedIn([cs EXCEPT ![c] = s], Greenlets, g)
                  = OwnedIn(cs, Greenlets, g) - OwnedBy(cs[c], g) + OwnedBy(s, g)
<1> DEFINE d == [cs EXCEPT ![c] = s]
<1>1. d \in [Greenlets -> Seq(Calls)] /\ d[c] = s
    OBVIOUS
<1>2. TokensIn(d, Greenlets \ {c}, g) = TokensIn(cs, Greenlets \ {c}, g)
    <2>1. \A h \in Greenlets \ {c} : d[h] = cs[h]
        OBVIOUS
    <2> HIDE DEF d
    <2> QED BY <2>1 DEF TokensIn
<1> HIDE DEF d
<1>3. OwnedIn(d, Greenlets, g) = OwnedIn(d, Greenlets \ {c}, g) + OwnedBy(s, g)
    <2>0. Greenlets \in SUBSET Greenlets
        OBVIOUS
    <2>1. OwnedIn(d, Greenlets, g) = OwnedIn(d, Greenlets \ {c}, g) + OwnedBy(d[c], g)
        BY <1>1, <2>0, OwnedInSplit
    <2> QED BY <1>1, <2>1
<1>4. /\ OwnedIn(cs, Greenlets, g) = OwnedIn(cs, Greenlets \ {c}, g) + OwnedBy(cs[c], g)
      /\ OwnedIn(cs, Greenlets, g) \in Nat /\ OwnedIn(cs, Greenlets \ {c}, g) \in Nat
    BY OwnedInSplit
<1>5. OwnedBy(cs[c], g) \in Nat /\ OwnedBy(s, g) \in Nat
    BY TokensFinite
<1>6. OwnedIn(d, Greenlets \ {c}, g) = OwnedIn(cs, Greenlets \ {c}, g)
    BY <1>2 DEF OwnedIn
<1> QED BY <1>3, <1>4, <1>5, <1>6 DEF d

LEMMA OwnedCalled ==
    ASSUME NEW cs \in [Greenlets -> Seq(Calls)], NEW c \in Greenlets, NEW r \in Seq(Calls), NEW g
    PROVE  /\ OwnedIn(cs, Greenlets, g) \in Nat
           /\ OwnedIn([cs EXCEPT ![c] = @ \o r], Greenlets, g)
                  = OwnedIn(cs, Greenlets, g) + OwnedBy(r, g)
<1>1. cs[c] \o r \in Seq(Calls)
    OBVIOUS
<1>2. OwnedBy(cs[c] \o r, g) = OwnedBy(cs[c], g) + OwnedBy(r, g)
    BY OwnedConcat
<1>3. OwnedBy(cs[c], g) \in Nat /\ OwnedBy(r, g) \in Nat
    BY TokensFinite
<1>4. PICK s \in Seq(Calls) : s = cs[c] \o r
    BY <1>1
<1>5. /\ OwnedIn(cs, Greenlets, g) \in Nat
      /\ OwnedIn([cs EXCEPT ![c] = s], Greenlets, g)
             = OwnedIn(cs, Greenlets, g) - OwnedBy(cs[c], g) + OwnedBy(s, g)
    BY OwnedUpdate
<1> QED BY <1>2, <1>3, <1>4, <1>5

LEMMA OwnedReplaced ==
    ASSUME NEW cs \in [Greenlets -> Seq(Calls)], NEW c \in Greenlets, cs[c] # <<>>,
           NEW r \in Seq(Calls), NEW g
    PROVE  /\ OwnedIn(cs, Greenlets, g) \in Nat /\ Owns(Last(cs[c]), g) \in Nat
           /\ OwnedIn([cs EXCEPT ![c] = Front(@) \o r], Greenlets, g)
                  = OwnedIn(cs, Greenlets, g) - Owns(Last(cs[c]), g) + OwnedBy(r, g)
<1>0. /\ OwnedIn(cs, Greenlets, g) \in Nat
      /\ \A x \in Seq(Calls) : OwnedIn([cs EXCEPT ![c] = x], Greenlets, g)
                  = OwnedIn(cs, Greenlets, g) - OwnedBy(cs[c], g) + OwnedBy(x, g)
    BY OwnedUpdate
<1>1. PICK b \in Seq(Calls) : b = cs[c]
    OBVIOUS
<1>2. PICK f \in Seq(Calls), l \in Calls : f = Front(b) /\ l = Last(b)
    BY <1>1, OwnedFront
<1>3. OwnedBy(f, g) = OwnedBy(b, g) - Owns(l, g)
    BY <1>1, <1>2, OwnedFront
<1>4. OwnedBy(f \o r, g) = OwnedBy(f, g) + OwnedBy(r, g)
    BY OwnedConcat
<1>5. /\ OwnedBy(b, g) \in Nat /\ OwnedBy(r, g) \in Nat /\ OwnedBy(f, g) \in Nat
      /\ Owns(l, g) \in Nat
    BY TokensFinite, OwnedOne
<1>6. PICK s \in Seq(Calls) : s = f \o r
    BY ConcatProperties
<1>7. /\ OwnedIn(cs, Greenlets, g) \in Nat
      /\ OwnedIn([cs EXCEPT ![c] = s], Greenlets, g)
             = OwnedIn(cs, Greenlets, g) - OwnedBy(cs[c], g) + OwnedBy(s, g)
    BY <1>0
<1>8. [cs EXCEPT ![c] = Front(@) \o r] = [cs EXCEPT ![c] = s]
    BY <1>1, <1>2, <1>6
<1>9. /\ Owns(Last(cs[c]), g) = Owns(l, g) /\ OwnedBy(cs[c], g) = OwnedBy(b, g)
      /\ OwnedBy(s, g) = OwnedBy(b, g) - Owns(l, g) + OwnedBy(r, g)
    BY <1>1, <1>2, <1>3, <1>4, <1>6
<1> QED BY <1>5, <1>7, <1>8, <1>9

-----------------------------------------------------------------------------
(* What the calls of each kind own. *)

LEMMA OwnsNothing ==
    ASSUME NEW call, call.op \notin {"drop", "clear", "kill", "undo"}, NEW g
    PROVE  Owns(call, g) = 0
<1>1. Owned(call) = {}
    BY DEF Owned
<1> QED BY <1>1, FS_EmptySet DEF Owns

LEMMA OwnsUndo ==
    ASSUME NEW call, call.op = "undo", NEW g
    PROVE  Owns(call, g) = Is(call.of, g)
<1>1. {o \in Owned(call) : o[2] = g} = IF call.of = g THEN {<<1, call.of>>} ELSE {}
    BY DEF Owned
<1> QED BY <1>1, FS_EmptySet, FS_Singleton DEF Owns, In, Is

LEMMA OwnsKill ==
    ASSUME NEW call, call.op = "kill", NEW g
    PROVE  Owns(call, g) = Is(call.of, g) + Is(call.old, g)
<1> DEFINE A == IF call.of = g THEN {<<1, call.of>>} ELSE {}
           B == IF call.old = g THEN {<<2, call.old>>} ELSE {}
<1>1. {o \in Owned(call) : o[2] = g} = A \cup B
    BY DEF Owned
<1>2. A \cap B = {}
    OBVIOUS
<1>3. IsFiniteSet(A) /\ Cardinality(A) = Is(call.of, g)
    BY FS_EmptySet, FS_Singleton DEF In, Is
<1>4. IsFiniteSet(B) /\ Cardinality(B) = Is(call.old, g)
    BY FS_EmptySet, FS_Singleton DEF In, Is
<1> HIDE DEF A, B
<1>5. Cardinality(A \cup B) = Cardinality(A) + Cardinality(B)
    BY <1>2, <1>3, <1>4, DisjointUnion
<1> QED BY <1>1, <1>3, <1>4, <1>5 DEF Owns

LEMMA OwnsClear ==
    ASSUME NEW call, call.op = "clear", NEW g
    PROVE  Owns(call, g) = In(g \in call.todo)
<1>1. {o \in Owned(call) : o[2] = g} = IF g \in call.todo THEN {<<0, g>>} ELSE {}
    BY DEF Owned
<1> QED BY <1>1, FS_EmptySet, FS_Singleton DEF Owns, In, Is

\* How often g is among the references s
Occurs(s, g) == Cardinality({i \in DOMAIN s : s[i] = g})

LEMMA OwnsDrop ==
    ASSUME NEW call, call.op = "drop", call.todo \in Seq(Greenlets), NEW g
    PROVE  Owns(call, g) = Occurs(call.todo, g) /\ Occurs(call.todo, g) \in Nat
<1> DEFINE s == call.todo
           I == {i \in DOMAIN s : s[i] = g}
           O == {o \in Owned(call) : o[2] = g}
           f == [i \in I |-> <<i, s[i]>>]
<1>1. DOMAIN s = 1..Len(s) /\ Len(s) \in Nat
    OBVIOUS
<1>2. IsFiniteSet(I)
    <2>1. IsFiniteSet(DOMAIN s) /\ I \in SUBSET DOMAIN s
        BY <1>1, FS_Interval
    <2> QED BY <2>1, FS_Subset
<1>3. Owned(call) = {<<i, s[i]>> : i \in DOMAIN s}
    BY DEF Owned
<1>4. f \in [I -> O] /\ (\A y \in O : \E x \in I : f[x] = y)
    BY <1>3
<1>5. \A x, y \in I : f[x] = f[y] => x = y
    OBVIOUS
<1> HIDE DEF f, I, O
<1>6. Cardinality(O) = Cardinality(I)
    BY <1>2, <1>4, <1>5, Carries
<1> QED BY <1>2, <1>6, FS_CardinalityType DEF Owns, Occurs, I, O

LEMMA OccursEmpty ==
    ASSUME NEW g
    PROVE  Occurs(<<>>, g) = 0
<1>1. {i \in DOMAIN <<>> : <<>>[i] = g} = {}
    OBVIOUS
<1> QED BY <1>1, FS_EmptySet DEF Occurs

LEMMA OccursOne ==
    ASSUME NEW x, NEW g
    PROVE  Occurs(<<x>>, g) = Is(x, g)
<1>1. {i \in DOMAIN <<x>> : <<x>>[i] = g} = IF x = g THEN {1} ELSE {}
    OBVIOUS
<1> QED BY <1>1, FS_EmptySet, FS_Singleton DEF Occurs, In, Is

LEMMA OccursConcat ==
    ASSUME NEW s \in Seq(Greenlets), NEW r \in Seq(Greenlets), NEW g
    PROVE  Occurs(s \o r, g) = Occurs(s, g) + Occurs(r, g)
<1> DEFINE n == Len(s)
           A == {i \in DOMAIN s : s[i] = g}
           B == {i \in DOMAIN r : r[i] = g}
           T == {i \in DOMAIN (s \o r) : (s \o r)[i] = g /\ i > n}
           f == [i \in B |-> i + n]
<1>1. /\ n \in Nat /\ Len(r) \in Nat /\ DOMAIN s = 1..n /\ DOMAIN r = 1..Len(r)
      /\ DOMAIN (s \o r) = 1..(n + Len(r))
      /\ \A i \in 1..n : (s \o r)[i] = s[i]
      /\ \A i \in 1..Len(r) : (s \o r)[i + n] = r[i]
    OBVIOUS
<1> HIDE DEF n
<1>2. IsFiniteSet(A) /\ IsFiniteSet(B)
    <2>1. n \in Int /\ Len(r) \in Int /\ DOMAIN s = 1..n /\ DOMAIN r = 1..Len(r)
        BY <1>1
    <2>2. IsFiniteSet(1..n) /\ IsFiniteSet(1..Len(r))
        BY <2>1, FS_Interval
    <2>3. A \in SUBSET (1..n) /\ B \in SUBSET (1..Len(r))
        BY <2>1
    <2> HIDE DEF A, B
    <2> QED BY <2>2, <2>3, FS_Subset
<1>3. {i \in DOMAIN (s \o r) : (s \o r)[i] = g} = A \cup T
    BY <1>1
<1>4. A \cap T = {}
    BY <1>1
<1>5. f \in [B -> T]
    BY <1>1
<1>6. \A x, y \in B : f[x] = f[y] => x = y
    BY <1>1
<1>7. \A y \in T : \E x \in B : f[x] = y
    <2> SUFFICES ASSUME NEW y \in T PROVE \E x \in B : f[x] = y
        OBVIOUS
    <2>1. y - n \in 1..Len(r) /\ (y - n) + n = y
        BY <1>1
    <2>2. y - n \in B /\ f[y - n] = y
        BY <1>1, <2>1
    <2> QED BY <2>2
<1> HIDE DEF f, A, B, T
<1>8. IsFiniteSet(T) /\ Cardinality(T) = Cardinality(B)
    BY <1>2, <1>5, <1>6, <1>7, Carries
<1>9. Cardinality(A \cup T) = Cardinality(A) + Cardinality(T)
    BY <1>2, <1>4, <1>8, DisjointUnion
<1> QED BY <1>3, <1>8, <1>9 DEF Occurs, A, B

LEMMA OccursHead ==
    ASSUME NEW s \in Seq(Greenlets), s # <<>>, NEW g
    PROVE  /\ Head(s) \in Greenlets /\ Tail(s) \in Seq(Greenlets)
           /\ Occurs(s, g) = Is(Head(s), g) + Occurs(Tail(s), g)
<1>1. PICK x \in Greenlets, r \in Seq(Greenlets) : x = Head(s) /\ r = Tail(s)
    BY HeadTailProperties
<1>2. s = <<x>> \o r
    <2>1. Len(s) \in Nat /\ Len(s) >= 1
        BY EmptySeq
    <2>2. Len(s) \in 1..Len(s) /\ 1 \in 1..Len(s)
        BY <2>1
    <2>3. SubSeq(s, 1, Len(s)) = <<s[1]>> \o SubSeq(s, 2, Len(s))
        BY <2>2, SubSeqRecursiveFirst
    <2>4. r = SubSeq(s, 2, Len(s)) /\ x = s[1]
        BY <1>1, TailIsSubSeq
    <2> QED BY <2>3, <2>4, SubSeqFull
<1>3. <<x>> \in Seq(Greenlets)
    OBVIOUS
<1>4. Occurs(<<x>> \o r, g) = Occurs(<<x>>, g) + Occurs(r, g)
    BY <1>3, OccursConcat
<1>5. Occurs(s, g) = Is(x, g) + Occurs(r, g)
    BY <1>2, <1>4, OccursOne
<1> QED BY <1>1, <1>5

LEMMA OccursNat ==
    ASSUME NEW s \in Seq(Greenlets), NEW g
    PROVE  Occurs(s, g) \in Nat
<1>1. DOMAIN s = 1..Len(s) /\ Len(s) \in Nat
    OBVIOUS
<1>2. IsFiniteSet(DOMAIN s) /\ {i \in DOMAIN s : s[i] = g} \in SUBSET DOMAIN s
    BY <1>1, FS_Interval
<1> QED BY <1>2, FS_Subset, FS_CardinalityType DEF Occurs

LEMMA OccursPresent ==
    ASSUME NEW x \in Greenlets \cup {NoOne}, NEW g \in Greenlets
    PROVE  Present(x) \in Seq(Greenlets) /\ Occurs(Present(x), g) = Is(x, g)
<1>1. CASE x = NoOne
    BY <1>1, OccursEmpty, ThreadsAssumption DEF Present, In, Is
<1>2. CASE x # NoOne
    BY <1>2, OccursOne DEF Present
<1> QED BY <1>1, <1>2

\* A sequence that lists a set
LEMMA OccursListed ==
    ASSUME NEW n \in Nat, NEW f \in [1..n -> Greenlets], NEW S,
           \A i \in 1..n : f[i] \in S,
           \A i, j \in 1..n : f[i] = f[j] => i = j,
           \A x \in S : \E i \in 1..n : f[i] = x,
           NEW g
    PROVE  f \in Seq(Greenlets) /\ Occurs(f, g) = In(g \in S)
<1>1. f \in Seq(Greenlets) /\ DOMAIN f = 1..n
    BY SeqDef
<1>2. CASE g \in S
    <2>1. PICK i \in 1..n : f[i] = g
        BY <1>2
    <2>2. {j \in DOMAIN f : f[j] = g} = {i}
        BY <1>1, <2>1
    <2> QED BY <1>1, <1>2, <2>2, FS_Singleton DEF Occurs, In, Is
<1>3. CASE g \notin S
    <2>1. {j \in DOMAIN f : f[j] = g} = {}
        BY <1>1, <1>3
    <2> QED BY <1>1, <1>3, <2>1, FS_EmptySet DEF Occurs, In, Is
<1> QED BY <1>2, <1>3

\* An injection of a finite set into one of the same size reaches all of it.
LEMMA Exhausts ==
    ASSUME NEW S, IsFiniteSet(S), NEW f \in [1..Cardinality(S) -> S],
           \A i, j \in 1..Cardinality(S) : f[i] = f[j] => i = j
    PROVE  \A x \in S : \E i \in 1..Cardinality(S) : f[i] = x
<1>1. Cardinality(S) \in Nat
    BY FS_CardinalityType
<1>2. PICK n \in Nat : n = Cardinality(S)
    BY <1>1
<1>3. f \in Injection(1..n, S)
    BY <1>2 DEF Injection, IsInjective
<1>4. Cardinality(1..n) = n
    BY FS_Interval
<1>5. f \in Surjection(1..n, S)
    BY <1>2, <1>3, <1>4, FS_Injection
<1> QED BY <1>2, <1>5 DEF Surjection

LEMMA OccursSeqs ==
    ASSUME NEW S \in SUBSET Greenlets, NEW f \in SetToSeqs(S), NEW g
    PROVE  f \in Seq(Greenlets) /\ Occurs(f, g) = In(g \in S)
<1>1. IsFiniteSet(S)
    BY FiniteAssumption, FS_Subset
<1>2. PICK n \in Nat : n = Cardinality(S)
    BY <1>1, FS_CardinalityType
<1>3. f \in [1..n -> S] /\ \A i, j \in 1..n : f[i] = f[j] => i = j
    BY <1>2 DEF SetToSeqs
<1>4. \A x \in S : \E i \in 1..n : f[i] = x
    BY <1>1, <1>2, <1>3, Exhausts
<1>5. f \in [1..n -> Greenlets]
    BY <1>3
<1> QED BY <1>3, <1>4, <1>5, OccursListed

LEMMA SetToSeqLists ==
    ASSUME NEW S, IsFiniteSet(S)
    PROVE  \E n \in Nat :
               /\ n = Cardinality(S) /\ SetToSeq(S) \in [1..n -> S]
               /\ \A i, j \in 1..n : SetToSeq(S)[i] = SetToSeq(S)[j] => i = j
               /\ \A x \in S : \E i \in 1..n : SetToSeq(S)[i] = x
<1>1. PICK n \in Nat : n = Cardinality(S)
    BY FS_CardinalityType
<1>2. ExistsBijection(1..n, S)
    BY <1>1, FS_CardinalityType
<1>3. \E f \in [1..n -> S] : IsInjective(f)
    BY <1>2 DEF ExistsBijection, Bijection, Injection
<1>4. SetToSeq(S) \in [1..n -> S] /\ IsInjective(SetToSeq(S))
    BY <1>1, <1>3 DEF SetToSeq
<1>5. \A i, j \in 1..n : SetToSeq(S)[i] = SetToSeq(S)[j] => i = j
    BY <1>4 DEF IsInjective
<1>6. \A x \in S : \E i \in 1..n : SetToSeq(S)[i] = x
    BY <1>1, <1>4, <1>5, Exhausts
<1> QED BY <1>1, <1>4, <1>5, <1>6

LEMMA OccursSetToSeq ==
    ASSUME NEW S \in SUBSET Greenlets, NEW g
    PROVE  SetToSeq(S) \in Seq(Greenlets) /\ Occurs(SetToSeq(S), g) = In(g \in S)
<1>1. IsFiniteSet(S)
    BY FiniteAssumption, FS_Subset
<1>2. PICK n \in Nat :
          /\ SetToSeq(S) \in [1..n -> S]
          /\ \A i, j \in 1..n : SetToSeq(S)[i] = SetToSeq(S)[j] => i = j
          /\ \A x \in S : \E i \in 1..n : SetToSeq(S)[i] = x
    BY <1>1, SetToSeqLists
<1>3. SetToSeq(S) \in [1..n -> Greenlets]
    BY <1>2
<1> QED BY <1>2, <1>3, OccursListed

LEMMA OwnedDropping ==
    ASSUME NEW s \in Seq(Greenlets), NEW g
    PROVE  Dropping(s) \in Seq(Calls) /\ OwnedBy(Dropping(s), g) = Occurs(s, g)
<1>1. CASE s = <<>>
    BY <1>1, OwnedEmpty, OccursEmpty DEF Dropping
<1>2. CASE s # <<>>
    <2>1. PICK call \in Calls : call = [op |-> "drop", todo |-> s]
        BY <1>2 DEF Calls
    <2>2. Dropping(s) = <<call>>
        BY <1>2, <2>1 DEF Dropping
    <2>3. Owns(call, g) = Occurs(s, g)
        BY <2>1, OwnsDrop
    <2> QED BY <2>2, <2>3, OwnedOne
<1> QED BY <1>1, <1>2

LEMMA OwnedClearing ==
    ASSUME NEW S \in SUBSET Greenlets, NEW murder \in BOOLEAN, NEW g
    PROVE  Clearing(S, murder) \in Seq(Calls) /\ OwnedBy(Clearing(S, murder), g) = In(g \in S)
<1>1. CASE S = {}
    BY <1>1, OwnedEmpty DEF Clearing, In, Is
<1>2. CASE S # {}
    <2>1. PICK call \in Calls : call = [op |-> "clear", todo |-> S, murder |-> murder]
        <3>1. [op |-> "clear", todo |-> S, murder |-> murder]
                  \in [op : {"clear"}, todo : (SUBSET Greenlets) \ {{}}, murder : BOOLEAN]
            BY <1>2
        <3> QED BY <3>1 DEF Calls
    <2>2. Clearing(S, murder) = <<call>>
        BY <1>2, <2>1 DEF Clearing
    <2>3. Owns(call, g) = In(g \in S)
        BY <2>1, OwnsClear
    <2> QED BY <2>2, <2>3, OwnedOne
<1> QED BY <1>1, <1>2

-----------------------------------------------------------------------------
(* The invariant. *)

\* Two calls of which there must be one at a time: the construction and the first switch of
\* a greenlet, and the destruction of a thread state
Same(c, d) ==
    \/ c.op = "new" /\ d.op = "new" /\ c.of = d.of
    \/ /\ c.op \in {"stack", "jump"} /\ d.op \in {"stack", "jump"}
       /\ c.first /\ d.first /\ c.of = d.of
    \/ c.op = "destroy" /\ d.op = "destroy"

\* g is the current greenlet of a thread.
Runs(g) == \E t \in Threads : thread[t] = "running" /\ current[t] = g

\* g is being freed.
BeingFreed(g) ==
    \E h \in Greenlets : \E i \in DOMAIN calls[h] :
        calls[h][i].op \in {"free", "delete"} /\ calls[h][i].of = g

\* What a call at place i of h says of the greenlet or the thread that it is about: nobody
\* refers to a greenlet that is deallocated or freed, one that is constructed does not exist
\* yet, and one that is started for the first time does not run.
CallOK(h, i, call) ==
    /\ call.op = "dealloc" => /\ rc[call.of] = 0 /\ life[call.of] # "none"
                              /\ ~BeingFreed(call.of)
                              /\ Runs(h) /\ i = Len(calls[h])
    /\ call.op \in {"free", "delete"} => rc[call.of] = 0 /\ life[call.of] # "none"
    /\ call.op = "new" => life[call.of] = "none"
    /\ call.op \in {"stack", "jump"} /\ call.first =>
           life[call.of] \in {"dead", "freed"} /\ ~Runs(call.of)
    /\ call.op = "destroy" => thread[call.state] = "exited"

CallsInv == \A h \in Greenlets : \A i \in DOMAIN calls[h] : CallOK(h, i, calls[h][i])

UniqueInv ==
    \A h, k \in Greenlets : \A i \in DOMAIN calls[h], j \in DOMAIN calls[k] :
        Same(calls[h][i], calls[k][j]) => h = k /\ i = j

\* Who is current: an active greenlet is at home in the thread that runs it.
CurrentInv ==
    \A t \in Threads :
        /\ thread[t] = "running" =>
               /\ current[t] \in Greenlets
               /\ life[current[t]] \in {"active", "dead"}
               /\ life[current[t]] = "active" => MainFor(current[t]) = MainOf[t]
        /\ thread[t] = "exited" => current[t] = MainOf[t]

\* No greenlet is current in two threads, and one thread at a time is in C code.
OneInv ==
    \A t, u \in Threads :
        /\ thread[t] = "running" /\ thread[u] = "running" /\ current[t] = current[u] => t = u
        /\ InC(t) /\ InC(u) => t = u

NoneInv == \A g \in Greenlets : life[g] = "none" => rc[g] = 0 /\ parent[g] = NoOne

ControlInv == CallsInv /\ UniqueInv /\ CurrentInv /\ OneInv /\ NoneInv

Controlled == fault = "none" => ControlInv
NotMurdered == fault # "murdered"

RefInv == TypeOK /\ RefcountExact /\ Controlled

\* TypeOK with counts that might be negative: that they are not follows from RefcountExact.
Typed ==
    /\ life \in [Greenlets -> {"none", "new", "active", "dead", "freed"}]
    /\ parent \in [Greenlets -> Greenlets \cup {NoOne}]
    /\ home \in [Greenlets -> Mains \cup {NoOne}]
    /\ attr \in [Greenlets -> SUBSET Greenlets]
    /\ held \in [Holders -> SUBSET Greenlets]
    /\ rc \in [Greenlets -> Int]
    /\ current \in [Threads -> Greenlets \cup {NoOne}]
    /\ thread \in [Threads -> {"running", "exited", "destroyed"}]
    /\ deleteme \in [Threads -> SUBSET Greenlets]
    /\ calls \in [Greenlets -> Seq(Calls)]
    /\ fault \in {"none", "torn", "no parent", "cyclic", "murdered"}
    /\ lost \in [Greenlets -> Nat]
    /\ asked \in [Greenlets -> Greenlets \cup {NoOne}]
    /\ runs \in [Greenlets -> Nat]

LEMMA Constructors ==
    /\ \A op \in {"new", "current", "dealloc", "undo", "free", "delete", "finish"},
          g \in Greenlets : Doing(op, g) \in Calls
    /\ \A g \in Greenlets, dying \in BOOLEAN : SwitchTo(g, dying) \in Calls
    /\ \A op \in {"start", "stack"}, g \in Greenlets : Entering(op, g, TRUE) \in Calls
    /\ \A g \in Greenlets, first \in BOOLEAN : Entering("jump", g, first) \in Calls
    /\ \A g \in Greenlets, p \in Greenlets \cup {NoOne} : Killing(g, p) \in Calls
    /\ \A t \in Threads : Destroying(t) \in Calls
    /\ Python \in Calls
<1>1. \A op \in {"new", "current", "dealloc", "undo", "free", "delete", "finish"},
         g \in Greenlets : Doing(op, g) \in Calls
    BY DEF Calls, Doing
<1>2. \A g \in Greenlets, dying \in BOOLEAN : SwitchTo(g, dying) \in Calls
    BY DEF Calls, SwitchTo
<1>3. /\ \A op \in {"start", "stack"}, g \in Greenlets : Entering(op, g, TRUE) \in Calls
      /\ \A g \in Greenlets, first \in BOOLEAN : Entering("jump", g, first) \in Calls
    BY DEF Calls, Entering
<1>4. \A g \in Greenlets, p \in Greenlets \cup {NoOne} : Killing(g, p) \in Calls
    BY DEF Calls, Killing
<1>5. \A t \in Threads : Destroying(t) \in Calls
    BY DEF Calls, Destroying
<1>6. Python \in Calls
    BY DEF Calls
<1> QED BY <1>1, <1>2, <1>3, <1>4, <1>5, <1>6

LEMMA MainsFact == Mains \subseteq Greenlets /\ \A t \in Threads : MainOf[t] \in Mains
BY MainOfAssumption DEF Mains

\* Each number in References is a natural one.
Natural(g) ==
    /\ Pointing(parent, g) \in Nat /\ Pointing(home, g) \in Nat
    /\ Holding(attr, g) \in Nat /\ Holding(held, g) \in Nat
    /\ Pointing(current, g) \in Nat /\ Holding(deleteme, g) \in Nat
    /\ Stated(g) \in Nat /\ OwnedIn(calls, Greenlets, g) \in Nat /\ lost[g] \in Nat

LEMMA RefsNat ==
    ASSUME Typed, NEW g \in Greenlets
    PROVE  Natural(g)
<1>1. /\ IsFiniteSet(DOMAIN parent) /\ IsFiniteSet(DOMAIN home) /\ IsFiniteSet(DOMAIN attr)
      /\ IsFiniteSet(DOMAIN current) /\ IsFiniteSet(DOMAIN deleteme)
    BY FiniteAssumption DEF Typed
<1>2. IsFiniteSet(DOMAIN held)
    <2>1. IsFiniteSet(Greenlets \cup {Globals})
        BY FiniteAssumption, FS_AddElement
    <2> QED BY <2>1 DEF Typed, Holders
<1>3. \A f : IsFiniteSet(DOMAIN f) => Pointing(f, g) \in Nat /\ Holding(f, g) \in Nat
    <2> TAKE f
    <2> HAVE IsFiniteSet(DOMAIN f)
    <2>1. /\ {x \in DOMAIN f : f[x] = g} \in SUBSET DOMAIN f
          /\ {x \in DOMAIN f : g \in f[x]} \in SUBSET DOMAIN f
        OBVIOUS
    <2> QED BY <2>1, FS_Subset, FS_CardinalityType DEF Pointing, Holding
<1>4. Stated(g) \in Nat
    <2>1. {t \in Threads : MainOf[t] = g /\ thread[t] # "destroyed"} \in SUBSET Threads
        OBVIOUS
    <2> QED BY <2>1, FiniteAssumption, FS_Subset, FS_CardinalityType DEF Stated
<1>5. OwnedIn(calls, Greenlets, g) \in Nat
    <2>1. calls \in [Greenlets -> Seq(Calls)]
        BY DEF Typed
    <2>2. calls[g] \in Seq(Calls)
        BY <2>1
    <2> QED BY <2>1, <2>2, OwnedUpdate
<1> QED BY <1>1, <1>2, <1>3, <1>4, <1>5 DEF Typed, Natural

LEMMA TypeOKTyped ==
    ASSUME TypeOK
    PROVE  Typed
<1>1. rc \in [Greenlets -> Int]
    <2>1. rc \in [Greenlets -> Nat]
        BY DEF TypeOK
    <2> QED BY <2>1
<1> QED BY <1>1 DEF TypeOK, Typed

LEMMA TypedWhenExact == Typed /\ RefcountExact /\ NotMurdered /\ Controlled => RefInv
<1> SUFFICES ASSUME Typed, RefcountExact, NotMurdered, Controlled
             PROVE  RefInv
    OBVIOUS
<1>1. \A g \in Greenlets : rc[g] \in Nat
    <2> TAKE g \in Greenlets
    <2>1. rc[g] = References(g)
        BY DEF RefcountExact, NotMurdered
    <2> QED BY <2>1, RefsNat DEF References, Natural
<1>2. TypeOK
    BY <1>1 DEF Typed, TypeOK
<1> QED BY <1>2 DEF RefInv

LEMMA TypedWhenExactNext ==
    Typed' /\ RefcountExact' /\ NotMurdered' /\ Controlled' => RefInv'
BY TypedWhenExact, PTL

\* At most one component of a function changes.
ParentOnly(c) == \A x \in Greenlets \ {c} : parent'[x] = parent[x]
HomeOnly(c) == \A x \in Greenlets \ {c} : home'[x] = home[x]
AttrOnly(c) == \A x \in Greenlets \ {c} : attr'[x] = attr[x]
HeldOnly(h) == \A x \in Holders \ {h} : held'[x] = held[x]
CurrentOnly(t) == \A u \in Threads \ {t} : current'[u] = current[u]
DeletemeOnly(t) == \A u \in Threads \ {t} : deleteme'[u] = deleteme[u]

\* How each number in References changes with an assignment.
LEMMA Updates ==
    ASSUME Typed, Typed', NEW g
    PROVE  /\ \A c \in Greenlets :
                  /\ ParentOnly(c) =>
                         Pointing(parent', g)
                             = Pointing(parent, g) - Is(parent[c], g) + Is(parent'[c], g)
                  /\ HomeOnly(c) =>
                         Pointing(home', g)
                             = Pointing(home, g) - Is(home[c], g) + Is(home'[c], g)
                  /\ AttrOnly(c) =>
                         Holding(attr', g)
                             = Holding(attr, g) - In(g \in attr[c]) + In(g \in attr'[c])
           /\ \A h \in Holders :
                  HeldOnly(h) =>
                      Holding(held', g)
                          = Holding(held, g) - In(g \in held[h]) + In(g \in held'[h])
           /\ \A t \in Threads :
                  /\ CurrentOnly(t) =>
                         Pointing(current', g)
                             = Pointing(current, g) - Is(current[t], g) + Is(current'[t], g)
                  /\ DeletemeOnly(t) =>
                         Holding(deleteme', g)
                             = Holding(deleteme, g) - In(g \in deleteme[t])
                                   + In(g \in deleteme'[t])
<1>1. /\ IsFiniteSet(DOMAIN parent) /\ IsFiniteSet(DOMAIN home) /\ IsFiniteSet(DOMAIN attr)
      /\ IsFiniteSet(DOMAIN current) /\ IsFiniteSet(DOMAIN deleteme)
      /\ DOMAIN parent = Greenlets /\ DOMAIN home = Greenlets /\ DOMAIN attr = Greenlets
      /\ DOMAIN held = Holders /\ DOMAIN current = Threads /\ DOMAIN deleteme = Threads
    BY FiniteAssumption DEF Typed
<1>2. IsFiniteSet(DOMAIN held)
    <2>1. IsFiniteSet(Greenlets \cup {Globals})
        BY FiniteAssumption, FS_AddElement
    <2> QED BY <2>1 DEF Typed, Holders
<1>3. /\ DOMAIN parent' = Greenlets /\ DOMAIN home' = Greenlets /\ DOMAIN attr' = Greenlets
      /\ DOMAIN held' = Holders /\ DOMAIN current' = Threads /\ DOMAIN deleteme' = Threads
    BY DEF Typed
<1>4. ASSUME NEW c \in Greenlets, ParentOnly(c)
      PROVE  Pointing(parent', g) = Pointing(parent, g) - Is(parent[c], g) + Is(parent'[c], g)
    <2>1. PICK d : d = parent'
        OBVIOUS
    <2>2. DOMAIN d = DOMAIN parent /\ \A x \in DOMAIN parent \ {c} : d[x] = parent[x]
        BY <1>1, <1>3, <1>4, <2>1 DEF ParentOnly
    <2>3. Pointing(d, g) = Pointing(parent, g) - Is(parent[c], g) + Is(d[c], g)
        BY <1>1, <2>2, PointingUpdate
    <2> QED BY <2>1, <2>3
<1>5. ASSUME NEW c \in Greenlets, HomeOnly(c)
      PROVE  Pointing(home', g) = Pointing(home, g) - Is(home[c], g) + Is(home'[c], g)
    <2>1. PICK d : d = home'
        OBVIOUS
    <2>2. DOMAIN d = DOMAIN home /\ \A x \in DOMAIN home \ {c} : d[x] = home[x]
        BY <1>1, <1>3, <1>5, <2>1 DEF HomeOnly
    <2>3. Pointing(d, g) = Pointing(home, g) - Is(home[c], g) + Is(d[c], g)
        BY <1>1, <2>2, PointingUpdate
    <2> QED BY <2>1, <2>3
<1>6. ASSUME NEW c \in Greenlets, AttrOnly(c)
      PROVE  Holding(attr', g) = Holding(attr, g) - In(g \in attr[c]) + In(g \in attr'[c])
    <2>1. PICK d : d = attr'
        OBVIOUS
    <2>2. DOMAIN d = DOMAIN attr /\ \A x \in DOMAIN attr \ {c} : d[x] = attr[x]
        BY <1>1, <1>3, <1>6, <2>1 DEF AttrOnly
    <2>3. Holding(d, g) = Holding(attr, g) - In(g \in attr[c]) + In(g \in d[c])
        BY <1>1, <2>2, HoldingUpdate
    <2> QED BY <2>1, <2>3
<1>7. ASSUME NEW h \in Holders, HeldOnly(h)
      PROVE  Holding(held', g) = Holding(held, g) - In(g \in held[h]) + In(g \in held'[h])
    <2>1. PICK d : d = held'
        OBVIOUS
    <2>2. DOMAIN d = DOMAIN held /\ \A x \in DOMAIN held \ {h} : d[x] = held[x]
        BY <1>1, <1>3, <1>7, <2>1 DEF HeldOnly
    <2>3. Holding(d, g) = Holding(held, g) - In(g \in held[h]) + In(g \in d[h])
        BY <1>1, <1>2, <2>2, HoldingUpdate
    <2> QED BY <2>1, <2>3
<1>8. ASSUME NEW t \in Threads, CurrentOnly(t)
      PROVE  Pointing(current', g) = Pointing(current, g) - Is(current[t], g) + Is(current'[t], g)
    <2>1. PICK d : d = current'
        OBVIOUS
    <2>2. DOMAIN d = DOMAIN current /\ \A x \in DOMAIN current \ {t} : d[x] = current[x]
        BY <1>1, <1>3, <1>8, <2>1 DEF CurrentOnly
    <2>3. Pointing(d, g) = Pointing(current, g) - Is(current[t], g) + Is(d[t], g)
        BY <1>1, <2>2, PointingUpdate
    <2> QED BY <2>1, <2>3
<1>9. ASSUME NEW t \in Threads, DeletemeOnly(t)
      PROVE  Holding(deleteme', g)
                 = Holding(deleteme, g) - In(g \in deleteme[t]) + In(g \in deleteme'[t])
    <2>1. PICK d : d = deleteme'
        OBVIOUS
    <2>2. DOMAIN d = DOMAIN deleteme /\ \A x \in DOMAIN deleteme \ {t} : d[x] = deleteme[x]
        BY <1>1, <1>3, <1>9, <2>1 DEF DeletemeOnly
    <2>3. Holding(d, g) = Holding(deleteme, g) - In(g \in deleteme[t]) + In(g \in d[t])
        BY <1>1, <2>2, HoldingUpdate
    <2> QED BY <2>1, <2>3
<1> QED BY <1>4, <1>5, <1>6, <1>7, <1>8, <1>9

LEMMA CallUpdates ==
    ASSUME Typed, NEW c \in Greenlets, NEW r \in Seq(Calls), NEW g
    PROVE  /\ Called(c, r) \in [Greenlets -> Seq(Calls)]
           /\ OwnedIn(Called(c, r), Greenlets, g) = OwnedIn(calls, Greenlets, g) + OwnedBy(r, g)
           /\ calls[c] # <<>> =>
                  /\ Replaced(c, r) \in [Greenlets -> Seq(Calls)]
                  /\ Owns(Last(calls[c]), g) \in Nat
                  /\ OwnedIn(Replaced(c, r), Greenlets, g)
                         = OwnedIn(calls, Greenlets, g) - Owns(Last(calls[c]), g) + OwnedBy(r, g)
           /\ OwnedBy(r, g) \in Nat
<1>1. PICK cs \in [Greenlets -> Seq(Calls)] : cs = calls
    BY DEF Typed
<1>2. [cs EXCEPT ![c] = @ \o r] \in [Greenlets -> Seq(Calls)]
    <2>1. cs[c] \o r \in Seq(Calls)
        BY ConcatProperties
    <2> QED BY <2>1
<1>3. OwnedIn([cs EXCEPT ![c] = @ \o r], Greenlets, g) = OwnedIn(cs, Greenlets, g) + OwnedBy(r, g)
    BY OwnedCalled
<1>4. ASSUME cs[c] # <<>>
      PROVE  /\ [cs EXCEPT ![c] = Front(@) \o r] \in [Greenlets -> Seq(Calls)]
             /\ Owns(Last(cs[c]), g) \in Nat
             /\ OwnedIn([cs EXCEPT ![c] = Front(@) \o r], Greenlets, g)
                    = OwnedIn(cs, Greenlets, g) - Owns(Last(cs[c]), g) + OwnedBy(r, g)
    <2>1. Front(cs[c]) \in Seq(Calls)
        BY <1>4, OwnedFront
    <2>2. Front(cs[c]) \o r \in Seq(Calls)
        BY <2>1, ConcatProperties
    <2> QED BY <1>4, <2>2, OwnedReplaced
<1>5. OwnedBy(r, g) \in Nat
    BY TokensFinite
<1> QED BY <1>1, <1>2, <1>3, <1>4, <1>5 DEF Called, Replaced

-----------------------------------------------------------------------------
(* Who executes what. *)

\* A thread executes the last call of its current greenlet, no other one is in C code, and
\* if a greenlet is deallocated it is here.
LEMMA Executing ==
    ASSUME RefInv, NEW t \in Threads, NEW op, Executes(t, op)
    PROVE  /\ fault = "none" /\ Typed /\ TypeOK /\ ControlInv
           /\ \A g \in Greenlets : rc[g] = References(g) /\ rc[g] \in Nat
           /\ thread[t] = "running" /\ current[t] \in Greenlets
           /\ calls[current[t]] \in Seq(Calls) /\ calls[current[t]] # <<>>
           /\ Len(calls[current[t]]) \in DOMAIN calls[current[t]]
           /\ Top(t) = Last(calls[current[t]]) /\ Top(t) \in Calls /\ Top(t).op = op
           /\ Top(t) = calls[current[t]][Len(calls[current[t]])]
           /\ \A u \in Threads \ {t} : ~InC(u)
           /\ \A h \in Greenlets : \A i \in DOMAIN calls[h] :
                  calls[h][i].op = "dealloc" => h = current[t] /\ i = Len(calls[current[t]])
<1>1. fault = "none" /\ InC(t) /\ Top(t).op = op
    BY DEF Executes
<1>2. TypeOK /\ ControlInv /\ RefcountExact
    BY <1>1 DEF RefInv, Controlled
<1>3. Typed
    BY <1>2, TypeOKTyped
<1>4. \A g \in Greenlets : rc[g] = References(g) /\ rc[g] \in Nat
    BY <1>1, <1>2 DEF RefcountExact, TypeOK
<1>5. thread[t] = "running" /\ calls[current[t]] # <<>>
    BY <1>1 DEF InC
<1>6. current[t] \in Greenlets
    BY <1>2, <1>5 DEF ControlInv, CurrentInv
<1>7. calls[current[t]] \in Seq(Calls)
    BY <1>3, <1>6 DEF Typed
<1>8. Len(calls[current[t]]) \in DOMAIN calls[current[t]]
    BY <1>5, <1>7, EmptySeq
<1>9. Top(t) = Last(calls[current[t]]) /\ Top(t) = calls[current[t]][Len(calls[current[t]])]
    BY DEF Top, Last
<1>10. Top(t) \in Calls
    BY <1>5, <1>7, <1>9, OwnedFront
<1>11. \A u \in Threads \ {t} : ~InC(u)
    BY <1>1, <1>2 DEF ControlInv, OneInv
<1>12. ASSUME NEW h \in Greenlets, NEW i \in DOMAIN calls[h], calls[h][i].op = "dealloc"
       PROVE  h = current[t] /\ i = Len(calls[current[t]])
    <2>1. Runs(h) /\ i = Len(calls[h])
        BY <1>2, <1>12 DEF ControlInv, CallsInv, CallOK
    <2>2. PICK u \in Threads : thread[u] = "running" /\ current[u] = h
        BY <2>1 DEF Runs
    <2>3. calls[h] # <<>>
        BY <1>12
    <2>4. Top(u).op = "dealloc"
        BY <1>12, <2>1, <2>2 DEF Top, Last
    <2>5. InC(u)
        BY <2>2, <2>3, <2>4 DEF InC
    <2>6. u = t
        BY <1>11, <2>5
    <2> QED BY <2>1, <2>2, <2>6
<1> QED BY <1>1, <1>2, <1>3, <1>4, <1>5, <1>6, <1>7, <1>8, <1>9, <1>10, <1>11, <1>12

\* While Python code runs, nobody is in C code and no greenlet is deallocated.
LEMMA Running ==
    ASSUME RefInv, NEW t \in Threads, PythonRuns(t)
    PROVE  /\ fault = "none" /\ Typed /\ TypeOK /\ ControlInv
           /\ \A g \in Greenlets : rc[g] = References(g) /\ rc[g] \in Nat
           /\ thread[t] = "running" /\ current[t] \in Greenlets
           /\ calls[current[t]] \in Seq(Calls)
           /\ \A u \in Threads : ~InC(u)
           /\ \A h \in Greenlets : \A i \in DOMAIN calls[h] : calls[h][i].op # "dealloc"
<1>1. fault = "none" /\ thread[t] = "running" /\ \A u \in Threads : ~InC(u)
    BY DEF PythonRuns
<1>2. TypeOK /\ ControlInv /\ RefcountExact
    BY <1>1 DEF RefInv, Controlled
<1>3. Typed
    BY <1>2, TypeOKTyped
<1>4. \A g \in Greenlets : rc[g] = References(g) /\ rc[g] \in Nat
    BY <1>1, <1>2 DEF RefcountExact, TypeOK
<1>5. current[t] \in Greenlets
    BY <1>1, <1>2 DEF ControlInv, CurrentInv
<1>6. calls[current[t]] \in Seq(Calls)
    BY <1>3, <1>5 DEF Typed
<1>7. ASSUME NEW h \in Greenlets, NEW i \in DOMAIN calls[h], calls[h][i].op = "dealloc"
      PROVE  FALSE
    <2>1. Runs(h) /\ i = Len(calls[h])
        BY <1>2, <1>7 DEF ControlInv, CallsInv, CallOK
    <2>2. PICK u \in Threads : thread[u] = "running" /\ current[u] = h
        BY <2>1 DEF Runs
    <2>3. calls[h] # <<>>
        BY <1>7
    <2>4. Top(u).op = "dealloc"
        BY <1>7, <2>1, <2>2 DEF Top, Last
    <2> QED BY <1>1, <2>2, <2>3, <2>4 DEF InC
<1> QED BY <1>1, <1>2, <1>3, <1>4, <1>5, <1>6, <1>7

-----------------------------------------------------------------------------
(* What the calls say stays true. *)

\* The calls of which CallOK says something
Loud(call) == \/ call.op \in {"dealloc", "free", "delete", "new", "destroy"}
              \/ call.op \in {"stack", "jump"} /\ call.first

\* Only the call at place k of r is one of them.
LoudAt(r, k) == r \in Seq(Calls) /\ \A j \in 1..Len(r) : Loud(r[j]) => j = k
IsQuiet(r) == r \in Seq(Calls) /\ \A j \in 1..Len(r) : ~Loud(r[j])

LEMMA Joined ==
    ASSUME NEW r \in Seq(Calls), NEW s \in Seq(Calls)
    PROVE  \E z \in Seq(Calls) :
               /\ z = r \o s /\ Len(z) = Len(r) + Len(s)
               /\ \A i \in 1..(Len(r) + Len(s)) :
                      z[i] = IF i <= Len(r) THEN r[i] ELSE s[i - Len(r)]
<1>1. /\ r \o s \in Seq(Calls) /\ Len(r \o s) = Len(r) + Len(s)
      /\ \A i \in 1..(Len(r) + Len(s)) :
             (r \o s)[i] = IF i <= Len(r) THEN r[i] ELSE s[i - Len(r)]
    BY ConcatProperties
<1> QED BY <1>1

LEMMA QuietEmpty == IsQuiet(<<>>)
BY DEF IsQuiet

LEMMA QuietOne ==
    ASSUME NEW call \in Calls, ~Loud(call)
    PROVE  IsQuiet(<<call>>)
BY DEF IsQuiet

LEMMA LoudOne ==
    ASSUME NEW call \in Calls
    PROVE  LoudAt(<<call>>, 1)
BY DEF LoudAt

LEMMA QuietConcat ==
    ASSUME NEW r, NEW s, IsQuiet(r), IsQuiet(s)
    PROVE  IsQuiet(r \o s)
<1>1. r \in Seq(Calls) /\ s \in Seq(Calls)
    BY DEF IsQuiet
<1>2. PICK z \in Seq(Calls) :
          /\ z = r \o s /\ Len(z) = Len(r) + Len(s)
          /\ \A i \in 1..(Len(r) + Len(s)) : z[i] = IF i <= Len(r) THEN r[i] ELSE s[i - Len(r)]
    BY <1>1, Joined
<1>3. Len(r) \in Nat /\ Len(s) \in Nat
    BY <1>1
<1>4. ASSUME NEW j \in 1..Len(z) PROVE ~Loud(z[j])
    <2>1. CASE j <= Len(r)
        BY <1>2, <1>3, <2>1 DEF IsQuiet
    <2>2. CASE j > Len(r)
        <3>1. j - Len(r) \in 1..Len(s) /\ z[j] = s[j - Len(r)]
            BY <1>2, <1>3, <2>2
        <3> QED BY <3>1 DEF IsQuiet
    <2> QED BY <1>2, <1>3, <2>1, <2>2
<1> QED BY <1>2, <1>4 DEF IsQuiet

\* One loud call, and quiet ones after it
LEMMA LoudConcat ==
    ASSUME NEW call \in Calls, NEW s, IsQuiet(s)
    PROVE  /\ LoudAt(<<call>> \o s, 1) /\ (<<call>> \o s)[1] = call
           /\ Len(<<call>> \o s) >= 1
<1>1. s \in Seq(Calls)
    BY DEF IsQuiet
<1>2. PICK r \in Seq(Calls) : r = <<call>> /\ Len(r) = 1 /\ r[1] = call
    <2>1. <<call>> \in Seq(Calls) /\ Len(<<call>>) = 1 /\ <<call>>[1] = call
        OBVIOUS
    <2> QED BY <2>1
<1>3. PICK z \in Seq(Calls) :
          /\ z = r \o s /\ Len(z) = Len(r) + Len(s)
          /\ \A i \in 1..(Len(r) + Len(s)) : z[i] = IF i <= Len(r) THEN r[i] ELSE s[i - Len(r)]
    BY <1>1, Joined
<1>4. Len(s) \in Nat
    BY <1>1
<1>5. z[1] = call
    BY <1>2, <1>3, <1>4
<1>6. ASSUME NEW j \in 1..Len(z), j # 1 PROVE ~Loud(z[j])
    <2>1. j - 1 \in 1..Len(s) /\ z[j] = s[j - 1]
        BY <1>2, <1>3, <1>4, <1>6
    <2> QED BY <2>1 DEF IsQuiet
<1> QED BY <1>2, <1>3, <1>4, <1>5, <1>6 DEF LoudAt

\* Quiet calls, and a loud one after them
LEMMA LoudAppend ==
    ASSUME NEW call \in Calls, NEW s, IsQuiet(s)
    PROVE  /\ LoudAt(Append(s, call), Len(s) + 1) /\ Append(s, call)[Len(s) + 1] = call
           /\ Len(Append(s, call)) = Len(s) + 1 /\ Len(s) \in Nat
<1>1. s \in Seq(Calls) /\ Len(s) \in Nat
    BY DEF IsQuiet
<1>2. PICK z \in Seq(Calls) :
          /\ z = Append(s, call) /\ Len(z) = Len(s) + 1 /\ z[Len(s) + 1] = call
          /\ \A i \in 1..Len(s) : z[i] = s[i]
    <2>1. /\ Append(s, call) \in Seq(Calls) /\ Len(Append(s, call)) = Len(s) + 1
          /\ Append(s, call)[Len(s) + 1] = call
          /\ \A i \in 1..Len(s) : Append(s, call)[i] = s[i]
        BY <1>1, AppendProperties
    <2> QED BY <2>1
<1>3. ASSUME NEW j \in 1..Len(z), j # Len(s) + 1 PROVE ~Loud(z[j])
    <2>1. j \in 1..Len(s) /\ z[j] = s[j]
        BY <1>1, <1>2, <1>3
    <2> QED BY <2>1 DEF IsQuiet
<1> QED BY <1>1, <1>2, <1>3 DEF LoudAt

LEMMA QuietDropping ==
    ASSUME NEW s \in Seq(Greenlets)
    PROVE  IsQuiet(Dropping(s))
<1>1. CASE s = <<>>
    BY <1>1, QuietEmpty DEF Dropping
<1>2. CASE s # <<>>
    <2>1. PICK call \in Calls : call = [op |-> "drop", todo |-> s]
        BY <1>2 DEF Calls
    <2>2. ~Loud(call)
        BY <2>1 DEF Loud
    <2> QED BY <1>2, <2>1, <2>2, QuietOne DEF Dropping
<1> QED BY <1>1, <1>2

LEMMA QuietClearing ==
    ASSUME NEW S \in SUBSET Greenlets, NEW murder \in BOOLEAN
    PROVE  IsQuiet(Clearing(S, murder))
<1>1. CASE S = {}
    BY <1>1, QuietEmpty DEF Clearing
<1>2. CASE S # {}
    <2>1. PICK call \in Calls : call = [op |-> "clear", todo |-> S, murder |-> murder]
        <3>1. [op |-> "clear", todo |-> S, murder |-> murder]
                  \in [op : {"clear"}, todo : (SUBSET Greenlets) \ {{}}, murder : BOOLEAN]
            BY <1>2
        <3> QED BY <3>1 DEF Calls
    <2>2. ~Loud(call)
        BY <2>1 DEF Loud
    <2> QED BY <1>2, <2>1, <2>2, QuietOne DEF Clearing
<1> QED BY <1>1, <1>2

\* The loud calls of ds are those of cs, of c the first n, and at most one more: this call, at
\* place j of c.
Kept(cs, ds, c, n, j, call) ==
    \A h \in Greenlets : \A i \in DOMAIN ds[h] :
        Loud(ds[h][i]) =>
            \/ i \in DOMAIN cs[h] /\ ds[h][i] = cs[h][i] /\ (h = c => i <= n)
            \/ h = c /\ i = j /\ ds[h][i] = call

LEMMA KeptBy ==
    ASSUME NEW cs \in [Greenlets -> Seq(Calls)], NEW ds, NEW c \in Greenlets,
           NEW n \in 0..Len(cs[c]), NEW r \in Seq(Calls),
           ds[c] = SubSeq(cs[c], 1, n) \o r,
           \A h \in Greenlets \ {c} : ds[h] = cs[h] \/ ds[h] = <<>>
    PROVE  /\ IsQuiet(r) => Kept(cs, ds, c, n, 0, Python)
           /\ \A k \in 1..Len(r) : LoudAt(r, k) => Kept(cs, ds, c, n, n + k, r[k])
           /\ Len(ds[c]) = n + Len(r) /\ DOMAIN ds[c] = 1..(n + Len(r))
<1>1. PICK s \in Seq(Calls) : s = cs[c]
    OBVIOUS
<1>2. Len(s) \in Nat /\ n \in Nat /\ n <= Len(s) /\ DOMAIN s = 1..Len(s)
    BY <1>1
<1>3. \A i \in 1..n : s[i] \in Calls
    BY <1>2, ElementOfSeq
<1>4. PICK p \in Seq(Calls) :
          p = SubSeq(s, 1, n) /\ Len(p) = n /\ \A i \in 1..n : p[i] = s[i]
    <2>1. /\ SubSeq(s, 1, n) \in Seq(Calls)
          /\ Len(SubSeq(s, 1, n)) = IF 1 <= n THEN n - 1 + 1 ELSE 0
          /\ \A i \in 1..(n - 1 + 1) : SubSeq(s, 1, n)[i] = s[1 + i - 1]
        BY <1>2, <1>3, SubSeqProperties
    <2>2. Len(SubSeq(s, 1, n)) = n /\ \A i \in 1..n : SubSeq(s, 1, n)[i] = s[i]
        BY <1>2, <2>1
    <2> QED BY <2>1, <2>2
<1>5. PICK z \in Seq(Calls) :
          /\ z = p \o r /\ Len(z) = n + Len(r)
          /\ \A i \in 1..(n + Len(r)) : z[i] = IF i <= n THEN p[i] ELSE r[i - n]
    <2>1. PICK z \in Seq(Calls) :
              /\ z = p \o r /\ Len(z) = Len(p) + Len(r)
              /\ \A i \in 1..(Len(p) + Len(r)) :
                     z[i] = IF i <= Len(p) THEN p[i] ELSE r[i - Len(p)]
        BY Joined
    <2> QED BY <1>4, <2>1, ZenonT(30)
<1>6. ds[c] = z /\ DOMAIN z = 1..(n + Len(r)) /\ Len(r) \in Nat
    BY <1>1, <1>4, <1>5
<1>7. ASSUME NEW h \in Greenlets, NEW i \in DOMAIN ds[h],
             ~(i \in DOMAIN cs[h] /\ ds[h][i] = cs[h][i] /\ (h = c => i <= n))
      PROVE  h = c /\ i - n \in 1..Len(r) /\ i = n + (i - n) /\ ds[h][i] = r[i - n]
    <2>1. h = c
        <3>1. ASSUME h # c PROVE ds[h] = cs[h]
            <4>1. ds[h] # <<>>
                BY <1>7
            <4> QED BY <3>1, <4>1
        <3> QED BY <1>7, <3>1
    <2>2. i \in 1..(n + Len(r)) /\ ds[h][i] = z[i]
        BY <1>6, <2>1
    <2>3. i > n
        <3>1. ASSUME i <= n PROVE FALSE
            <4>1. i \in 1..n /\ z[i] = s[i] /\ i \in DOMAIN s
                BY <1>2, <1>4, <1>5, <2>2, <3>1
            <4> QED BY <1>1, <1>7, <2>1, <2>2, <3>1, <4>1
        <3> QED BY <1>2, <2>2, <3>1
    <2>4. i - n \in 1..Len(r) /\ i = n + (i - n)
        BY <1>2, <1>6, <2>2, <2>3
    <2>5. z[i] = r[i - n]
        <3>1. z[i] = IF i <= n THEN p[i] ELSE r[i - n]
            BY <1>5, <2>2
        <3>2. ~(i <= n)
            BY <1>2, <2>2, <2>3
        <3> QED BY <3>1, <3>2
    <2> QED BY <2>1, <2>2, <2>4, <2>5
<1>8. ASSUME IsQuiet(r) PROVE Kept(cs, ds, c, n, 0, Python)
    <2> SUFFICES ASSUME NEW h \in Greenlets, NEW i \in DOMAIN ds[h], Loud(ds[h][i])
                 PROVE  i \in DOMAIN cs[h] /\ ds[h][i] = cs[h][i] /\ (h = c => i <= n)
        BY DEF Kept
    <2> QED BY <1>7, <1>8 DEF IsQuiet
<1>9. ASSUME NEW k \in 1..Len(r), LoudAt(r, k) PROVE Kept(cs, ds, c, n, n + k, r[k])
    <2> SUFFICES ASSUME NEW h \in Greenlets, NEW i \in DOMAIN ds[h], Loud(ds[h][i]),
                        ~(i \in DOMAIN cs[h] /\ ds[h][i] = cs[h][i] /\ (h = c => i <= n))
                 PROVE  h = c /\ i = n + k /\ ds[h][i] = r[k]
        BY DEF Kept
    <2>1. h = c /\ i - n \in 1..Len(r) /\ i = n + (i - n) /\ ds[h][i] = r[i - n]
        BY <1>7
    <2>2. i - n = k
        BY <1>9, <2>1 DEF LoudAt
    <2> QED BY <2>1, <2>2
<1> QED BY <1>5, <1>6, <1>8, <1>9

\* d is one of the loud calls that remain.
Remains(c, n, h, i, d) ==
    /\ h \in Greenlets /\ i \in DOMAIN calls[h] /\ d = calls[h][i]
    /\ h = c => i <= n
    /\ Loud(d)

StillOK(c, n) == \A h, i, d : Remains(c, n, h, i, d) => CallOK(h, i, d)'

\* A new call is the only one of its kind.
Fresh(c, n, call) ==
    \A h, i, d : Remains(c, n, h, i, d) => ~Same(d, call) /\ ~Same(call, d)

LEMMA CallsKept ==
    ASSUME UniqueInv, NEW c \in Greenlets, NEW n, NEW j, NEW call,
           Kept(calls, calls', c, n, j, call),
           StillOK(c, n),
           j \in DOMAIN calls'[c] => CallOK(c, j, call)' /\ Fresh(c, n, call)
    PROVE  CallsInv' /\ UniqueInv'
<1>1. ASSUME NEW h \in Greenlets, NEW i \in DOMAIN calls'[h], NEW d, d = calls'[h][i], Loud(d)
      PROVE  Remains(c, n, h, i, d) \/ (h = c /\ i = j /\ d = call /\ j \in DOMAIN calls'[c])
    BY <1>1 DEF Kept, Remains
<1>2. CallsInv'
    <2> SUFFICES ASSUME NEW h \in Greenlets, NEW i \in DOMAIN calls'[h],
                        NEW d, d = calls'[h][i]
                 PROVE  CallOK(h, i, d)'
        BY DEF CallsInv, CallOK
    <2>1. CASE Loud(d)
        BY <1>1, <2>1 DEF StillOK
    <2>2. CASE ~Loud(d)
        BY <2>2 DEF Loud, CallOK
    <2> QED BY <2>1, <2>2
<1>3. UniqueInv'
    <2> SUFFICES ASSUME NEW h \in Greenlets, NEW k \in Greenlets,
                        NEW i \in DOMAIN calls'[h], NEW l \in DOMAIN calls'[k],
                        Same(calls'[h][i], calls'[k][l])
                 PROVE  h = k /\ i = l
        BY DEF UniqueInv
    <2>1. PICK d : d = calls'[h][i]
        OBVIOUS
    <2>2. PICK e : e = calls'[k][l]
        OBVIOUS
    <2>3. Same(d, e)
        BY <2>1, <2>2
    <2>4. Loud(d) /\ Loud(e)
        BY <2>3 DEF Same, Loud
    <2>5. Remains(c, n, h, i, d) \/ (h = c /\ i = j /\ d = call /\ j \in DOMAIN calls'[c])
        BY <1>1, <2>1, <2>4
    <2>6. Remains(c, n, k, l, e) \/ (k = c /\ l = j /\ e = call /\ j \in DOMAIN calls'[c])
        BY <1>1, <2>2, <2>4
    <2>7. CASE Remains(c, n, h, i, d) /\ Remains(c, n, k, l, e)
        BY <2>3, <2>7 DEF Remains, UniqueInv
    <2> QED BY <2>3, <2>5, <2>6, <2>7 DEF Fresh
<1> QED BY <1>2, <1>3

\* A count that was 0 stays 0, unless the greenlet is referred to again before it is freed,
\* and a greenlet that does not exist gets no parent.
CountsKept ==
    \A x \in Greenlets : rc[x] = 0 =>
        /\ rc'[x] = 0 \/ (~BeingFreed(x) /\ life'[x] # "none")
        /\ parent'[x] = parent[x] \/ life'[x] # "none"

\* A life goes on in a way that the calls in progress allow for.
Onward(a, b) ==
    b = a \/ (a # "none" /\ b = "freed") \/ (a \in {"new", "active"} /\ b # "none")

LivesKept(c, n) ==
    \A x \in Greenlets :
        \/ Onward(life[x], life'[x])
        \/ /\ life[x] = "none"
           /\ \A h, i, d : Remains(c, n, h, i, d) => ~(d.op = "new" /\ d.of = x)

\* Whoever runs stays where it is.
RunnersKept ==
    \A x \in Greenlets : Runs(x) =>
        /\ life'[x] = life[x] \/ life'[x] = "dead"
        /\ life[x] = "active" => home'[x] = home[x]

NoDealloc(c, n) == \A h, i, d : Remains(c, n, h, i, d) => d.op # "dealloc"
DeallocsKept(c, n) ==
    \A h, i, d : Remains(c, n, h, i, d) /\ d.op = "dealloc" => CallOK(h, i, d)'
DestroysKept(c, n) ==
    \A h, i, d : Remains(c, n, h, i, d) /\ d.op = "destroy" => thread'[d.state] = "exited"
OthersKept(c) == \A h \in Greenlets \ {c} : calls'[h] = calls[h] \/ calls'[h] = <<>>
Alone(t) == \A u \in Threads \ {t} : ~InC(u)
RunnersStay ==
    \A u \in Threads :
        thread'[u] = "running" => thread[u] = "running" /\ current'[u] = current[u]

LEMMA NoneKept ==
    ASSUME Typed, NoneInv, NEW c, NEW n, CountsKept, LivesKept(c, n)
    PROVE  NoneInv'
<1> SUFFICES ASSUME NEW x \in Greenlets, life'[x] = "none"
             PROVE  rc'[x] = 0 /\ parent'[x] = NoOne
    BY DEF NoneInv
<1>1. life[x] = "none"
    BY DEF LivesKept, Onward
<1> QED BY <1>1 DEF NoneInv, CountsKept

LEMMA StillOKSteady ==
    ASSUME Typed, CallsInv, NEW c \in Greenlets, NEW n,
           CountsKept, LivesKept(c, n), DeallocsKept(c, n), DestroysKept(c, n),
           \A x \in Greenlets : Runs(x)' => Runs(x)
    PROVE  StillOK(c, n)
<1> SUFFICES ASSUME NEW h, NEW i, NEW d, Remains(c, n, h, i, d)
             PROVE  CallOK(h, i, d)'
    BY DEF StillOK
<1>1. h \in Greenlets /\ i \in DOMAIN calls[h] /\ d = calls[h][i] /\ Loud(d)
    BY DEF Remains
<1>2. d \in Calls
    <2>1. calls[h] \in Seq(Calls)
        BY <1>1 DEF Typed
    <2> QED BY <1>1, <2>1, ElementOfSeq
<1>3. CallOK(h, i, d)
    BY <1>1 DEF CallsInv
<1>4. CASE d.op = "dealloc"
    BY <1>4 DEF DeallocsKept
<1>5. CASE d.op \in {"free", "delete"}
    <2>1. d.of \in Greenlets
        BY <1>2, <1>5, CallKinds
    <2>2. rc[d.of] = 0 /\ life[d.of] # "none" /\ BeingFreed(d.of)
        BY <1>1, <1>3, <1>5 DEF CallOK, BeingFreed
    <2>3. rc'[d.of] = 0
        BY <2>1, <2>2 DEF CountsKept
    <2>4. life'[d.of] # "none"
        BY <2>1, <2>2 DEF LivesKept, Onward
    <2> QED BY <1>5, <2>3, <2>4 DEF CallOK
<1>6. CASE d.op = "new"
    <2>1. d.of \in Greenlets
        BY <1>2, <1>6, CallKinds
    <2>2. life[d.of] = "none"
        BY <1>3, <1>6 DEF CallOK
    <2>3. life'[d.of] = "none"
        BY <1>6, <2>1, <2>2 DEF LivesKept, Onward
    <2> QED BY <1>6, <2>3 DEF CallOK
<1>7. CASE d.op \in {"stack", "jump"} /\ d.first
    <2>1. d.of \in Greenlets
        BY <1>2, <1>7, CallKinds
    <2>2. life[d.of] \in {"dead", "freed"} /\ ~Runs(d.of)
        BY <1>3, <1>7 DEF CallOK
    <2>3. life'[d.of] \in {"dead", "freed"}
        BY <2>1, <2>2 DEF LivesKept, Onward
    <2>4. ~Runs(d.of)'
        BY <2>1, <2>2
    <2>5. PICK x \in Greenlets : x = d.of
        BY <2>1
    <2> QED BY <1>7, <2>3, <2>4, <2>5 DEF CallOK
<1>8. CASE d.op = "destroy"
    BY <1>8 DEF DestroysKept, CallOK
<1> QED BY <1>1, <1>4, <1>5, <1>6, <1>7, <1>8 DEF Loud

LEMMA DestroysSteady ==
    ASSUME Typed, CallsInv, NEW c, NEW n,
           \A u \in Threads : thread[u] = "exited" => thread'[u] = "exited"
    PROVE  DestroysKept(c, n)
<1> SUFFICES ASSUME NEW h, NEW i, NEW d, Remains(c, n, h, i, d), d.op = "destroy"
             PROVE  thread'[d.state] = "exited"
    BY DEF DestroysKept
<1>1. h \in Greenlets /\ i \in DOMAIN calls[h] /\ d = calls[h][i]
    BY DEF Remains
<1>2. d \in Calls
    <2>1. calls[h] \in Seq(Calls)
        BY <1>1 DEF Typed
    <2> QED BY <1>1, <2>1, ElementOfSeq
<1>3. d.state \in Threads
    BY <1>2, CallKinds
<1> QED BY <1>1, <1>3 DEF CallsInv, CallOK

LEMMA CurrentKept ==
    ASSUME Typed, CurrentInv, thread' = thread, current' = current, RunnersKept
    PROVE  CurrentInv'
<1> SUFFICES ASSUME NEW t \in Threads
             PROVE  /\ thread[t] = "running" =>
                           /\ current[t] \in Greenlets
                           /\ life'[current[t]] \in {"active", "dead"}
                           /\ life'[current[t]] = "active" => MainFor(current[t])' = MainOf[t]
                    /\ thread[t] = "exited" => current[t] = MainOf[t]
    BY DEF CurrentInv
<1>1. CASE thread[t] = "running"
    <2>1. /\ current[t] \in Greenlets /\ life[current[t]] \in {"active", "dead"}
          /\ life[current[t]] = "active" => MainFor(current[t]) = MainOf[t]
        BY <1>1 DEF CurrentInv
    <2>2. Runs(current[t])
        BY <1>1 DEF Runs
    <2>3. /\ life'[current[t]] = life[current[t]] \/ life'[current[t]] = "dead"
          /\ life[current[t]] = "active" => home'[current[t]] = home[current[t]]
        BY <2>1, <2>2 DEF RunnersKept
    <2> QED BY <1>1, <2>1, <2>3 DEF MainFor
<1>2. CASE thread[t] # "running"
    BY <1>2 DEF CurrentInv
<1> QED BY <1>1, <1>2

LEMMA OneKept ==
    ASSUME CurrentInv, OneInv, NEW t \in Threads, thread[t] = "running",
           RunnersStay, OthersKept(current[t]), Alone(t)
    PROVE  OneInv'
<1>1. ASSUME NEW u \in Threads \ {t}, InC(u)' PROVE FALSE
    <2>1. thread[u] = "running" /\ calls'[current[u]] # <<>> /\ Last(calls'[current[u]]).op # "python"
        BY <1>1 DEF InC, Top, RunnersStay
    <2>2. current[u] # current[t] /\ current[u] \in Greenlets
        BY <2>1 DEF OneInv, CurrentInv
    <2>3. calls'[current[u]] = calls[current[u]]
        BY <2>1, <2>2 DEF OthersKept
    <2>4. InC(u)
        BY <2>1, <2>3 DEF InC, Top
    <2> QED BY <2>4 DEF Alone
<1>2. ASSUME NEW u \in Threads, NEW v \in Threads,
             thread'[u] = "running", thread'[v] = "running", current'[u] = current'[v]
      PROVE  u = v
    BY <1>2 DEF RunnersStay, OneInv
<1> QED BY <1>1, <1>2 DEF OneInv

LEMMA ControlKept ==
    ASSUME Typed, ControlInv, NEW t \in Threads, thread[t] = "running",
           NEW c \in Greenlets, c = current[t], NEW n, NEW j, NEW call,
           Kept(calls, calls', c, n, j, call), OthersKept(c), Alone(t), NoDealloc(c, n),
           thread' = thread, current' = current,
           CountsKept, LivesKept(c, n), RunnersKept,
           j \in DOMAIN calls'[c] => CallOK(c, j, call)' /\ Fresh(c, n, call)
    PROVE  ControlInv'
<1>1. NoneInv'
    BY NoneKept DEF ControlInv
<1>2. StillOK(c, n)
    <2>1. \A x \in Greenlets : Runs(x)' => Runs(x)
        BY DEF Runs
    <2>2. DeallocsKept(c, n)
        BY DEF NoDealloc, DeallocsKept
    <2>3. DestroysKept(c, n)
        BY DestroysSteady DEF ControlInv
    <2> QED BY <2>1, <2>2, <2>3, StillOKSteady DEF ControlInv
<1>3. CallsInv' /\ UniqueInv'
    BY <1>2, CallsKept DEF ControlInv
<1>4. CurrentInv'
    BY CurrentKept DEF ControlInv
<1>5. OneInv'
    BY OneKept DEF ControlInv, RunnersStay
<1> QED BY <1>1, <1>3, <1>4, <1>5 DEF ControlInv

\* The last call of the current greenlet is replaced by quiet ones ...
LEMMA QuietAnswer ==
    ASSUME RefInv, NEW t \in Threads, NEW op, Executes(t, op),
           NEW c \in Greenlets, c = current[t], NEW r, IsQuiet(r),
           calls'[c] = Front(calls[c]) \o r, OthersKept(c),
           thread' = thread, current' = current,
           CountsKept, LivesKept(c, Len(calls[c]) - 1), RunnersKept
    PROVE  ControlInv'
<1>1. /\ Typed /\ ControlInv /\ thread[t] = "running" /\ Alone(t)
      /\ calls[c] \in Seq(Calls) /\ calls[c] # <<>>
      /\ \A h \in Greenlets : \A i \in DOMAIN calls[h] :
             calls[h][i].op = "dealloc" => h = c /\ i = Len(calls[c])
    BY Executing DEF Alone
<1>2. PICK n \in 0..Len(calls[c]) : n = Len(calls[c]) - 1
    <2>1. Len(calls[c]) - 1 \in 0..Len(calls[c])
        BY <1>1, EmptySeq
    <2> QED BY <2>1
<1>3. r \in Seq(Calls)
    BY DEF IsQuiet
<1>4. calls'[c] = SubSeq(calls[c], 1, n) \o r
    BY <1>2 DEF Front
<1>5. Kept(calls, calls', c, n, 0, Python) /\ DOMAIN calls'[c] = 1..(n + Len(r))
    <2>1. calls \in [Greenlets -> Seq(Calls)]
        BY <1>1 DEF Typed
    <2>2. PICK ds : ds = calls'
        OBVIOUS
    <2>3. \A h \in Greenlets \ {c} : ds[h] = calls[h] \/ ds[h] = <<>>
        BY <2>2 DEF OthersKept
    <2>4. ds[c] = SubSeq(calls[c], 1, n) \o r
        BY <1>4, <2>2
    <2>5. Kept(calls, ds, c, n, 0, Python)
        BY <1>3, <2>1, <2>3, <2>4, KeptBy
    <2>6. DOMAIN ds[c] = 1..(n + Len(r))
        BY <1>3, <2>1, <2>3, <2>4, KeptBy
    <2> QED BY <2>2, <2>5, <2>6
<1>6. NoDealloc(c, n)
    BY <1>1, <1>2 DEF NoDealloc, Remains
<1>7. 0 \notin DOMAIN calls'[c]
    BY <1>5
<1>8. LivesKept(c, n)
    BY <1>2
<1> QED BY <1>1, <1>5, <1>6, <1>7, <1>8, ControlKept

\* ... or by some of which one is loud.
LEMMA LoudAnswer ==
    ASSUME RefInv, NEW t \in Threads, NEW op, Executes(t, op),
           NEW c \in Greenlets, c = current[t], NEW r, NEW k \in 1..Len(r), LoudAt(r, k),
           NEW call, call = r[k], NEW n, n = Len(calls[c]) - 1,
           calls'[c] = Front(calls[c]) \o r, OthersKept(c),
           thread' = thread, current' = current,
           CountsKept, LivesKept(c, n), RunnersKept,
           CallOK(c, n + k, call)', Fresh(c, n, call)
    PROVE  ControlInv'
<1>1. /\ Typed /\ ControlInv /\ thread[t] = "running" /\ Alone(t)
      /\ calls[c] \in Seq(Calls) /\ calls[c] # <<>>
      /\ \A h \in Greenlets : \A i \in DOMAIN calls[h] :
             calls[h][i].op = "dealloc" => h = c /\ i = Len(calls[c])
    BY Executing DEF Alone
<1>2. n \in 0..Len(calls[c])
    BY <1>1, EmptySeq
<1>3. r \in Seq(Calls)
    BY DEF LoudAt
<1>4. calls'[c] = SubSeq(calls[c], 1, n) \o r
    BY DEF Front
<1>5. Kept(calls, calls', c, n, n + k, call)
    <2>1. calls \in [Greenlets -> Seq(Calls)]
        BY <1>1 DEF Typed
    <2>2. PICK ds : ds = calls'
        OBVIOUS
    <2>3. \A h \in Greenlets \ {c} : ds[h] = calls[h] \/ ds[h] = <<>>
        BY <2>2 DEF OthersKept
    <2>4. ds[c] = SubSeq(calls[c], 1, n) \o r
        BY <1>4, <2>2
    <2>5. Kept(calls, ds, c, n, n + k, r[k])
        BY <1>2, <1>3, <2>1, <2>3, <2>4, KeptBy
    <2> QED BY <2>2, <2>5
<1>6. NoDealloc(c, n)
    BY <1>1, <1>2 DEF NoDealloc, Remains
<1> QED BY <1>1, <1>5, <1>6, ControlKept

\* Python code calls something quiet ...
LEMMA QuietCall ==
    ASSUME RefInv, NEW t \in Threads, PythonRuns(t),
           NEW c \in Greenlets, c = current[t], NEW r, IsQuiet(r),
           calls'[c] = calls[c] \o r, OthersKept(c),
           thread' = thread, current' = current,
           CountsKept, LivesKept(c, Len(calls[c])), RunnersKept
    PROVE  ControlInv'
<1>1. /\ Typed /\ ControlInv /\ thread[t] = "running" /\ Alone(t)
      /\ calls[c] \in Seq(Calls)
      /\ \A h \in Greenlets : \A i \in DOMAIN calls[h] : calls[h][i].op # "dealloc"
    BY Running DEF Alone
<1>2. PICK n \in 0..Len(calls[c]) : n = Len(calls[c])
    BY <1>1
<1>3. r \in Seq(Calls)
    BY DEF IsQuiet
<1>4. calls'[c] = SubSeq(calls[c], 1, n) \o r
    BY <1>1, <1>2, SubSeqFull
<1>5. Kept(calls, calls', c, n, 0, Python) /\ DOMAIN calls'[c] = 1..(n + Len(r))
    <2>1. calls \in [Greenlets -> Seq(Calls)]
        BY <1>1 DEF Typed
    <2>2. PICK ds : ds = calls'
        OBVIOUS
    <2>3. \A h \in Greenlets \ {c} : ds[h] = calls[h] \/ ds[h] = <<>>
        BY <2>2 DEF OthersKept
    <2>4. ds[c] = SubSeq(calls[c], 1, n) \o r
        BY <1>4, <2>2
    <2>5. Kept(calls, ds, c, n, 0, Python)
        BY <1>3, <2>1, <2>3, <2>4, KeptBy
    <2>6. DOMAIN ds[c] = 1..(n + Len(r))
        BY <1>3, <2>1, <2>3, <2>4, KeptBy
    <2> QED BY <2>2, <2>5, <2>6
<1>6. NoDealloc(c, n)
    BY <1>1 DEF NoDealloc, Remains
<1>7. 0 \notin DOMAIN calls'[c]
    BY <1>5
<1>8. LivesKept(c, n)
    BY <1>2
<1> QED BY <1>1, <1>5, <1>6, <1>7, <1>8, ControlKept

\* ... or something that starts with a loud call.
LEMMA LoudCall ==
    ASSUME RefInv, NEW t \in Threads, PythonRuns(t),
           NEW c \in Greenlets, c = current[t], NEW r, 1 \in 1..Len(r), LoudAt(r, 1),
           NEW call, call = r[1], NEW n, n = Len(calls[c]),
           calls'[c] = calls[c] \o r, OthersKept(c),
           thread' = thread, current' = current,
           CountsKept, LivesKept(c, n), RunnersKept,
           CallOK(c, n + 1, call)', Fresh(c, n, call)
    PROVE  ControlInv'
<1>1. /\ Typed /\ ControlInv /\ thread[t] = "running" /\ Alone(t)
      /\ calls[c] \in Seq(Calls)
      /\ \A h \in Greenlets : \A i \in DOMAIN calls[h] : calls[h][i].op # "dealloc"
    BY Running DEF Alone
<1>2. n \in 0..Len(calls[c])
    BY <1>1
<1>3. r \in Seq(Calls)
    BY DEF LoudAt
<1>4. calls'[c] = SubSeq(calls[c], 1, n) \o r
    BY <1>1, SubSeqFull
<1>5. Kept(calls, calls', c, n, n + 1, call)
    <2>1. calls \in [Greenlets -> Seq(Calls)]
        BY <1>1 DEF Typed
    <2>2. PICK ds : ds = calls'
        OBVIOUS
    <2>3. \A h \in Greenlets \ {c} : ds[h] = calls[h] \/ ds[h] = <<>>
        BY <2>2 DEF OthersKept
    <2>4. ds[c] = SubSeq(calls[c], 1, n) \o r
        BY <1>4, <2>2
    <2>5. Kept(calls, ds, c, n, n + 1, r[1])
        BY <1>2, <1>3, <2>1, <2>3, <2>4, KeptBy
    <2> QED BY <2>2, <2>5
<1>6. NoDealloc(c, n)
    BY <1>1 DEF NoDealloc, Remains
<1> QED BY <1>1, <1>5, <1>6, ControlKept

-----------------------------------------------------------------------------
(* What a count of 0 excludes. *)

LEMMA Positive ==
    ASSUME NEW D, IsFiniteSet(D), NEW A \in SUBSET D, NEW x \in A
    PROVE  Cardinality(A) \in Nat /\ Cardinality(A) >= 1
<1>1. IsFiniteSet(A)
    BY FS_Subset
<1>2. Cardinality(A) \in Nat /\ Cardinality(A) # 0
    BY <1>1, FS_CardinalityType, FS_EmptySet
<1> QED BY <1>2

\* Whoever is referred to has a positive count.
LEMMA Counted ==
    ASSUME Typed, NEW g \in Greenlets, rc[g] = References(g)
    PROVE  /\ rc[g] \in Nat
           /\ \A c \in Greenlets : (parent[c] = g => rc[g] >= 1) /\ (home[c] = g => rc[g] >= 1)
                                   /\ (g \in attr[c] => rc[g] >= 1)
           /\ \A h \in Holders : g \in held[h] => rc[g] >= 1
           /\ \A t \in Threads : (current[t] = g => rc[g] >= 1) /\ (g \in deleteme[t] => rc[g] >= 1)
                                 /\ (MainOf[t] = g /\ thread[t] # "destroyed" => rc[g] >= 1)
           /\ \A c \in Greenlets : calls[c] # <<>> => rc[g] >= Owns(Last(calls[c]), g)
<1>1. Natural(g)
    BY RefsNat
<1>2. /\ rc[g] \in Nat
      /\ rc[g] >= Pointing(parent, g) /\ rc[g] >= Pointing(home, g)
      /\ rc[g] >= Holding(attr, g) /\ rc[g] >= Holding(held, g)
      /\ rc[g] >= Pointing(current, g) /\ rc[g] >= Holding(deleteme, g)
      /\ rc[g] >= Stated(g)
      /\ rc[g] >= OwnedIn(calls, Greenlets, g)
    BY <1>1 DEF References, Natural
<1>3. /\ DOMAIN parent = Greenlets /\ DOMAIN home = Greenlets /\ DOMAIN attr = Greenlets
      /\ DOMAIN held = Holders /\ DOMAIN current = Threads /\ DOMAIN deleteme = Threads
      /\ IsFiniteSet(Greenlets) /\ IsFiniteSet(Threads)
    BY FiniteAssumption DEF Typed
<1>4. IsFiniteSet(Holders)
    BY FiniteAssumption, FS_AddElement DEF Holders
<1>5. ASSUME NEW c \in Greenlets
      PROVE  /\ parent[c] = g => Pointing(parent, g) >= 1
             /\ home[c] = g => Pointing(home, g) >= 1
             /\ g \in attr[c] => Holding(attr, g) >= 1
    <2>1. ASSUME parent[c] = g PROVE Pointing(parent, g) >= 1
        <3>1. c \in {x \in Greenlets : parent[x] = g}
            BY <2>1
        <3>2. {x \in Greenlets : parent[x] = g} \in SUBSET Greenlets
            OBVIOUS
        <3> QED BY <1>3, <3>1, <3>2, Positive DEF Pointing
    <2>2. ASSUME home[c] = g PROVE Pointing(home, g) >= 1
        <3>1. c \in {x \in Greenlets : home[x] = g}
            BY <2>2
        <3>2. {x \in Greenlets : home[x] = g} \in SUBSET Greenlets
            OBVIOUS
        <3> QED BY <1>3, <3>1, <3>2, Positive DEF Pointing
    <2>3. ASSUME g \in attr[c] PROVE Holding(attr, g) >= 1
        <3>1. c \in {x \in Greenlets : g \in attr[x]}
            BY <2>3
        <3>2. {x \in Greenlets : g \in attr[x]} \in SUBSET Greenlets
            OBVIOUS
        <3> QED BY <1>3, <3>1, <3>2, Positive DEF Holding
    <2> QED BY <2>1, <2>2, <2>3
<1>6. ASSUME NEW h \in Holders, g \in held[h] PROVE Holding(held, g) >= 1
    <2>1. h \in {x \in Holders : g \in held[x]}
        BY <1>6
    <2>2. {x \in Holders : g \in held[x]} \in SUBSET Holders
        OBVIOUS
    <2> QED BY <1>3, <1>4, <2>1, <2>2, Positive DEF Holding
<1>7. ASSUME NEW t \in Threads
      PROVE  /\ current[t] = g => Pointing(current, g) >= 1
             /\ g \in deleteme[t] => Holding(deleteme, g) >= 1
             /\ MainOf[t] = g /\ thread[t] # "destroyed" => Stated(g) >= 1
    <2>1. ASSUME current[t] = g PROVE Pointing(current, g) >= 1
        <3>1. t \in {x \in Threads : current[x] = g}
            BY <2>1
        <3>2. {x \in Threads : current[x] = g} \in SUBSET Threads
            OBVIOUS
        <3> QED BY <1>3, <3>1, <3>2, Positive DEF Pointing
    <2>2. ASSUME g \in deleteme[t] PROVE Holding(deleteme, g) >= 1
        <3>1. t \in {x \in Threads : g \in deleteme[x]}
            BY <2>2
        <3>2. {x \in Threads : g \in deleteme[x]} \in SUBSET Threads
            OBVIOUS
        <3> QED BY <1>3, <3>1, <3>2, Positive DEF Holding
    <2>3. ASSUME MainOf[t] = g, thread[t] # "destroyed"
          PROVE  Stated(g) >= 1
        <3>1. t \in {u \in Threads : MainOf[u] = g /\ thread[u] # "destroyed"}
            BY <2>3
        <3>2. {u \in Threads : MainOf[u] = g /\ thread[u] # "destroyed"} \in SUBSET Threads
            OBVIOUS
        <3> QED BY <1>3, <3>1, <3>2, Positive DEF Stated
    <2> QED BY <2>1, <2>2, <2>3
<1>8. ASSUME NEW c \in Greenlets, calls[c] # <<>>
      PROVE  OwnedIn(calls, Greenlets, g) >= Owns(Last(calls[c]), g)
    <2>1. PICK cs \in [Greenlets -> Seq(Calls)] : cs = calls
        BY DEF Typed
    <2>2. Greenlets \in SUBSET Greenlets
        OBVIOUS
    <2>3. /\ OwnedIn(cs, Greenlets, g) = OwnedIn(cs, Greenlets \ {c}, g) + OwnedBy(cs[c], g)
          /\ OwnedIn(cs, Greenlets \ {c}, g) \in Nat
        BY <2>2, OwnedInSplit
    <2>4. PICK s \in Seq(Calls) : s = cs[c] /\ s # <<>>
        BY <1>8, <2>1
    <2>5. Front(s) \in Seq(Calls) /\ Last(s) \in Calls
          /\ OwnedBy(Front(s), g) = OwnedBy(s, g) - Owns(Last(s), g)
        BY <2>4, OwnedFront
    <2>6. OwnedBy(Front(s), g) \in Nat /\ OwnedBy(s, g) \in Nat /\ Owns(Last(s), g) \in Nat
        BY <2>5, TokensFinite, OwnedOne
    <2>7. OwnedBy(s, g) >= Owns(Last(s), g)
        BY <2>5, <2>6
    <2> QED BY <2>1, <2>3, <2>4, <2>6, <2>7
<1>9. ASSUME NEW c \in Greenlets, calls[c] # <<>> PROVE rc[g] >= Owns(Last(calls[c]), g)
    <2>1. Owns(Last(calls[c]), g) \in Nat
        <3>1. Last(calls[c]) \in Calls
            BY <1>9, OwnedFront DEF Typed
        <3> QED BY <3>1, OwnedOne
    <2> QED BY <1>1, <1>2, <1>8, <1>9, <2>1 DEF Natural
<1> QED BY <1>1, <1>2, <1>5, <1>6, <1>7, <1>9 DEF Natural

\* What Python code can get hold of is referred to.
LEMMA Named ==
    ASSUME RefInv, NEW t \in Threads, PythonRuns(t), NEW g \in Names(t)
    PROVE  g \in Greenlets /\ rc[g] \in Nat /\ rc[g] >= 1
<1>1. /\ Typed /\ current[t] \in Greenlets
      /\ \A x \in Greenlets : rc[x] = References(x) /\ rc[x] \in Nat
    BY Running
<1>2. Globals \in Holders /\ current[t] \in Holders
    BY <1>1 DEF Holders
<1>3. held[current[t]] \subseteq Greenlets /\ held[Globals] \subseteq Greenlets
    BY <1>1, <1>2 DEF Typed
<1>4. CASE g \in held[current[t]] \cup held[Globals]
    BY <1>1, <1>2, <1>3, <1>4, Counted
<1>5. CASE g \in {x \in Greenlets : Loadable(x)}
    BY <1>1, <1>5 DEF Loadable
<1>6. CASE g \in {parent[current[t]]} \ {NoOne}
    <2>0. parent[current[t]] \in Greenlets \cup {NoOne}
        BY <1>1 DEF Typed
    <2>1. g = parent[current[t]] /\ g \in Greenlets
        BY <1>6, <2>0
    <2> QED BY <1>1, <2>1, Counted
<1>7. CASE \E x \in Greenlets : g \in attr[x]
    <2>1. PICK x \in Greenlets : g \in attr[x]
        BY <1>7
    <2>2. g \in Greenlets
        BY <1>1, <2>1 DEF Typed
    <2> QED BY <1>1, <2>1, <2>2, Counted
<1> QED BY <1>3, <1>4, <1>5, <1>6, <1>7 DEF Names

-----------------------------------------------------------------------------
(* Python code keeps the invariant. *)

LEMMA CalledOwned ==
    ASSUME Typed, NEW c \in Greenlets, NEW r \in Seq(Calls), calls' = Called(c, r), NEW g
    PROVE  /\ calls' \in [Greenlets -> Seq(Calls)]
           /\ OwnedIn(calls', Greenlets, g) = OwnedIn(calls, Greenlets, g) + OwnedBy(r, g)
           /\ calls'[c] = calls[c] \o r /\ OthersKept(c)
<1>1. /\ calls' \in [Greenlets -> Seq(Calls)]
      /\ OwnedIn(calls', Greenlets, g) = OwnedIn(calls, Greenlets, g) + OwnedBy(r, g)
    BY CallUpdates
<1>2. calls \in [Greenlets -> Seq(Calls)]
    BY DEF Typed
<1> QED BY <1>1, <1>2 DEF Called, OthersKept

LEMMA ReplacedOwned ==
    ASSUME Typed, NEW c \in Greenlets, calls[c] # <<>>, NEW r \in Seq(Calls),
           calls' = Replaced(c, r), NEW g
    PROVE  /\ calls' \in [Greenlets -> Seq(Calls)]
           /\ OwnedIn(calls', Greenlets, g)
                  = OwnedIn(calls, Greenlets, g) - Owns(Last(calls[c]), g) + OwnedBy(r, g)
           /\ Owns(Last(calls[c]), g) \in Nat /\ OwnedBy(r, g) \in Nat
           /\ calls'[c] = Front(calls[c]) \o r /\ OthersKept(c)
<1>1. /\ calls' \in [Greenlets -> Seq(Calls)]
      /\ OwnedIn(calls', Greenlets, g)
             = OwnedIn(calls, Greenlets, g) - Owns(Last(calls[c]), g) + OwnedBy(r, g)
      /\ Owns(Last(calls[c]), g) \in Nat /\ OwnedBy(r, g) \in Nat
    BY CallUpdates
<1>2. calls \in [Greenlets -> Seq(Calls)]
    BY DEF Typed
<1> QED BY <1>1, <1>2 DEF Replaced, OthersKept

\* A call, and quiet ones after it
LEMMA FirstThen ==
    ASSUME NEW call \in Calls, NEW s, IsQuiet(s), NEW g
    PROVE  /\ <<call>> \o s \in Seq(Calls)
           /\ OwnedBy(<<call>> \o s, g) = Owns(call, g) + OwnedBy(s, g)
           /\ ~Loud(call) => IsQuiet(<<call>> \o s)
           /\ LoudAt(<<call>> \o s, 1) /\ (<<call>> \o s)[1] = call
           /\ 1 \in 1..Len(<<call>> \o s)
<1>1. s \in Seq(Calls) /\ <<call>> \in Seq(Calls)
    BY DEF IsQuiet
<1>2. OwnedBy(<<call>> \o s, g) = OwnedBy(<<call>>, g) + OwnedBy(s, g)
    BY <1>1, OwnedConcat
<1>3. OwnedBy(<<call>>, g) = Owns(call, g)
    BY OwnedOne
<1>4. <<call>> \o s \in Seq(Calls) /\ Len(<<call>> \o s) \in Nat
    BY <1>1, ConcatProperties, LenProperties
<1>5. ~Loud(call) => IsQuiet(<<call>> \o s)
    BY QuietOne, QuietConcat
<1>6. LoudAt(<<call>> \o s, 1) /\ (<<call>> \o s)[1] = call /\ Len(<<call>> \o s) >= 1
    BY LoudConcat
<1> QED BY <1>2, <1>3, <1>4, <1>5, <1>6

LEMMA KeepKeeps ==
    ASSUME RefInv, NEW t \in Threads, NEW h \in Holders, NEW g \in Greenlets, Keep(t, h, g)
    PROVE  RefInv'
<1>1. PythonRuns(t) /\ g \in Names(t) /\ h \in {current[t], Globals} /\ g \notin held[h]
    BY DEF Keep
<1>2. /\ fault = "none" /\ Typed /\ ControlInv /\ thread[t] = "running"
      /\ current[t] \in Greenlets /\ calls[current[t]] \in Seq(Calls)
      /\ \A x \in Greenlets : rc[x] = References(x) /\ rc[x] \in Nat
    BY <1>1, Running
<1>3. rc[g] >= 1
    BY <1>1, Named
<1>4. Typed'
    BY <1>2 DEF Keep, Typed, Holders
<1>5. ASSUME NEW x \in Greenlets PROVE rc'[x] = References(x)'
    <2>1. HeldOnly(h) /\ held'[h] = held[h] \cup {g}
        BY <1>2 DEF Keep, HeldOnly, Typed
    <2>2. Holding(held', x) = Holding(held, x) - In(x \in held[h]) + In(x \in held'[h])
        BY <1>2, <1>4, <2>1, Updates
    <2>3. rc'[x] = rc[x] + Is(g, x)
        BY <1>2 DEF Keep, Typed, Is
    <2>4. UNCHANGED <<parent, home, attr, current, deleteme, calls, lost>> /\ Stated(x)' = Stated(x)
        BY DEF Keep, Stated
    <2>5. Natural(x) /\ rc[x] = References(x)
        BY <1>2, RefsNat
    <2> QED BY <1>1, <2>1, <2>2, <2>3, <2>4, <2>5 DEF References, Natural, In, Is
<1>6. ControlInv'
    <2>1. PICK c \in Greenlets : c = current[t]
        BY <1>2
    <2>2. calls'[c] = calls[c] \o <<>>
        BY <1>2, <2>1 DEF Keep
    <2>3. CountsKept
        BY <1>2, <1>3 DEF Keep, CountsKept, Typed
    <2>4. OthersKept(c) /\ LivesKept(c, Len(calls[c])) /\ RunnersKept
        BY DEF Keep, OthersKept, LivesKept, Onward, RunnersKept
    <2>5. thread' = thread /\ current' = current
        BY DEF Keep
    <2> QED BY <1>1, <2>1, <2>2, <2>3, <2>4, <2>5, QuietEmpty, QuietCall
<1> QED BY <1>2, <1>4, <1>5, <1>6, TypedWhenExactNext
        DEF RefcountExact, Controlled, NotMurdered, Keep

LEMMA ForgetKeeps ==
    ASSUME RefInv, NEW t \in Threads, NEW h \in Holders, NEW g \in Greenlets, Forget(t, h, g)
    PROVE  RefInv'
<1>1. PythonRuns(t) /\ g \in held[h]
    BY DEF Forget
<1>2. /\ fault = "none" /\ Typed /\ ControlInv /\ thread[t] = "running"
      /\ current[t] \in Greenlets /\ calls[current[t]] \in Seq(Calls)
      /\ \A x \in Greenlets : rc[x] = References(x) /\ rc[x] \in Nat
    BY <1>1, Running
<1>3. PICK c \in Greenlets : c = current[t]
    BY <1>2
<1>4. PICK r : r \in Seq(Calls) /\ r = Dropping(<<g>>)
    <2>1. <<g>> \in Seq(Greenlets)
        OBVIOUS
    <2> QED BY <2>1, OwnedDropping
<1>5. calls' = Called(c, r)
    BY <1>3, <1>4 DEF Forget
<1>6. IsQuiet(r)
    <2>1. <<g>> \in Seq(Greenlets)
        OBVIOUS
    <2> QED BY <1>4, <2>1, QuietDropping
<1>7. Typed'
    <2>1. calls' \in [Greenlets -> Seq(Calls)]
        BY <1>2, <1>4, <1>5, CalledOwned
    <2> QED BY <1>2, <2>1 DEF Forget, Typed, Holders
<1>8. ASSUME NEW x \in Greenlets PROVE rc'[x] = References(x)'
    <2>1. HeldOnly(h) /\ held'[h] = held[h] \ {g}
        BY <1>2 DEF Forget, HeldOnly, Typed
    <2>2. Holding(held', x) = Holding(held, x) - In(x \in held[h]) + In(x \in held'[h])
        BY <1>2, <1>7, <2>1, Updates
    <2>3. OwnedIn(calls', Greenlets, x) = OwnedIn(calls, Greenlets, x) + OwnedBy(r, x)
        BY <1>2, <1>4, <1>5, CalledOwned
    <2>4. OwnedBy(r, x) = Is(g, x)
        <3>1. <<g>> \in Seq(Greenlets)
            OBVIOUS
        <3> QED BY <1>4, <3>1, OwnedDropping, OccursOne
    <2>5. UNCHANGED <<rc, parent, home, attr, current, deleteme, lost>> /\ Stated(x)' = Stated(x)
        BY DEF Forget, Stated
    <2>6. Natural(x) /\ rc[x] = References(x)
        BY <1>2, RefsNat
    <2>7. Holding(held', x) = Holding(held, x) - Is(g, x) /\ Is(g, x) \in Nat
        BY <1>1, <2>1, <2>2, <2>6 DEF In, Is, Natural
    <2> QED BY <2>3, <2>4, <2>5, <2>6, <2>7 DEF References, Natural
<1>9. ControlInv'
    <2>1. calls'[c] = calls[c] \o r /\ OthersKept(c)
        BY <1>2, <1>4, <1>5, CalledOwned
    <2>2. CountsKept /\ LivesKept(c, Len(calls[c])) /\ RunnersKept
        BY DEF Forget, CountsKept, LivesKept, Onward, RunnersKept
    <2>3. thread' = thread /\ current' = current
        BY DEF Forget
    <2> QED BY <1>1, <1>3, <1>6, <2>1, <2>2, <2>3, QuietCall
<1> QED BY <1>2, <1>7, <1>8, <1>9, TypedWhenExactNext
        DEF RefcountExact, Controlled, NotMurdered, Forget

LEMMA NewKeeps ==
    ASSUME RefInv, NEW t \in Threads, NEW g \in Greenlets, New(t, g)
    PROVE  RefInv'
<1>1. PythonRuns(t) /\ life[g] = "none" /\ InProgress({"new"}, g) = {}
    BY DEF New
<1>2. /\ fault = "none" /\ Typed /\ ControlInv /\ thread[t] = "running"
      /\ current[t] \in Greenlets /\ calls[current[t]] \in Seq(Calls)
      /\ \A x \in Greenlets : rc[x] = References(x) /\ rc[x] \in Nat
    BY <1>1, Running
<1>3. PICK c \in Greenlets : c = current[t]
    BY <1>2
<1>4. deleteme[t] \in SUBSET Greenlets
    BY <1>2 DEF Typed
<1>5. PICK call \in Calls : call = Doing("new", g)
    BY Constructors
<1>6. PICK s : s \in Seq(Calls) /\ s = Clearing(deleteme[t], FALSE)
    BY <1>4, OwnedClearing
<1>7. IsQuiet(s)
    BY <1>4, <1>6, QuietClearing
<1>8. PICK r : r \in Seq(Calls) /\ r = <<call>> \o s
    BY <1>7, FirstThen
<1>9. calls' = Called(c, r)
    BY <1>3, <1>5, <1>6, <1>8 DEF New
<1>10. Typed'
    <2>1. calls' \in [Greenlets -> Seq(Calls)]
        BY <1>2, <1>8, <1>9, CalledOwned
    <2> QED BY <1>2, <2>1 DEF New, Typed
<1>11. ASSUME NEW x \in Greenlets PROVE rc'[x] = References(x)'
    <2>1. DeletemeOnly(t) /\ deleteme'[t] = {}
        BY <1>2 DEF New, DeletemeOnly, Typed
    <2>2. Holding(deleteme', x) = Holding(deleteme, x) - In(x \in deleteme[t]) + In(x \in deleteme'[t])
        BY <1>2, <1>10, <2>1, Updates
    <2>3. OwnedIn(calls', Greenlets, x) = OwnedIn(calls, Greenlets, x) + OwnedBy(r, x)
        BY <1>2, <1>8, <1>9, CalledOwned
    <2>4. OwnedBy(r, x) = Owns(call, x) + OwnedBy(s, x)
        BY <1>7, <1>8, FirstThen
    <2>5. OwnedBy(s, x) = In(x \in deleteme[t])
        BY <1>4, <1>6, OwnedClearing
    <2>6. Owns(call, x) = 0
        BY <1>5, OwnsNothing DEF Doing
    <2>7. UNCHANGED <<rc, parent, home, attr, held, current, lost>> /\ Stated(x)' = Stated(x)
        BY DEF New, Stated
    <2>8. Natural(x) /\ rc[x] = References(x)
        BY <1>2, RefsNat
    <2>9. In(x \in deleteme'[t]) = 0 /\ In(x \in deleteme[t]) \in Nat
        BY <2>1 DEF In
    <2> QED BY <2>2, <2>3, <2>4, <2>5, <2>6, <2>7, <2>8, <2>9 DEF References, Natural
<1>12. ControlInv'
    <2>1. calls'[c] = calls[c] \o r /\ OthersKept(c)
        BY <1>2, <1>8, <1>9, CalledOwned
    <2>2. PICK n : n = Len(calls[c])
        OBVIOUS
    <2>3. CountsKept /\ LivesKept(c, n) /\ RunnersKept
        BY DEF New, CountsKept, LivesKept, Onward, RunnersKept
    <2>4. thread' = thread /\ current' = current
        BY DEF New
    <2>5. LoudAt(r, 1) /\ call = r[1] /\ 1 \in 1..Len(r)
        BY <1>7, <1>8, FirstThen
    <2>6. CallOK(c, n + 1, call)'
        BY <1>1, <1>5 DEF CallOK, Doing, New
    <2>7. Fresh(c, n, call)
        <3> SUFFICES ASSUME NEW h, NEW i, NEW d, Remains(c, n, h, i, d),
                            Same(d, call) \/ Same(call, d)
                     PROVE  FALSE
            BY DEF Fresh
        <3>1. d.op = "new" /\ d.of = g
            BY <1>5 DEF Same, Doing
        <3>2. h \in InProgress({"new"}, g)
            BY <3>1 DEF Remains, InProgress
        <3> QED BY <1>1, <3>2
    <2> QED BY <1>1, <1>3, <2>1, <2>2, <2>3, <2>4, <2>5, <2>6, <2>7, LoudCall
<1> QED BY <1>2, <1>10, <1>11, <1>12, TypedWhenExactNext
        DEF RefcountExact, Controlled, NotMurdered, New

LEMMA GetCurrentKeeps ==
    ASSUME RefInv, NEW t \in Threads, GetCurrent(t)
    PROVE  RefInv'
<1>1. PythonRuns(t)
    BY DEF GetCurrent
<1>2. /\ fault = "none" /\ Typed /\ ControlInv /\ thread[t] = "running"
      /\ current[t] \in Greenlets /\ calls[current[t]] \in Seq(Calls)
      /\ \A x \in Greenlets : rc[x] = References(x) /\ rc[x] \in Nat
    BY <1>1, Running
<1>3. PICK c \in Greenlets : c = current[t]
    BY <1>2
<1>4. deleteme[t] \in SUBSET Greenlets
    BY <1>2 DEF Typed
<1>5. PICK call \in Calls : call = Doing("current", c)
    BY Constructors
<1>6. PICK s : s \in Seq(Calls) /\ s = Clearing(deleteme[t], FALSE)
    BY <1>4, OwnedClearing
<1>7. IsQuiet(s)
    BY <1>4, <1>6, QuietClearing
<1>8. PICK r : r \in Seq(Calls) /\ r = <<call>> \o s
    BY <1>7, FirstThen
<1>9. calls' = Called(c, r)
    BY <1>3, <1>5, <1>6, <1>8 DEF GetCurrent
<1>10. Typed'
    <2>1. calls' \in [Greenlets -> Seq(Calls)]
        BY <1>2, <1>8, <1>9, CalledOwned
    <2> QED BY <1>2, <2>1 DEF GetCurrent, Typed
<1>11. ASSUME NEW x \in Greenlets PROVE rc'[x] = References(x)'
    <2>1. DeletemeOnly(t) /\ deleteme'[t] = {}
        BY <1>2 DEF GetCurrent, DeletemeOnly, Typed
    <2>2. Holding(deleteme', x) = Holding(deleteme, x) - In(x \in deleteme[t]) + In(x \in deleteme'[t])
        BY <1>2, <1>10, <2>1, Updates
    <2>3. OwnedIn(calls', Greenlets, x) = OwnedIn(calls, Greenlets, x) + OwnedBy(r, x)
        BY <1>2, <1>8, <1>9, CalledOwned
    <2>4. OwnedBy(r, x) = Owns(call, x) + OwnedBy(s, x)
        BY <1>7, <1>8, FirstThen
    <2>5. OwnedBy(s, x) = In(x \in deleteme[t])
        BY <1>4, <1>6, OwnedClearing
    <2>6. Owns(call, x) = 0
        BY <1>5, OwnsNothing DEF Doing
    <2>7. UNCHANGED <<rc, parent, home, attr, held, current, lost>> /\ Stated(x)' = Stated(x)
        BY DEF GetCurrent, Stated
    <2>8. Natural(x) /\ rc[x] = References(x)
        BY <1>2, RefsNat
    <2>9. In(x \in deleteme'[t]) = 0 /\ In(x \in deleteme[t]) \in Nat
        BY <2>1 DEF In
    <2> QED BY <2>2, <2>3, <2>4, <2>5, <2>6, <2>7, <2>8, <2>9 DEF References, Natural
<1>12. ControlInv'
    <2>1. calls'[c] = calls[c] \o r /\ OthersKept(c)
        BY <1>2, <1>8, <1>9, CalledOwned
    <2>2. CountsKept /\ LivesKept(c, Len(calls[c])) /\ RunnersKept
        BY DEF GetCurrent, CountsKept, LivesKept, Onward, RunnersKept
    <2>3. thread' = thread /\ current' = current
        BY DEF GetCurrent
    <2>4. ~Loud(call)
        BY <1>5 DEF Loud, Doing
    <2>5. IsQuiet(r)
        BY <1>7, <1>8, <2>4, FirstThen
    <2> QED BY <1>1, <1>3, <2>1, <2>2, <2>3, <2>5, QuietCall
<1> QED BY <1>2, <1>10, <1>11, <1>12, TypedWhenExactNext
        DEF RefcountExact, Controlled, NotMurdered, GetCurrent

LEMMA NameKeeps ==
    ASSUME RefInv, NEW t \in Threads, NEW g \in Greenlets, NEW y \in Greenlets, Name(t, g, y)
    PROVE  RefInv'
<1>1. PythonRuns(t) /\ y \in Names(t) /\ y \notin attr[g]
    BY DEF Name
<1>2. /\ fault = "none" /\ Typed /\ ControlInv /\ thread[t] = "running"
      /\ current[t] \in Greenlets /\ calls[current[t]] \in Seq(Calls)
      /\ \A x \in Greenlets : rc[x] = References(x) /\ rc[x] \in Nat
    BY <1>1, Running
<1>3. rc[y] >= 1
    BY <1>1, Named
<1>4. Typed'
    BY <1>2, SMTT(30) DEF Name, Typed
<1>5. ASSUME NEW x \in Greenlets PROVE rc'[x] = References(x)'
    <2>1. AttrOnly(g) /\ attr'[g] = attr[g] \cup {y}
        BY <1>2 DEF Name, AttrOnly, Typed
    <2>2. Holding(attr', x) = Holding(attr, x) - In(x \in attr[g]) + In(x \in attr'[g])
        BY <1>2, <1>4, <2>1, Updates
    <2>3. rc'[x] = rc[x] + Is(y, x)
        BY <1>2, SMTT(30) DEF Name, Typed, Is
    <2>4. UNCHANGED <<parent, home, held, current, deleteme, calls, lost>> /\ Stated(x)' = Stated(x)
        BY DEF Name, Stated
    <2>5. Natural(x) /\ rc[x] = References(x)
        BY <1>2, RefsNat
    <2>6. Holding(attr', x) = Holding(attr, x) + Is(y, x) /\ Is(y, x) \in Nat
        BY <1>1, <2>1, <2>2, <2>5 DEF In, Is, Natural
    <2> QED BY <2>3, <2>4, <2>5, <2>6 DEF References, Natural
<1>6. ControlInv'
    <2>1. PICK c \in Greenlets : c = current[t]
        BY <1>2
    <2>2. calls'[c] = calls[c] \o <<>>
        BY <1>2, <2>1 DEF Name
    <2>3. CountsKept
        BY <1>2, <1>3 DEF Name, CountsKept, Typed
    <2>4. OthersKept(c) /\ LivesKept(c, Len(calls[c])) /\ RunnersKept
        BY DEF Name, OthersKept, LivesKept, Onward, RunnersKept
    <2>5. thread' = thread /\ current' = current
        BY DEF Name
    <2> QED BY <1>1, <2>1, <2>2, <2>3, <2>4, <2>5, QuietEmpty, QuietCall
<1> QED BY <1>2, <1>4, <1>5, <1>6, TypedWhenExactNext
        DEF RefcountExact, Controlled, NotMurdered, Name

LEMMA UnnameKeeps ==
    ASSUME RefInv, NEW t \in Threads, NEW g \in Greenlets, NEW y \in Greenlets, Unname(t, g, y)
    PROVE  RefInv'
<1>1. PythonRuns(t) /\ y \in attr[g]
    BY DEF Unname
<1>2. /\ fault = "none" /\ Typed /\ ControlInv /\ thread[t] = "running"
      /\ current[t] \in Greenlets /\ calls[current[t]] \in Seq(Calls)
      /\ \A x \in Greenlets : rc[x] = References(x) /\ rc[x] \in Nat
    BY <1>1, Running
<1>3. PICK c \in Greenlets : c = current[t]
    BY <1>2
<1>4. <<y>> \in Seq(Greenlets)
    OBVIOUS
<1>5. PICK r : r \in Seq(Calls) /\ r = Dropping(<<y>>)
    BY <1>4, OwnedDropping
<1>6. calls' = Called(c, r)
    BY <1>3, <1>5 DEF Unname
<1>7. Typed'
    <2>1. calls' \in [Greenlets -> Seq(Calls)]
        BY <1>2, <1>5, <1>6, CalledOwned
    <2> QED BY <1>2, <2>1 DEF Unname, Typed
<1>8. ASSUME NEW x \in Greenlets PROVE rc'[x] = References(x)'
    <2>1. AttrOnly(g) /\ attr'[g] = attr[g] \ {y}
        BY <1>2 DEF Unname, AttrOnly, Typed
    <2>2. Holding(attr', x) = Holding(attr, x) - In(x \in attr[g]) + In(x \in attr'[g])
        BY <1>2, <1>7, <2>1, Updates
    <2>3. OwnedIn(calls', Greenlets, x) = OwnedIn(calls, Greenlets, x) + OwnedBy(r, x)
        BY <1>2, <1>5, <1>6, CalledOwned
    <2>4. OwnedBy(r, x) = Is(y, x)
        BY <1>4, <1>5, OwnedDropping, OccursOne
    <2>5. UNCHANGED <<rc, parent, home, held, current, deleteme, lost>> /\ Stated(x)' = Stated(x)
        BY DEF Unname, Stated
    <2>6. Natural(x) /\ rc[x] = References(x)
        BY <1>2, RefsNat
    <2>7. Holding(attr', x) = Holding(attr, x) - Is(y, x) /\ Is(y, x) \in Nat
        BY <1>1, <2>1, <2>2, <2>6 DEF In, Is, Natural
    <2> QED BY <2>3, <2>4, <2>5, <2>6, <2>7 DEF References, Natural
<1>9. ControlInv'
    <2>1. calls'[c] = calls[c] \o r /\ OthersKept(c)
        BY <1>2, <1>5, <1>6, CalledOwned
    <2>2. CountsKept /\ LivesKept(c, Len(calls[c])) /\ RunnersKept
        BY DEF Unname, CountsKept, LivesKept, Onward, RunnersKept
    <2>3. thread' = thread /\ current' = current
        BY DEF Unname
    <2>4. IsQuiet(r)
        BY <1>4, <1>5, QuietDropping
    <2> QED BY <1>1, <1>3, <2>1, <2>2, <2>3, <2>4, QuietCall
<1> QED BY <1>2, <1>7, <1>8, <1>9, TypedWhenExactNext
        DEF RefcountExact, Controlled, NotMurdered, Unname

LEMMA SetParentKeeps ==
    ASSUME RefInv, NEW t \in Threads, NEW g \in Greenlets, NEW p \in Greenlets, SetParent(t, g, p)
    PROVE  RefInv'
<1>1. /\ PythonRuns(t) /\ g \in Names(t) /\ p \in Names(t) /\ p # parent[g]
      /\ parent' = [parent EXCEPT ![g] = p]
      /\ rc' = [rc EXCEPT ![p] = @ + 1]
      /\ calls' = Called(current[t], Dropping(Present(parent[g])))
      /\ asked' = IF InProgress({"kill"}, g) # {} THEN asked ELSE [asked EXCEPT ![g] = p]
      /\ UNCHANGED <<life, home, attr, held, current, thread, deleteme, fault, lost, runs>>
    BY DEF SetParent
<1>2. /\ fault = "none" /\ Typed /\ ControlInv /\ thread[t] = "running"
      /\ current[t] \in Greenlets /\ calls[current[t]] \in Seq(Calls)
      /\ \A x \in Greenlets : rc[x] = References(x) /\ rc[x] \in Nat
    BY <1>1, Running
<1>3. PICK c \in Greenlets : c = current[t]
    BY <1>2
<1>4. rc[p] >= 1
    BY <1>1, Named
<1>5. parent[g] \in Greenlets \cup {NoOne}
    BY <1>2 DEF Typed
<1>6. PICK s : s \in Seq(Greenlets) /\ s = Present(parent[g])
    BY <1>5, OccursPresent
<1>7. PICK r : r \in Seq(Calls) /\ r = Dropping(s)
    BY <1>6, OwnedDropping
<1>8. calls' = Called(c, r)
    BY <1>1, <1>3, <1>6, <1>7
<1>9. Typed'
    <2>1. calls' \in [Greenlets -> Seq(Calls)]
        BY <1>2, <1>7, <1>8, CalledOwned
    <2>2. asked' \in [Greenlets -> Greenlets \cup {NoOne}]
        <3>1. asked \in [Greenlets -> Greenlets \cup {NoOne}]
            BY <1>2 DEF Typed
        <3>2. asked' = asked \/ asked' = [asked EXCEPT ![g] = p]
            BY <1>1
        <3> QED BY <3>1, <3>2
    <2>3. parent' \in [Greenlets -> Greenlets \cup {NoOne}] /\ rc' \in [Greenlets -> Int]
        BY <1>1, <1>2, SMTT(30) DEF Typed
    <2> QED BY <1>1, <1>2, <2>1, <2>2, <2>3 DEF Typed
<1>10. ASSUME NEW x \in Greenlets PROVE rc'[x] = References(x)'
    <2>1. ParentOnly(g) /\ parent'[g] = p
        BY <1>1, <1>2 DEF ParentOnly, Typed
    <2>2. Pointing(parent', x) = Pointing(parent, x) - Is(parent[g], x) + Is(p, x)
        BY <1>2, <1>9, <2>1, Updates
    <2>3. OwnedIn(calls', Greenlets, x) = OwnedIn(calls, Greenlets, x) + OwnedBy(r, x)
        BY <1>2, <1>7, <1>8, CalledOwned
    <2>4. OwnedBy(r, x) = Is(parent[g], x)
        BY <1>5, <1>6, <1>7, OwnedDropping, OccursPresent
    <2>5. rc'[x] = rc[x] + Is(p, x)
        <3>1. rc \in [Greenlets -> Int] /\ rc[x] \in Int
            BY <1>2 DEF Typed
        <3>2. rc' = [rc EXCEPT ![p] = @ + 1]
            BY <1>1
        <3> QED BY <3>1, <3>2 DEF Is
    <2>6. UNCHANGED <<home, attr, held, current, deleteme, lost>> /\ Stated(x)' = Stated(x)
        BY <1>1 DEF Stated
    <2>7. Natural(x) /\ rc[x] = References(x)
        BY <1>2, RefsNat
    <2>8. Is(parent[g], x) \in Nat /\ Is(p, x) \in Nat
        BY DEF Is
    <2> QED BY <2>2, <2>3, <2>4, <2>5, <2>6, <2>7, <2>8 DEF References, Natural
<1>11. ControlInv'
    <2>1. calls'[c] = calls[c] \o r /\ OthersKept(c)
        BY <1>2, <1>7, <1>8, CalledOwned
    <2>2. CountsKept
        <3>1. rc[g] >= 1
            BY <1>1, Named
        <3>2. \A x \in Greenlets : rc[x] = 0 => rc'[x] = 0
            BY <1>1, <1>2, <1>4 DEF Typed
        <3>3. \A x \in Greenlets : rc[x] = 0 => parent'[x] = parent[x]
            BY <1>1, <1>2, <3>1 DEF Typed
        <3> QED BY <3>2, <3>3 DEF CountsKept
    <2>3. LivesKept(c, Len(calls[c])) /\ RunnersKept
        BY <1>1 DEF LivesKept, Onward, RunnersKept
    <2>4. IsQuiet(r)
        BY <1>6, <1>7, QuietDropping
    <2> QED BY <1>1, <1>3, <2>1, <2>2, <2>3, <2>4, QuietCall
<1> QED BY <1>1, <1>2, <1>9, <1>10, <1>11, TypedWhenExactNext
        DEF RefcountExact, Controlled, NotMurdered

LEMMA SwitchKeeps ==
    ASSUME RefInv, NEW t \in Threads, NEW g \in Greenlets, Switch(t, g)
    PROVE  RefInv'
<1>1. /\ PythonRuns(t)
      /\ calls' = Called(current[t], <<SwitchTo(g, FALSE)>>)
      /\ UNCHANGED <<life, parent, home, attr, held, rc, current, thread, deleteme, fault,
                     lost, asked, runs>>
    BY DEF Switch
<1>2. /\ fault = "none" /\ Typed /\ ControlInv /\ thread[t] = "running"
      /\ current[t] \in Greenlets /\ calls[current[t]] \in Seq(Calls)
      /\ \A x \in Greenlets : rc[x] = References(x) /\ rc[x] \in Nat
    BY <1>1, Running
<1>3. PICK c \in Greenlets : c = current[t]
    BY <1>2
<1>4. PICK call \in Calls : call = SwitchTo(g, FALSE)
    BY Constructors
<1>5. PICK r : r \in Seq(Calls) /\ r = <<call>>
    <2>1. <<call>> \in Seq(Calls)
        OBVIOUS
    <2> QED BY <2>1
<1>6. calls' = Called(c, r)
    BY <1>1, <1>3, <1>4, <1>5
<1>7. Typed'
    <2>1. calls' \in [Greenlets -> Seq(Calls)]
        BY <1>2, <1>5, <1>6, CalledOwned
    <2> QED BY <1>1, <1>2, <2>1 DEF Typed
<1>8. ASSUME NEW x \in Greenlets PROVE rc'[x] = References(x)'
    <2>1. OwnedIn(calls', Greenlets, x) = OwnedIn(calls, Greenlets, x) + OwnedBy(r, x)
        BY <1>2, <1>5, <1>6, CalledOwned
    <2>2. OwnedBy(r, x) = 0
        <3>1. Owns(call, x) = 0
            BY <1>4, OwnsNothing DEF SwitchTo
        <3> QED BY <1>5, <3>1, OwnedOne
    <2>3. Stated(x)' = Stated(x)
        BY <1>1 DEF Stated
    <2>4. Natural(x) /\ rc[x] = References(x)
        BY <1>2, RefsNat
    <2> QED BY <1>1, <2>1, <2>2, <2>3, <2>4 DEF References, Natural
<1>9. ControlInv'
    <2>1. calls'[c] = calls[c] \o r /\ OthersKept(c)
        BY <1>2, <1>5, <1>6, CalledOwned
    <2>2. CountsKept /\ LivesKept(c, Len(calls[c])) /\ RunnersKept
        BY <1>1 DEF CountsKept, LivesKept, Onward, RunnersKept
    <2>3. ~Loud(call)
        BY <1>4 DEF Loud, SwitchTo
    <2>4. IsQuiet(r)
        BY <1>5, <2>3, QuietOne
    <2> QED BY <1>1, <1>3, <2>1, <2>2, <2>4, QuietCall
<1> QED BY <1>1, <1>2, <1>7, <1>8, <1>9, TypedWhenExactNext
        DEF RefcountExact, Controlled, NotMurdered

LEMMA FinishKeeps ==
    ASSUME RefInv, NEW t \in Threads, Finish(t)
    PROVE  RefInv'
<1>1. PythonRuns(t)
    BY DEF Finish
<1>2. /\ fault = "none" /\ Typed /\ ControlInv /\ thread[t] = "running"
      /\ current[t] \in Greenlets /\ calls[current[t]] \in Seq(Calls)
      /\ \A x \in Greenlets : rc[x] = References(x) /\ rc[x] \in Nat
    BY <1>1, Running
<1>3. PICK c \in Greenlets : c = current[t]
    BY <1>2
<1>4. c \in Holders /\ held[c] \in SUBSET Greenlets
    BY <1>2 DEF Typed, Holders
<1>5. PICK locals \in SetToSeqs(held[c]) :
          calls' = Called(c, <<Doing("finish", c)>> \o Dropping(locals))
    BY <1>3 DEF Finish
<1>6. locals \in Seq(Greenlets)
    BY <1>4, OccursSeqs
<1>7. PICK call \in Calls : call = Doing("finish", c)
    BY Constructors
<1>8. PICK s : s \in Seq(Calls) /\ s = Dropping(locals)
    BY <1>6, OwnedDropping
<1>9. IsQuiet(s)
    BY <1>6, <1>8, QuietDropping
<1>10. PICK r : r \in Seq(Calls) /\ r = <<call>> \o s
    BY <1>9, FirstThen
<1>11. calls' = Called(c, r)
    BY <1>5, <1>7, <1>8, <1>10
<1>12. Typed'
    <2>1. calls' \in [Greenlets -> Seq(Calls)]
        BY <1>2, <1>10, <1>11, CalledOwned
    <2> QED BY <1>2, <1>3, <1>4, <2>1 DEF Finish, Typed
<1>13. ASSUME NEW x \in Greenlets PROVE rc'[x] = References(x)'
    <2>1. HeldOnly(c) /\ held'[c] = {}
        BY <1>2, <1>3, <1>4 DEF Finish, HeldOnly, Typed
    <2>2. Holding(held', x) = Holding(held, x) - In(x \in held[c]) + In(x \in held'[c])
        BY <1>2, <1>4, <1>12, <2>1, Updates
    <2>3. OwnedIn(calls', Greenlets, x) = OwnedIn(calls, Greenlets, x) + OwnedBy(r, x)
        BY <1>2, <1>10, <1>11, CalledOwned
    <2>4. OwnedBy(r, x) = Owns(call, x) + OwnedBy(s, x)
        BY <1>9, <1>10, FirstThen
    <2>5. OwnedBy(s, x) = In(x \in held[c])
        BY <1>4, <1>6, <1>8, OwnedDropping, OccursSeqs
    <2>6. Owns(call, x) = 0
        BY <1>7, OwnsNothing DEF Doing
    <2>7. UNCHANGED <<rc, parent, home, attr, current, deleteme, lost>> /\ Stated(x)' = Stated(x)
        BY DEF Finish, Stated
    <2>8. Natural(x) /\ rc[x] = References(x)
        BY <1>2, RefsNat
    <2>9. In(x \in held'[c]) = 0 /\ In(x \in held[c]) \in Nat
        BY <2>1 DEF In
    <2> QED BY <2>2, <2>3, <2>4, <2>5, <2>6, <2>7, <2>8, <2>9 DEF References, Natural
<1>14. ControlInv'
    <2>1. calls'[c] = calls[c] \o r /\ OthersKept(c)
        BY <1>2, <1>10, <1>11, CalledOwned
    <2>2. CountsKept /\ LivesKept(c, Len(calls[c])) /\ RunnersKept
        BY DEF Finish, CountsKept, LivesKept, Onward, RunnersKept
    <2>3. thread' = thread /\ current' = current
        BY DEF Finish
    <2>4. ~Loud(call)
        BY <1>7 DEF Loud, Doing
    <2>5. IsQuiet(r)
        BY <1>9, <1>10, <2>4, FirstThen
    <2> QED BY <1>1, <1>3, <2>1, <2>2, <2>3, <2>5, QuietCall
<1> QED BY <1>2, <1>12, <1>13, <1>14, TypedWhenExactNext
        DEF RefcountExact, Controlled, NotMurdered, Finish

LEMMA ReturnKeeps ==
    ASSUME RefInv, NEW t \in Threads, Return(t)
    PROVE  RefInv'
<1>1. /\ PythonRuns(t) /\ calls[current[t]] # <<>>
      /\ calls' = Replaced(current[t], <<>>)
      /\ UNCHANGED <<life, parent, home, attr, held, rc, current, thread, deleteme, fault,
                     lost, asked, runs>>
    BY DEF Return
<1>2. /\ fault = "none" /\ Typed /\ ControlInv /\ thread[t] = "running"
      /\ current[t] \in Greenlets /\ calls[current[t]] \in Seq(Calls)
      /\ \A x \in Greenlets : rc[x] = References(x) /\ rc[x] \in Nat
      /\ \A u \in Threads : ~InC(u)
      /\ \A h \in Greenlets : \A i \in DOMAIN calls[h] : calls[h][i].op # "dealloc"
    BY <1>1, Running
<1>3. PICK c \in Greenlets : c = current[t]
    BY <1>2
<1>4. calls' = Replaced(c, <<>>) /\ calls[c] # <<>>
    BY <1>1, <1>3
<1>5. Last(calls[c]).op = "python"
    BY <1>1, <1>2, <1>3 DEF InC, Top
<1>6. PICK r : r \in Seq(Calls) /\ r = <<>>
    <2>1. <<>> \in Seq(Calls)
        OBVIOUS
    <2> QED BY <2>1
<1>7. calls' = Replaced(c, r)
    BY <1>4, <1>6
<1>8. Typed'
    <2>1. calls' \in [Greenlets -> Seq(Calls)]
        BY <1>2, <1>4, <1>6, <1>7, ReplacedOwned
    <2> QED BY <1>1, <1>2, <2>1 DEF Typed
<1>9. ASSUME NEW x \in Greenlets PROVE rc'[x] = References(x)'
    <2>1. OwnedIn(calls', Greenlets, x)
              = OwnedIn(calls, Greenlets, x) - Owns(Last(calls[c]), x) + OwnedBy(r, x)
        BY <1>2, <1>4, <1>6, <1>7, ReplacedOwned
    <2>2. OwnedBy(r, x) = 0 /\ Owns(Last(calls[c]), x) = 0
        BY <1>5, <1>6, OwnedEmpty, OwnsNothing
    <2>3. Stated(x)' = Stated(x)
        BY <1>1 DEF Stated
    <2>4. Natural(x) /\ rc[x] = References(x)
        BY <1>2, RefsNat
    <2> QED BY <1>1, <2>1, <2>2, <2>3, <2>4 DEF References, Natural
<1>10. ControlInv'
    <2>1. calls'[c] = Front(calls[c]) \o r /\ OthersKept(c)
        BY <1>2, <1>4, <1>6, <1>7, ReplacedOwned
    <2>2. PICK n \in 0..Len(calls[c]) : n = Len(calls[c]) - 1
        <3>1. Len(calls[c]) - 1 \in 0..Len(calls[c])
            BY <1>2, <1>3, <1>4, EmptySeq
        <3> QED BY <3>1
    <2>3. calls'[c] = SubSeq(calls[c], 1, n) \o r
        BY <2>1, <2>2 DEF Front
    <2>4. Kept(calls, calls', c, n, 0, Python) /\ 0 \notin DOMAIN calls'[c]
        <3>1. calls \in [Greenlets -> Seq(Calls)]
            BY <1>2 DEF Typed
        <3>2. PICK ds : ds = calls'
            OBVIOUS
        <3>3. \A h \in Greenlets \ {c} : ds[h] = calls[h] \/ ds[h] = <<>>
            BY <2>1, <3>2 DEF OthersKept
        <3>4. ds[c] = SubSeq(calls[c], 1, n) \o r
            BY <2>3, <3>2
        <3>5. IsQuiet(r)
            BY <1>6, QuietEmpty
        <3>6. Kept(calls, ds, c, n, 0, Python)
            BY <1>6, <3>1, <3>3, <3>4, <3>5, KeptBy
        <3>7. DOMAIN ds[c] = 1..(n + Len(r))
            BY <1>6, <3>1, <3>3, <3>4, KeptBy
        <3> QED BY <3>2, <3>6, <3>7
    <2>5. NoDealloc(c, n) /\ Alone(t)
        BY <1>2 DEF NoDealloc, Remains, Alone
    <2>6. CountsKept /\ LivesKept(c, n) /\ RunnersKept
        BY <1>1 DEF CountsKept, LivesKept, Onward, RunnersKept
    <2> QED BY <1>1, <1>2, <1>3, <2>1, <2>4, <2>5, <2>6, ControlKept
<1> QED BY <1>1, <1>2, <1>8, <1>9, <1>10, TypedWhenExactNext
        DEF RefcountExact, Controlled, NotMurdered

\* A greenlet that runs and is active belongs to a thread that exists.
LEMMA CurrentLinked ==
    ASSUME Typed, ControlInv, NEW g \in Greenlets, Runs(g), life[g] = "active"
    PROVE  Linked(g)
<1>1. PICK t \in Threads : thread[t] = "running" /\ current[t] = g
    BY DEF Runs
<1>2. MainFor(g) = MainOf[t]
    BY <1>1 DEF ControlInv, CurrentInv
<1> QED BY <1>1, <1>2 DEF Linked

\* What the frames and the calls of an abandoned greenlet refer to is lost.
LEMMA Abandoned ==
    ASSUME Typed, NEW g \in Greenlets, Abandon(g)
    PROVE  /\ lost' \in [Greenlets -> Nat] /\ held' \in [Holders -> SUBSET Greenlets]
           /\ HeldOnly(g) /\ held'[g] = {} /\ g \in Holders
           /\ \A x \in Greenlets :
                  /\ lost'[x] = lost[x] + In(x \in held[g]) + OwnedBy(calls[g], x)
                  /\ OwnedBy(calls[g], x) \in Nat
<1>1. g \in Holders
    BY DEF Holders
<1>2. held' \in [Holders -> SUBSET Greenlets] /\ HeldOnly(g) /\ held'[g] = {}
    BY <1>1 DEF Typed, Abandon, HeldOnly
<1>3. calls[g] \in Seq(Calls)
    BY DEF Typed
<1>4. \A x \in Greenlets : OwnedBy(calls[g], x) \in Nat
    BY <1>3, TokensFinite
<1>5. lost \in [Greenlets -> Nat]
    BY DEF Typed
<1>6. lost' = [x \in Greenlets |-> lost[x] + (IF x \in held[g] THEN 1 ELSE 0) + OwnedBy(calls[g], x)]
    BY DEF Abandon
<1>7. \A x \in Greenlets : lost'[x] = lost[x] + In(x \in held[g]) + OwnedBy(calls[g], x)
    BY <1>6 DEF In
<1>8. \A x \in Greenlets :
          lost[x] + (IF x \in held[g] THEN 1 ELSE 0) + OwnedBy(calls[g], x) \in Nat
    <2> TAKE x \in Greenlets
    <2>1. lost[x] \in Nat /\ OwnedBy(calls[g], x) \in Nat
        BY <1>4, <1>5
    <2> QED BY <2>1
<1>9. lost' \in [Greenlets -> Nat]
    BY <1>6, <1>8
<1> QED BY <1>1, <1>2, <1>4, <1>7, <1>9

LEMMA LookDeadKeeps ==
    ASSUME RefInv, NEW t \in Threads, NEW g \in Greenlets, LookDead(t, g)
    PROVE  RefInv'
<1>1. /\ PythonRuns(t)
      /\ life[g] = "active" /\ InDeadThread(g)
      /\ life' = [life EXCEPT ![g] = "new"]
      /\ Abandon(g)
      /\ calls' = [calls EXCEPT ![g] = <<>>]
      /\ UNCHANGED <<parent, home, attr, rc, current, thread, deleteme, fault, asked, runs>>
    BY DEF LookDead
<1>2. /\ fault = "none" /\ Typed /\ ControlInv /\ thread[t] = "running"
      /\ current[t] \in Greenlets /\ calls[current[t]] \in Seq(Calls)
      /\ \A x \in Greenlets : rc[x] = References(x) /\ rc[x] \in Nat
    BY <1>1, Running
<1>3. PICK c \in Greenlets : c = current[t]
    BY <1>2
<1>4. ~Runs(g)
    BY <1>1, <1>2, CurrentLinked DEF InDeadThread
<1>5. g # c
    BY <1>2, <1>3, <1>4 DEF Runs
<1>6. calls \in [Greenlets -> Seq(Calls)]
    BY <1>2 DEF Typed
<1>7. PICK r : r \in Seq(Calls) /\ r = <<>>
    <2>1. <<>> \in Seq(Calls)
        OBVIOUS
    <2> QED BY <2>1
<1>8. Typed'
    <2>1. calls' \in [Greenlets -> Seq(Calls)]
        BY <1>1, <1>6, <1>7
    <2>2. lost' \in [Greenlets -> Nat] /\ held' \in [Holders -> SUBSET Greenlets]
        BY <1>1, <1>2, Abandoned
    <2>3. life' \in [Greenlets -> {"none", "new", "active", "dead", "freed"}]
        BY <1>1, <1>2 DEF Typed
    <2> QED BY <1>1, <1>2, <2>1, <2>2, <2>3 DEF Typed
<1>9. ASSUME NEW x \in Greenlets PROVE rc'[x] = References(x)'
    <2>1. /\ HeldOnly(g) /\ held'[g] = {} /\ g \in Holders
          /\ lost'[x] = lost[x] + In(x \in held[g]) + OwnedBy(calls[g], x)
          /\ OwnedBy(calls[g], x) \in Nat
        BY <1>1, <1>2, Abandoned
    <2>2. Holding(held', x) = Holding(held, x) - In(x \in held[g]) + In(x \in held'[g])
        BY <1>2, <1>8, <2>1, Updates
    <2>3. OwnedIn(calls', Greenlets, x) = OwnedIn(calls, Greenlets, x) - OwnedBy(calls[g], x)
        <3>1. calls' = [calls EXCEPT ![g] = r]
            BY <1>1, <1>7
        <3>2. OwnedIn(calls', Greenlets, x)
                  = OwnedIn(calls, Greenlets, x) - OwnedBy(calls[g], x) + OwnedBy(r, x)
            BY <1>6, <1>7, <3>1, OwnedUpdate, ZenonT(30)
        <3>3. OwnedBy(r, x) = 0
            BY <1>7, OwnedEmpty
        <3>4. Natural(x)
            BY <1>2, RefsNat
        <3> QED BY <2>1, <3>2, <3>3, <3>4 DEF Natural
    <2>4. UNCHANGED <<rc, parent, home, attr, current, deleteme>> /\ Stated(x)' = Stated(x)
        BY <1>1 DEF Stated
    <2>5. Natural(x) /\ rc[x] = References(x)
        BY <1>2, RefsNat
    <2>6. In(x \in held'[g]) = 0 /\ In(x \in held[g]) \in Nat
        BY <2>1 DEF In
    <2>7. /\ lost'[x] = lost[x] + In(x \in held[g]) + OwnedBy(calls[g], x)
          /\ OwnedBy(calls[g], x) \in Nat
        BY <2>1
    <2> QED BY <2>2, <2>3, <2>4, <2>5, <2>6, <2>7 DEF References, Natural
<1>10. ControlInv'
    <2>1. calls'[c] = calls[c] \o r
        BY <1>1, <1>3, <1>5, <1>6, <1>7
    <2>2. OthersKept(c)
        BY <1>1, <1>6 DEF OthersKept
    <2>3. CountsKept
        BY <1>1 DEF CountsKept
    <2>4. LivesKept(c, Len(calls[c])) /\ RunnersKept
        BY <1>1, <1>2, <1>4 DEF LivesKept, Onward, RunnersKept, Typed
    <2>5. IsQuiet(r)
        BY <1>7, QuietEmpty
    <2> QED BY <1>1, <1>3, <2>1, <2>2, <2>3, <2>4, <2>5, QuietCall
<1> QED BY <1>1, <1>2, <1>8, <1>9, <1>10, TypedWhenExactNext
        DEF RefcountExact, Controlled, NotMurdered

LEMMA DestroyKeeps ==
    ASSUME RefInv, NEW u \in Threads, Destroy(u)
    PROVE  RefInv'
<1>1. /\ PythonRuns(MainThread) /\ MainThread \in Threads
      /\ thread[u] = "exited"
      /\ \A g \in Greenlets : \A i \in DOMAIN calls[g] : calls[g][i].op # "destroy"
    BY ThreadsAssumption DEF Destroy
<1>2. /\ fault = "none" /\ Typed /\ ControlInv /\ thread[MainThread] = "running"
      /\ current[MainThread] \in Greenlets /\ calls[current[MainThread]] \in Seq(Calls)
      /\ \A x \in Greenlets : rc[x] = References(x) /\ rc[x] \in Nat
    BY <1>1, Running
<1>3. PICK c \in Greenlets : c = current[MainThread]
    BY <1>2
<1>4. deleteme[u] \in SUBSET Greenlets
    BY <1>2 DEF Typed
<1>5. PICK call \in Calls : call = Destroying(u)
    BY Constructors
<1>6. PICK s : s \in Seq(Calls) /\ s = Clearing(deleteme[u], TRUE)
    BY <1>4, OwnedClearing
<1>7. IsQuiet(s)
    BY <1>4, <1>6, QuietClearing
<1>8. PICK r : r \in Seq(Calls) /\ r = <<call>> \o s
    BY <1>7, FirstThen
<1>9. calls' = Called(c, r)
    BY <1>3, <1>5, <1>6, <1>8 DEF Destroy
<1>10. Typed'
    <2>1. calls' \in [Greenlets -> Seq(Calls)]
        BY <1>2, <1>8, <1>9, CalledOwned
    <2> QED BY <1>2, <2>1 DEF Destroy, Typed
<1>11. ASSUME NEW x \in Greenlets PROVE rc'[x] = References(x)'
    <2>1. DeletemeOnly(u) /\ deleteme'[u] = {}
        BY <1>2 DEF Destroy, DeletemeOnly, Typed
    <2>2. Holding(deleteme', x) = Holding(deleteme, x) - In(x \in deleteme[u]) + In(x \in deleteme'[u])
        BY <1>2, <1>10, <2>1, Updates
    <2>3. OwnedIn(calls', Greenlets, x) = OwnedIn(calls, Greenlets, x) + OwnedBy(r, x)
        BY <1>2, <1>8, <1>9, CalledOwned
    <2>4. OwnedBy(r, x) = Owns(call, x) + OwnedBy(s, x)
        BY <1>7, <1>8, FirstThen
    <2>5. OwnedBy(s, x) = In(x \in deleteme[u])
        BY <1>4, <1>6, OwnedClearing
    <2>6. Owns(call, x) = 0
        BY <1>5, OwnsNothing DEF Destroying
    <2>7. UNCHANGED <<rc, parent, home, attr, held, current, lost>> /\ Stated(x)' = Stated(x)
        BY DEF Destroy, Stated
    <2>8. Natural(x) /\ rc[x] = References(x)
        BY <1>2, RefsNat
    <2>9. In(x \in deleteme'[u]) = 0 /\ In(x \in deleteme[u]) \in Nat
        BY <2>1 DEF In
    <2> QED BY <2>2, <2>3, <2>4, <2>5, <2>6, <2>7, <2>8, <2>9 DEF References, Natural
<1>12. ControlInv'
    <2>1. calls'[c] = calls[c] \o r /\ OthersKept(c)
        BY <1>2, <1>8, <1>9, CalledOwned
    <2>2. PICK n : n = Len(calls[c])
        OBVIOUS
    <2>3. CountsKept /\ LivesKept(c, n) /\ RunnersKept
        BY DEF Destroy, CountsKept, LivesKept, Onward, RunnersKept
    <2>4. thread' = thread /\ current' = current
        BY DEF Destroy
    <2>5. LoudAt(r, 1) /\ call = r[1] /\ 1 \in 1..Len(r)
        BY <1>7, <1>8, FirstThen
    <2>6. CallOK(c, n + 1, call)'
        BY <1>1, <1>5, <2>4 DEF CallOK, Destroying
    <2>7. Fresh(c, n, call)
        BY <1>1, <1>5 DEF Fresh, Remains, Same, Destroying
    <2> QED BY <1>1, <1>3, <2>1, <2>2, <2>3, <2>4, <2>5, <2>6, <2>7, LoudCall
<1> QED BY <1>2, <1>10, <1>11, <1>12, TypedWhenExactNext
        DEF RefcountExact, Controlled, NotMurdered, Destroy

LEMMA ExitKeeps ==
    ASSUME RefInv, NEW t \in Threads, Exit(t)
    PROVE  RefInv'
<1>1. /\ fault = "none" /\ thread[t] = "running"
      /\ current[t] = MainOf[t] /\ calls[MainOf[t]] = <<>>
      /\ thread' = [thread EXCEPT ![t] = "exited"]
      /\ UNCHANGED <<life, parent, home, attr, held, rc, current, deleteme, calls, fault,
                     lost, asked, runs>>
    BY DEF Exit
<1>2. TypeOK /\ RefcountExact /\ ControlInv
    BY <1>1 DEF RefInv, Controlled
<1>3. Typed
    BY <1>2, TypeOKTyped
<1>4. \A x \in Greenlets : rc[x] = References(x)
    BY <1>1, <1>2 DEF RefcountExact
<1>5. Typed'
    BY <1>1, <1>3 DEF Typed
<1>6. ASSUME NEW x \in Greenlets PROVE rc'[x] = References(x)'
    <2>1. \A u \in Threads : thread'[u] # "destroyed" <=> thread[u] # "destroyed"
        BY <1>1, <1>3 DEF Typed
    <2>2. Stated(x)' = Stated(x)
        BY <2>1 DEF Stated
    <2>3. rc[x] = References(x)
        BY <1>4
    <2> QED BY <1>1, <2>2, <2>3 DEF References
<1>7. \A u \in Threads : thread'[u] = "running" => thread[u] = "running" /\ u # t
    BY <1>1, <1>3 DEF Typed
<1>8. MainOf[t] \in Greenlets
    BY MainOfAssumption
<1>9. CallsInv' /\ UniqueInv'
    <2>1. PICK c \in Greenlets : c = MainOf[t]
        BY <1>8
    <2>2. Kept(calls, calls', c, 0, 0, Python)
        BY <1>1, <2>1 DEF Kept
    <2>3. DeallocsKept(c, 0)
        <3> SUFFICES ASSUME NEW h, NEW i, NEW d, Remains(c, 0, h, i, d), d.op = "dealloc"
                     PROVE  CallOK(h, i, d)'
            BY DEF DeallocsKept
        <3>1. h \in Greenlets /\ i \in DOMAIN calls[h] /\ d = calls[h][i]
            BY DEF Remains
        <3>2. CallOK(h, i, d)
            BY <1>2, <3>1 DEF ControlInv, CallsInv
        <3>3. Runs(h) /\ h # MainOf[t]
            BY <1>1, <3>1, <3>2 DEF CallOK
        <3>4. PICK u \in Threads : thread[u] = "running" /\ current[u] = h
            BY <3>3 DEF Runs
        <3>5. Runs(h)'
            BY <1>1, <1>3, <3>3, <3>4 DEF Runs, Typed
        <3>6. PICK x \in Greenlets : x = d.of
            <4>1. calls[h] \in Seq(Calls)
                BY <1>3, <3>1 DEF Typed
            <4>2. d \in Calls
                BY <3>1, <4>1, ElementOfSeq
            <4> QED BY <4>2, CallKinds
        <3>7. BeingFreed(x)' <=> BeingFreed(x)
            BY <1>1 DEF BeingFreed
        <3> QED BY <1>1, <3>2, <3>5, <3>6, <3>7 DEF CallOK
    <2>4. CountsKept /\ LivesKept(c, 0)
        BY <1>1 DEF CountsKept, LivesKept, Onward
    <2>5. \A x \in Greenlets : Runs(x)' => Runs(x)
        BY <1>1, <1>7 DEF Runs
    <2>6. \A u \in Threads : thread[u] = "exited" => thread'[u] = "exited"
        BY <1>1, <1>3 DEF Typed
    <2>7. StillOK(c, 0)
        <3>1. DestroysKept(c, 0)
            BY <1>2, <1>3, <2>6, DestroysSteady DEF ControlInv
        <3> QED BY <1>2, <1>3, <2>3, <2>4, <2>5, <3>1, StillOKSteady DEF ControlInv
    <2>8. 0 \notin DOMAIN calls'[c]
        BY <1>1, <2>1
    <2> QED BY <1>2, <2>2, <2>7, <2>8, CallsKept DEF ControlInv
<1>10. CurrentInv' /\ NoneInv'
    <2>1. CurrentInv'
        <3> SUFFICES ASSUME NEW u \in Threads
                     PROVE  /\ thread'[u] = "running" =>
                                   /\ current[u] \in Greenlets
                                   /\ life[current[u]] \in {"active", "dead"}
                                   /\ life[current[u]] = "active" => MainFor(current[u])' = MainOf[u]
                            /\ thread'[u] = "exited" => current[u] = MainOf[u]
            BY <1>1 DEF CurrentInv
        <3>1. thread'[u] = "exited" => current[u] = MainOf[u]
            <4>1. CASE u = t
                BY <1>1, <4>1
            <4>2. CASE u # t
                BY <1>1, <1>2, <4>2 DEF ControlInv, CurrentInv
            <4> QED BY <4>1, <4>2
        <3>2. MainFor(current[u])' = MainFor(current[u])
            BY <1>1 DEF MainFor
        <3> QED BY <1>2, <1>7, <3>1, <3>2 DEF ControlInv, CurrentInv
    <2>2. NoneInv'
        BY <1>1, <1>2 DEF ControlInv, NoneInv
    <2> QED BY <2>1, <2>2
<1>11. OneInv'
    <2>1. \A u \in Threads : InC(u)' => InC(u)
        BY <1>1, <1>7 DEF InC, Top
    <2> QED BY <1>1, <1>2, <1>7, <2>1 DEF ControlInv, OneInv
<1> QED BY <1>1, <1>5, <1>6, <1>9, <1>10, <1>11, TypedWhenExactNext
        DEF RefcountExact, Controlled, NotMurdered, ControlInv

-----------------------------------------------------------------------------
(* C code keeps the invariant. *)

\* Most calls end with no other effect than on the calls and on the list of the thread.
StepOnly(t, c, r) ==
    /\ calls' = Replaced(c, r)
    /\ deleteme' = deleteme \/ deleteme' = [deleteme EXCEPT ![t] = {}]
    /\ fault' \in {"none", "torn", "no parent", "cyclic"}
    /\ UNCHANGED <<life, parent, home, attr, held, rc, current, thread, lost, asked, runs>>

AreCalls(r) == r \in Seq(Calls)

\* The references that the last call owns, and those of the list, pass to the calls r.
Passed(t, r) ==
    \A x \in Greenlets :
        OwnedBy(r, x) = Owns(Top(t), x) + In(x \in deleteme[t]) - In(x \in deleteme'[t])

LEMMA StepExact ==
    ASSUME RefInv, NEW t \in Threads, NEW op, Executes(t, op),
           NEW c \in Greenlets, c = current[t], NEW r, AreCalls(r),
           StepOnly(t, c, r), Passed(t, r)
    PROVE  /\ Typed' /\ RefcountExact' /\ NotMurdered'
           /\ calls'[c] = Front(calls[c]) \o r /\ OthersKept(c)
           /\ thread' = thread /\ current' = current /\ CountsKept /\ RunnersKept
           /\ \A n : LivesKept(c, n)
<1>0. r \in Seq(Calls)
    BY DEF AreCalls
<1>1. /\ fault = "none" /\ Typed
      /\ \A x \in Greenlets : rc[x] = References(x)
      /\ calls[c] # <<>> /\ Top(t) = Last(calls[c])
    BY Executing
<1>2. calls' = Replaced(c, r)
    BY DEF StepOnly
<1>3. UNCHANGED <<life, parent, home, attr, held, rc, current, thread, lost, asked, runs>>
    BY DEF StepOnly
<1>4. Typed'
    <2>1. calls' \in [Greenlets -> Seq(Calls)]
        BY <1>0, <1>1, <1>2, ReplacedOwned
    <2>2. deleteme' \in [Threads -> SUBSET Greenlets]
        BY <1>1 DEF StepOnly, Typed
    <2>3. fault' \in {"none", "torn", "no parent", "cyclic", "murdered"}
        BY DEF StepOnly
    <2> QED BY <1>1, <1>3, <2>1, <2>2, <2>3 DEF Typed
<1>5. ASSUME NEW x \in Greenlets PROVE rc'[x] = References(x)'
    <2>1. DeletemeOnly(t)
        BY <1>1 DEF DeletemeOnly, Typed, StepOnly
    <2>2. Holding(deleteme', x) = Holding(deleteme, x) - In(x \in deleteme[t]) + In(x \in deleteme'[t])
        BY <1>1, <1>4, <2>1, Updates
    <2>3. /\ OwnedIn(calls', Greenlets, x)
                 = OwnedIn(calls, Greenlets, x) - Owns(Last(calls[c]), x) + OwnedBy(r, x)
          /\ Owns(Last(calls[c]), x) \in Nat
        BY <1>0, <1>1, <1>2, ReplacedOwned
    <2>4. OwnedBy(r, x) = Owns(Last(calls[c]), x) + In(x \in deleteme[t]) - In(x \in deleteme'[t])
        BY <1>1 DEF Passed
    <2>5. Stated(x)' = Stated(x)
        BY <1>3 DEF Stated
    <2>6. Natural(x) /\ rc[x] = References(x)
        BY <1>1, RefsNat
    <2>7. In(x \in deleteme'[t]) \in Nat /\ In(x \in deleteme[t]) \in Nat
        BY DEF In
    <2> QED BY <1>3, <2>2, <2>3, <2>4, <2>5, <2>6, <2>7 DEF References, Natural
<1>6. calls'[c] = Front(calls[c]) \o r /\ OthersKept(c)
    BY <1>0, <1>1, <1>2, ReplacedOwned
<1>7. CountsKept /\ RunnersKept /\ \A n : LivesKept(c, n)
    BY <1>3 DEF CountsKept, RunnersKept, LivesKept, Onward
<1>8. NotMurdered'
    BY DEF StepOnly, NotMurdered
<1> QED BY <1>3, <1>4, <1>5, <1>6, <1>7, <1>8 DEF RefcountExact

LEMMA QuietStep ==
    ASSUME RefInv, NEW t \in Threads, NEW op, Executes(t, op),
           NEW c \in Greenlets, c = current[t], NEW r, IsQuiet(r),
           StepOnly(t, c, r), Passed(t, r)
    PROVE  RefInv'
<1>1. AreCalls(r)
    BY DEF IsQuiet, AreCalls
<1>2. /\ Typed' /\ RefcountExact' /\ NotMurdered'
      /\ calls'[c] = Front(calls[c]) \o r /\ OthersKept(c)
      /\ thread' = thread /\ current' = current /\ CountsKept /\ RunnersKept
      /\ LivesKept(c, Len(calls[c]) - 1)
    BY <1>1, StepExact
<1>3. ControlInv'
    BY <1>2, QuietAnswer
<1> QED BY <1>2, <1>3, TypedWhenExactNext DEF Controlled

LEMMA LoudStep ==
    ASSUME RefInv, NEW t \in Threads, NEW op, Executes(t, op),
           NEW c \in Greenlets, c = current[t], NEW r, NEW k \in 1..Len(r), LoudAt(r, k),
           NEW call, call = r[k], NEW n, n = Len(calls[c]) - 1,
           StepOnly(t, c, r), Passed(t, r),
           CallOK(c, n + k, call)', Fresh(c, n, call)
    PROVE  RefInv'
<1>1. AreCalls(r)
    BY DEF LoudAt, AreCalls
<1>2. /\ Typed' /\ RefcountExact' /\ NotMurdered'
      /\ calls'[c] = Front(calls[c]) \o r /\ OthersKept(c)
      /\ thread' = thread /\ current' = current /\ CountsKept /\ RunnersKept
      /\ LivesKept(c, n)
    BY <1>1, StepExact
<1>3. ControlInv'
    BY <1>2, LoudAnswer
<1> QED BY <1>2, <1>3, TypedWhenExactNext DEF Controlled

\* Quiet calls after quiet ones
LEMMA Then ==
    ASSUME NEW r, IsQuiet(r), NEW s, IsQuiet(s), NEW g
    PROVE  IsQuiet(r \o s) /\ OwnedBy(r \o s, g) = OwnedBy(r, g) + OwnedBy(s, g)
<1>1. r \in Seq(Calls) /\ s \in Seq(Calls)
    BY DEF IsQuiet
<1>2. OwnedBy(r \o s, g) = OwnedBy(r, g) + OwnedBy(s, g)
    BY <1>1, OwnedConcat
<1> QED BY <1>2, QuietConcat

\* The calls r go on with what the last call was about.
LEMMA FreshAfter ==
    ASSUME RefInv, NEW t \in Threads, NEW op, Executes(t, op),
           NEW c \in Greenlets, c = current[t], NEW n, n = Len(calls[c]) - 1,
           NEW call, \A d : Same(d, call) \/ Same(call, d) => Same(d, Top(t))
    PROVE  Fresh(c, n, call)
<1> SUFFICES ASSUME NEW h, NEW i, NEW d, Remains(c, n, h, i, d), Same(d, Top(t))
             PROVE  FALSE
    BY DEF Fresh
<1>1. /\ UniqueInv /\ Len(calls[c]) \in DOMAIN calls[c] /\ Top(t) = calls[c][Len(calls[c])]
      /\ calls[c] \in Seq(Calls)
    BY Executing DEF ControlInv
<1>2. h = c /\ i = Len(calls[c])
    BY <1>1 DEF UniqueInv, Remains
<1> QED BY <1>1, <1>2 DEF Remains

LEMMA ClearNextKeeps ==
    ASSUME RefInv, NEW t \in Threads, ClearNext(t)
    PROVE  RefInv'
<1>1. Executes(t, "clear")
    BY DEF ClearNext
<1>2. fault = "none" /\ current[t] \in Greenlets /\ Top(t) \in Calls /\ Top(t).op = "clear"
    BY <1>1, Executing
<1>3. PICK c \in Greenlets : c = current[t]
    BY <1>2
<1>4. PICK S \in SUBSET Greenlets : S = Top(t).todo
    BY <1>2, CallKinds
<1>5. PICK g \in S : calls' = Replaced(c, Clearing(S \ {g}, FALSE) \o Dropping(<<g>>))
    BY <1>3, <1>4 DEF ClearNext
<1>6. S \ {g} \in SUBSET Greenlets /\ g \in Greenlets /\ <<g>> \in Seq(Greenlets)
    OBVIOUS
<1>7. PICK p : IsQuiet(p) /\ p = Clearing(S \ {g}, FALSE)
    BY <1>6, QuietClearing
<1>8. PICK q : IsQuiet(q) /\ q = Dropping(<<g>>)
    BY <1>6, QuietDropping
<1>9. PICK r : IsQuiet(r) /\ r = p \o q
    BY <1>7, <1>8, Then
<1>10. Passed(t, r)
    <2> SUFFICES ASSUME NEW x \in Greenlets PROVE OwnedBy(r, x) = Owns(Top(t), x)
        <3>1. deleteme' = deleteme /\ Top(t) \in Calls
            BY <1>1, Executing DEF ClearNext
        <3>2. \A x \in Greenlets : Owns(Top(t), x) \in Nat
            BY <3>1, OwnedOne
        <3> QED BY <3>1, <3>2 DEF Passed, In
    <2>1. OwnedBy(r, x) = OwnedBy(p, x) + OwnedBy(q, x)
        BY <1>7, <1>8, <1>9, Then
    <2>2. OwnedBy(p, x) = In(x \in S \ {g})
        BY <1>6, <1>7, OwnedClearing
    <2>3. OwnedBy(q, x) = Is(g, x)
        BY <1>6, <1>8, OwnedDropping, OccursOne
    <2>4. Owns(Top(t), x) = In(x \in S)
        BY <1>2, <1>4, OwnsClear
    <2> QED BY <2>1, <2>2, <2>3, <2>4 DEF In, Is
<1>11. StepOnly(t, c, r)
    BY <1>2, <1>5, <1>7, <1>8, <1>9 DEF StepOnly, ClearNext
<1> QED BY <1>1, <1>3, <1>9, <1>10, <1>11, QuietStep

\* The calls that switch own nothing.
LEMMA SwitchOwnsNothing ==
    ASSUME RefInv, NEW t \in Threads, NEW op, Executes(t, op),
           op \notin {"drop", "clear", "kill", "undo"}
    PROVE  \A x : Owns(Top(t), x) = 0
BY Executing, OwnsNothing

LEMMA RefuseKeeps ==
    ASSUME RefInv, NEW t \in Threads, Refuse(t)
    PROVE  RefInv'
<1>1. Executes(t, "switch")
    BY DEF Refuse
<1>2. /\ fault = "none" /\ Typed /\ current[t] \in Greenlets
      /\ Top(t) \in Calls /\ Top(t).op = "switch"
    BY <1>1, Executing
<1>3. PICK c \in Greenlets : c = current[t]
    BY <1>2
<1>4. Top(t).of \in Greenlets
    BY <1>2, CallKinds
<1>5. PICK p \in Greenlets \cup {NoOne} : p = parent[Top(t).of]
    BY <1>2, <1>4 DEF Typed
<1>6. \/ calls' = Replaced(c, <<>>)
      \/ p # NoOne /\ calls' = Replaced(c, <<SwitchTo(p, TRUE)>>)
    BY <1>3, <1>5 DEF Refuse, TryParent, NextParent
<1>7. PICK r : IsQuiet(r) /\ calls' = Replaced(c, r) /\ \A x : OwnedBy(r, x) = 0
    <2>1. CASE calls' = Replaced(c, <<>>)
        BY <2>1, QuietEmpty, OwnedEmpty
    <2>2. CASE p # NoOne /\ calls' = Replaced(c, <<SwitchTo(p, TRUE)>>)
        <3>1. PICK call \in Calls : call = SwitchTo(p, TRUE)
            BY <2>2, Constructors
        <3>2. ~Loud(call) /\ \A x : Owns(call, x) = 0
            BY <3>1, OwnsNothing DEF Loud, SwitchTo
        <3>3. IsQuiet(<<call>>) /\ \A x : OwnedBy(<<call>>, x) = 0
            BY <3>2, QuietOne, OwnedOne
        <3> QED BY <2>2, <3>1, <3>3
    <2> QED BY <1>6, <2>1, <2>2
<1>8. Passed(t, r)
    BY <1>1, <1>7, SwitchOwnsNothing DEF Passed, Refuse, In
<1>9. StepOnly(t, c, r)
    <2>1. fault' \in {"none", "no parent"}
        BY <1>2 DEF Refuse, TryParent
    <2> QED BY <1>7, <2>1 DEF StepOnly, Refuse
<1> QED BY <1>1, <1>3, <1>7, <1>8, <1>9, QuietStep

LEMMA GSwitchKeeps ==
    ASSUME RefInv, NEW t \in Threads, GSwitch(t)
    PROVE  RefInv'
<1>1. Executes(t, "switch")
    BY DEF GSwitch
<1>2. fault = "none" /\ Typed /\ current[t] \in Greenlets
    BY <1>1, Executing
<1>3. PICK c \in Greenlets : c = current[t]
    BY <1>2
<1>4. PICK g \in Greenlets : GSwitchstack(t, g, FALSE)
    BY DEF GSwitch
<1>5. PICK call \in Calls : call = Entering("jump", g, FALSE)
    BY Constructors
<1>6. ~Loud(call) /\ \A x : Owns(call, x) = 0
    BY <1>5, OwnsNothing DEF Loud, Entering
<1>7. PICK p : IsQuiet(p) /\ p = (IF g = c THEN <<>> ELSE <<call>>) /\ \A x : OwnedBy(p, x) = 0
    BY <1>6, QuietEmpty, QuietOne, OwnedEmpty, OwnedOne
<1>8. deleteme[t] \in SUBSET Greenlets
    BY <1>2 DEF Typed
<1>9. PICK q : IsQuiet(q) /\ q = Clearing(deleteme[t], FALSE)
    BY <1>8, QuietClearing
<1>10. PICK r : IsQuiet(r) /\ r = p \o q
    BY <1>7, <1>9, Then
<1>11. Passed(t, r)
    <2> SUFFICES ASSUME NEW x \in Greenlets
                 PROVE  OwnedBy(r, x) = Owns(Top(t), x) + In(x \in deleteme[t]) - In(x \in deleteme'[t])
        BY DEF Passed
    <2>1. OwnedBy(r, x) = OwnedBy(p, x) + OwnedBy(q, x)
        <3>1. IsQuiet(p) /\ IsQuiet(q) /\ r = p \o q
            BY <1>7, <1>9, <1>10
        <3> QED BY <3>1, Then
    <2>2. OwnedBy(q, x) = In(x \in deleteme[t])
        BY <1>8, <1>9, OwnedClearing
    <2>3. In(x \in deleteme'[t]) = 0
        BY <1>2, <1>4 DEF GSwitchstack, Typed, In
    <2>4. Owns(Top(t), x) = 0
        BY <1>1, SwitchOwnsNothing
    <2>5. In(x \in deleteme[t]) \in Nat
        BY DEF In
    <2> QED BY <1>7, <2>1, <2>2, <2>3, <2>4, <2>5
<1>12. StepOnly(t, c, r)
    BY <1>2, <1>3, <1>4, <1>5, <1>7, <1>9, <1>10 DEF StepOnly, GSwitch, GSwitchstack
<1> QED BY <1>1, <1>3, <1>10, <1>11, <1>12, QuietStep

LEMMA GInitialstubKeeps ==
    ASSUME RefInv, NEW t \in Threads, GInitialstub(t)
    PROVE  RefInv'
<1>1. Executes(t, "switch")
    BY DEF GInitialstub
<1>2. fault = "none" /\ Typed /\ current[t] \in Greenlets
    BY <1>1, Executing
<1>3. PICK c \in Greenlets : c = current[t]
    BY <1>2
<1>4. PICK g \in Greenlets :
          calls' = Replaced(c, <<Entering("start", g, TRUE)>> \o Clearing(deleteme[t], FALSE))
    BY <1>3 DEF GInitialstub
<1>5. PICK call \in Calls : call = Entering("start", g, TRUE)
    BY Constructors
<1>6. ~Loud(call) /\ \A x : Owns(call, x) = 0
    BY <1>5, OwnsNothing DEF Loud, Entering
<1>7. deleteme[t] \in SUBSET Greenlets
    BY <1>2 DEF Typed
<1>8. PICK s : IsQuiet(s) /\ s = Clearing(deleteme[t], FALSE)
    BY <1>7, QuietClearing
<1>9. PICK r : IsQuiet(r) /\ r = <<call>> \o s
    BY <1>6, <1>8, FirstThen
<1>10. Passed(t, r)
    <2> SUFFICES ASSUME NEW x \in Greenlets
                 PROVE  OwnedBy(r, x) = Owns(Top(t), x) + In(x \in deleteme[t]) - In(x \in deleteme'[t])
        BY DEF Passed
    <2>1. OwnedBy(r, x) = Owns(call, x) + OwnedBy(s, x)
        BY <1>8, <1>9, FirstThen
    <2>2. OwnedBy(s, x) = In(x \in deleteme[t])
        BY <1>7, <1>8, OwnedClearing
    <2>3. In(x \in deleteme'[t]) = 0
        BY <1>2 DEF GInitialstub, Typed, In
    <2>4. Owns(Top(t), x) = 0
        BY <1>1, SwitchOwnsNothing
    <2>5. In(x \in deleteme[t]) \in Nat
        BY DEF In
    <2> QED BY <1>6, <2>1, <2>2, <2>3, <2>4, <2>5
<1>11. StepOnly(t, c, r)
    BY <1>2, <1>4, <1>5, <1>8, <1>9 DEF StepOnly, GInitialstub
<1> QED BY <1>1, <1>3, <1>9, <1>10, <1>11, QuietStep

LEMMA DeallocIdleKeeps ==
    ASSUME RefInv, NEW t \in Threads, DeallocIdle(t)
    PROVE  RefInv'
<1>1. Executes(t, "dealloc")
    BY DEF DeallocIdle
<1>2. /\ fault = "none" /\ Typed /\ ControlInv /\ current[t] \in Greenlets
      /\ Top(t) \in Calls /\ Top(t).op = "dealloc"
      /\ Len(calls[current[t]]) \in DOMAIN calls[current[t]]
      /\ Top(t) = calls[current[t]][Len(calls[current[t]])]
    BY <1>1, Executing
<1>3. PICK c \in Greenlets : c = current[t]
    BY <1>2
<1>4. PICK g \in Greenlets : g = Top(t).of
    BY <1>2, CallKinds
<1>5. rc[g] = 0 /\ life[g] # "none"
    BY <1>2, <1>4 DEF ControlInv, CallsInv, CallOK
<1>6. PICK call \in Calls : call = Doing("free", g)
    BY Constructors
<1>7. PICK r : LoudAt(r, 1) /\ r = <<call>> /\ r[1] = call /\ 1 \in 1..Len(r)
    <2>1. LoudAt(<<call>>, 1) /\ <<call>>[1] = call /\ 1 \in 1..Len(<<call>>)
        BY LoudOne
    <2> QED BY <2>1
<1>8. Passed(t, r)
    <2> SUFFICES ASSUME NEW x \in Greenlets PROVE OwnedBy(r, x) = 0 /\ Owns(Top(t), x) = 0
        BY DEF Passed, DeallocIdle, In
    <2>1. Owns(call, x) = 0
        BY <1>6, OwnsNothing DEF Doing
    <2> QED BY <1>1, <1>7, <2>1, SwitchOwnsNothing, OwnedOne
<1>9. StepOnly(t, c, r)
    BY <1>2, <1>3, <1>4, <1>6, <1>7 DEF StepOnly, DeallocIdle
<1>10. PICK n : n = Len(calls[c]) - 1
    OBVIOUS
<1>11. CallOK(c, n + 1, call)'
    BY <1>5, <1>6 DEF CallOK, Doing, DeallocIdle
<1>12. Fresh(c, n, call)
    BY <1>6 DEF Fresh, Same, Doing
<1> QED BY <1>1, <1>3, <1>7, <1>8, <1>9, <1>10, <1>11, <1>12, LoudStep

LEMMA FreeKeeps ==
    ASSUME RefInv, NEW t \in Threads, Free(t)
    PROVE  RefInv'
<1>1. Executes(t, "free")
    BY DEF Free
<1>2. /\ fault = "none" /\ Typed /\ ControlInv /\ current[t] \in Greenlets
      /\ Top(t) \in Calls /\ Top(t).op = "free"
      /\ Len(calls[current[t]]) \in DOMAIN calls[current[t]]
      /\ Top(t) = calls[current[t]][Len(calls[current[t]])]
    BY <1>1, Executing
<1>3. PICK c \in Greenlets : c = current[t]
    BY <1>2
<1>4. PICK g \in Greenlets : g = Top(t).of
    BY <1>2, CallKinds
<1>5. rc[g] = 0 /\ life[g] # "none"
    BY <1>2, <1>4 DEF ControlInv, CallsInv, CallOK
<1>6. PICK call \in Calls : call = Doing("delete", g)
    BY Constructors
<1>7. PICK s : /\ IsQuiet(s) /\ s = (IF g \in Callbacks THEN <<Python>> ELSE <<>>)
               /\ \A x : OwnedBy(s, x) = 0
    <2>1. IsQuiet(<<Python>>) /\ \A x : OwnedBy(<<Python>>, x) = 0
        <3>1. PICK p \in Calls : p = Python
            BY Constructors
        <3>2. ~Loud(p) /\ \A x : Owns(p, x) = 0
            BY <3>1, OwnsNothing DEF Loud, Python
        <3>3. IsQuiet(<<p>>) /\ \A x : OwnedBy(<<p>>, x) = 0
            BY <3>2, QuietOne, OwnedOne
        <3> QED BY <3>1, <3>3
    <2> QED BY <2>1, QuietEmpty, OwnedEmpty
<1>8. PICK r : /\ LoudAt(r, 1) /\ r = <<call>> \o s /\ r[1] = call /\ 1 \in 1..Len(r)
               /\ \A x : OwnedBy(r, x) = Owns(call, x) + OwnedBy(s, x)
    <2>1. /\ LoudAt(<<call>> \o s, 1) /\ (<<call>> \o s)[1] = call
          /\ 1 \in 1..Len(<<call>> \o s)
        BY <1>7, FirstThen
    <2>2. \A x : OwnedBy(<<call>> \o s, x) = Owns(call, x) + OwnedBy(s, x)
        BY <1>7, FirstThen
    <2> QED BY <2>1, <2>2
<1>9. Passed(t, r)
    <2> SUFFICES ASSUME NEW x \in Greenlets PROVE OwnedBy(r, x) = 0 /\ Owns(Top(t), x) = 0
        BY DEF Passed, Free, In
    <2>1. Owns(call, x) = 0
        BY <1>6, OwnsNothing DEF Doing
    <2> QED BY <1>1, <1>7, <1>8, <2>1, SwitchOwnsNothing
<1>10. StepOnly(t, c, r)
    BY <1>2, <1>3, <1>4, <1>6, <1>7, <1>8 DEF StepOnly, Free
<1>11. PICK n : n = Len(calls[c]) - 1
    OBVIOUS
<1>12. CallOK(c, n + 1, call)'
    BY <1>5, <1>6 DEF CallOK, Doing, Free
<1>13. Fresh(c, n, call)
    BY <1>6 DEF Fresh, Same, Doing
<1> QED BY <1>1, <1>3, <1>8, <1>9, <1>10, <1>11, <1>12, <1>13, LoudStep

LEMMA SwitchstackKeeps ==
    ASSUME RefInv, NEW t \in Threads, Switchstack(t)
    PROVE  RefInv'
<1>1. Executes(t, "stack") /\ GSwitchstack(t, Top(t).of, TRUE)
    BY DEF Switchstack
<1>2. /\ fault = "none" /\ Typed /\ ControlInv /\ current[t] \in Greenlets
      /\ thread[t] = "running"
      /\ Top(t) \in Calls /\ Top(t).op = "stack"
      /\ Len(calls[current[t]]) \in DOMAIN calls[current[t]]
      /\ Top(t) = calls[current[t]][Len(calls[current[t]])]
    BY <1>1, Executing
<1>3. PICK c \in Greenlets : c = current[t]
    BY <1>2
<1>4. PICK g \in Greenlets : g = Top(t).of
    BY <1>2, CallKinds
<1>5. Top(t).first = TRUE
    BY <1>2, CallKinds
<1>6. life[g] \in {"dead", "freed"} /\ ~Runs(g)
    BY <1>2, <1>4, <1>5 DEF ControlInv, CallsInv, CallOK
<1>7. g # c
    BY <1>2, <1>3, <1>6 DEF Runs
<1>8. PICK call \in Calls : call = Entering("jump", g, TRUE)
    BY Constructors
<1>9. deleteme[t] \in SUBSET Greenlets
    BY <1>2 DEF Typed
<1>10. PICK s : IsQuiet(s) /\ s = Clearing(deleteme[t], FALSE)
    BY <1>9, QuietClearing
<1>11. PICK r : /\ LoudAt(r, 1) /\ r = <<call>> \o s /\ r[1] = call /\ 1 \in 1..Len(r)
                /\ \A x : OwnedBy(r, x) = Owns(call, x) + OwnedBy(s, x)
    <2>1. /\ LoudAt(<<call>> \o s, 1) /\ (<<call>> \o s)[1] = call
          /\ 1 \in 1..Len(<<call>> \o s)
        BY <1>10, FirstThen
    <2>2. \A x : OwnedBy(<<call>> \o s, x) = Owns(call, x) + OwnedBy(s, x)
        BY <1>10, FirstThen
    <2> QED BY <2>1, <2>2
<1>12. Passed(t, r)
    <2> SUFFICES ASSUME NEW x \in Greenlets
                 PROVE  OwnedBy(r, x) = Owns(Top(t), x) + In(x \in deleteme[t]) - In(x \in deleteme'[t])
        BY DEF Passed
    <2>1. OwnedBy(r, x) = Owns(call, x) + OwnedBy(s, x)
        BY <1>11
    <2>2. OwnedBy(s, x) = In(x \in deleteme[t])
        BY <1>9, <1>10, OwnedClearing
    <2>3. In(x \in deleteme'[t]) = 0
        BY <1>1, <1>2 DEF GSwitchstack, Typed, In
    <2>4. Owns(Top(t), x) = 0
        BY <1>1, SwitchOwnsNothing
    <2>5. In(x \in deleteme[t]) \in Nat
        BY DEF In
    <2>6. Owns(call, x) = 0
        BY <1>8, OwnsNothing DEF Entering
    <2> QED BY <2>1, <2>2, <2>3, <2>4, <2>5, <2>6
<1>13. StepOnly(t, c, r)
    BY <1>1, <1>2, <1>3, <1>4, <1>7, <1>8, <1>10, <1>11 DEF StepOnly, Switchstack, GSwitchstack
<1>14. PICK n : n = Len(calls[c]) - 1
    OBVIOUS
<1>15. CallOK(c, n + 1, call)'
    <2>1. ~Runs(g)'
        BY <1>6 DEF Runs, Switchstack
    <2> QED BY <1>6, <1>8, <2>1 DEF CallOK, Entering, Switchstack
<1>16. Fresh(c, n, call)
    <2>1. ASSUME NEW d, Same(d, call) \/ Same(call, d) PROVE Same(d, Top(t))
        BY <1>2, <1>4, <1>5, <1>8, <2>1 DEF Same, Entering
    <2> QED BY <1>1, <1>3, <1>14, <2>1, FreshAfter
<1> QED BY <1>1, <1>3, <1>11, <1>12, <1>13, <1>14, <1>15, <1>16, LoudStep

LEMMA NewStepKeeps ==
    ASSUME RefInv, NEW t \in Threads, NewStep(t)
    PROVE  RefInv'
<1>1. Executes(t, "new")
    BY DEF NewStep
<1>2. /\ fault = "none" /\ Typed /\ ControlInv /\ current[t] \in Greenlets
      /\ thread[t] = "running" /\ calls[current[t]] # <<>>
      /\ Top(t) = Last(calls[current[t]])
      /\ \A x \in Greenlets : rc[x] = References(x) /\ rc[x] \in Nat
      /\ Top(t) \in Calls /\ Top(t).op = "new"
      /\ Len(calls[current[t]]) \in DOMAIN calls[current[t]]
      /\ Top(t) = calls[current[t]][Len(calls[current[t]])]
    BY <1>1, Executing
<1>3. PICK c \in Greenlets : c = current[t]
    BY <1>2
<1>4. PICK g \in Greenlets : g = Top(t).of
    BY <1>2, CallKinds
<1>5. /\ life' = [life EXCEPT ![g] = "new"]
      /\ parent' = [parent EXCEPT ![g] = c]
      /\ asked' = [asked EXCEPT ![g] = c]
      /\ held' = [held EXCEPT ![c] = @ \cup {g}]
      /\ rc' = [rc EXCEPT ![c] = @ + 1, ![g] = 1]
      /\ calls' = Replaced(c, <<>>)
      /\ UNCHANGED <<home, attr, current, thread, deleteme, fault, lost, runs>>
    BY <1>3, <1>4 DEF NewStep
<1>6. life[g] = "none"
    BY <1>2, <1>4 DEF ControlInv, CallsInv, CallOK
<1>7. rc[g] = 0 /\ parent[g] = NoOne
    BY <1>2, <1>6 DEF ControlInv, NoneInv
<1>8. rc[c] >= 1
    BY <1>2, <1>3, Counted
<1>9. g # c /\ c \in Holders
    BY <1>7, <1>8 DEF Holders
<1>10. g \notin held[c]
    BY <1>2, <1>7, <1>9, Counted
<1>11. PICK r : r \in Seq(Calls) /\ r = <<>>
    <2>1. <<>> \in Seq(Calls)
        OBVIOUS
    <2> QED BY <2>1
<1>12. calls' = Replaced(c, r) /\ calls[c] # <<>>
    BY <1>2, <1>3, <1>5, <1>11
<1>13. rc \in [Greenlets -> Int]
    BY <1>2 DEF Typed
<1>14. Typed'
    <2>1. calls' \in [Greenlets -> Seq(Calls)]
        BY <1>2, <1>11, <1>12, ReplacedOwned
    <2>2. /\ rc' \in [Greenlets -> Int] /\ parent' \in [Greenlets -> Greenlets \cup {NoOne}]
          /\ asked' \in [Greenlets -> Greenlets \cup {NoOne}]
        BY <1>2, <1>5, <1>13, SMTT(30) DEF Typed
    <2>3. /\ life' \in [Greenlets -> {"none", "new", "active", "dead", "freed"}]
          /\ held' \in [Holders -> SUBSET Greenlets]
        BY <1>2, <1>5, <1>9 DEF Typed
    <2> QED BY <1>2, <1>5, <2>1, <2>2, <2>3 DEF Typed
<1>15. ASSUME NEW x \in Greenlets PROVE rc'[x] = References(x)'
    <2>1. /\ ParentOnly(g) /\ parent'[g] = c
          /\ HeldOnly(c) /\ held'[c] = held[c] \cup {g}
        BY <1>2, <1>5, <1>9 DEF ParentOnly, HeldOnly, Typed
    <2>2. Pointing(parent', x) = Pointing(parent, x) - Is(parent[g], x) + Is(parent'[g], x)
        BY <1>2, <1>14, <2>1, Updates
    <2>3. Holding(held', x) = Holding(held, x) - In(x \in held[c]) + In(x \in held'[c])
        BY <1>2, <1>9, <1>14, <2>1, Updates
    <2>4. OwnedIn(calls', Greenlets, x)
              = OwnedIn(calls, Greenlets, x) - Owns(Last(calls[c]), x) + OwnedBy(r, x)
        BY <1>2, <1>11, <1>12, ReplacedOwned
    <2>5. OwnedBy(r, x) = 0 /\ Owns(Last(calls[c]), x) = 0
        BY <1>2, <1>3, <1>11, OwnedEmpty, OwnsNothing
    <2>6. rc'[x] = rc[x] + Is(c, x) + Is(g, x)
        BY <1>5, <1>7, <1>9, <1>13 DEF Is
    <2>7. UNCHANGED <<home, attr, current, deleteme, lost>> /\ Stated(x)' = Stated(x)
        BY <1>5 DEF Stated
    <2>8. Natural(x) /\ rc[x] = References(x)
        BY <1>2, RefsNat
    <2>9. Pointing(parent', x) = Pointing(parent, x) + Is(c, x) /\ Is(c, x) \in Nat
        BY <1>7, <2>1, <2>2, <2>8, ThreadsAssumption DEF Is, Natural
    <2>10. Holding(held', x) = Holding(held, x) + Is(g, x) /\ Is(g, x) \in Nat
        BY <1>10, <2>1, <2>3, <2>8 DEF In, Is, Natural
    <2> QED BY <2>4, <2>5, <2>6, <2>7, <2>8, <2>9, <2>10 DEF References, Natural
<1>16. ControlInv'
    <2>1. calls'[c] = Front(calls[c]) \o r /\ OthersKept(c)
        BY <1>2, <1>11, <1>12, ReplacedOwned
    <2>2. CountsKept
        <3>1. ~BeingFreed(g)
            BY <1>2, <1>6 DEF BeingFreed, ControlInv, CallsInv, CallOK
        <3>2. life'[g] = "new"
            BY <1>2, <1>5 DEF Typed
        <3>3. \A x \in Greenlets \ {g} : rc[x] = 0 => rc'[x] = 0
            BY <1>5, <1>8, <1>13
        <3>4. \A x \in Greenlets \ {g} : parent'[x] = parent[x]
            BY <1>2, <1>5 DEF Typed
        <3> QED BY <3>1, <3>2, <3>3, <3>4 DEF CountsKept
    <2>3. PICK n : n = Len(calls[c]) - 1
        OBVIOUS
    <2>4. LivesKept(c, n)
        <3>1. \A h, i, d : Remains(c, n, h, i, d) => ~(d.op = "new" /\ d.of = g)
            <4> SUFFICES ASSUME NEW h, NEW i, NEW d, Remains(c, n, h, i, d),
                                d.op = "new", d.of = g
                         PROVE  FALSE
                OBVIOUS
            <4>1. h = c /\ i = Len(calls[c])
                BY <1>2, <1>3, <1>4 DEF ControlInv, UniqueInv, Remains, Same
            <4>2. Len(calls[c]) \in Nat
                BY <1>2 DEF Typed
            <4> QED BY <2>3, <4>1, <4>2 DEF Remains
        <3>2. \A x \in Greenlets \ {g} : life'[x] = life[x]
            BY <1>2, <1>5 DEF Typed
        <3> QED BY <1>6, <3>1, <3>2 DEF LivesKept, Onward
    <2>5. RunnersKept
        <3>1. ~Runs(g)
            BY <1>2, <1>6 DEF Runs, ControlInv, CurrentInv
        <3> QED BY <1>2, <1>5, <3>1 DEF RunnersKept, Typed
    <2>6. IsQuiet(r)
        BY <1>11, QuietEmpty
    <2> QED BY <1>1, <1>3, <1>5, <2>1, <2>2, <2>3, <2>4, <2>5, <2>6, QuietAnswer
<1> QED BY <1>2, <1>5, <1>14, <1>15, <1>16, TypedWhenExactNext
        DEF RefcountExact, Controlled, NotMurdered

LEMMA CurrentStepKeeps ==
    ASSUME RefInv, NEW t \in Threads, CurrentStep(t)
    PROVE  RefInv'
<1>1. Executes(t, "current")
    BY DEF CurrentStep
<1>2. /\ fault = "none" /\ Typed /\ ControlInv /\ current[t] \in Greenlets
      /\ thread[t] = "running" /\ calls[current[t]] # <<>>
      /\ Top(t) = Last(calls[current[t]]) /\ Top(t).op = "current"
      /\ \A x \in Greenlets : rc[x] = References(x) /\ rc[x] \in Nat
    BY <1>1, Executing
<1>3. PICK c \in Greenlets : c = current[t]
    BY <1>2
<1>4. PICK kept : kept = (MayHold[c] \cap {c}) \ held[c]
    OBVIOUS
<1>5. /\ held' = [held EXCEPT ![c] = @ \cup kept]
      /\ rc' = [rc EXCEPT ![c] = @ + Cardinality(kept)]
      /\ calls' = Replaced(c, <<>>)
      /\ UNCHANGED <<life, parent, home, attr, current, thread, deleteme, fault,
                     lost, asked, runs>>
    BY <1>3, <1>4 DEF CurrentStep
<1>6. Cardinality(kept) = In(c \in kept) /\ kept \subseteq {c} /\ In(c \in kept) \in Nat
    <2>1. kept = {} \/ kept = {c}
        BY <1>4
    <2> QED BY <2>1, FS_EmptySet, FS_Singleton DEF In
<1>7. rc[c] >= 1 /\ c \in Holders
    BY <1>2, <1>3, Counted DEF Holders
<1>8. PICK r : r \in Seq(Calls) /\ r = <<>>
    <2>1. <<>> \in Seq(Calls)
        OBVIOUS
    <2> QED BY <2>1
<1>9. calls' = Replaced(c, r) /\ calls[c] # <<>>
    BY <1>2, <1>3, <1>5, <1>8
<1>10. rc \in [Greenlets -> Int]
    BY <1>2 DEF Typed
<1>11. Typed'
    <2>1. calls' \in [Greenlets -> Seq(Calls)]
        BY <1>2, <1>8, <1>9, ReplacedOwned
    <2>2. rc' \in [Greenlets -> Int]
        BY <1>5, <1>6, <1>10
    <2>3. held' \in [Holders -> SUBSET Greenlets]
        BY <1>2, <1>5, <1>6, <1>7 DEF Typed
    <2> QED BY <1>2, <1>5, <2>1, <2>2, <2>3 DEF Typed
<1>12. ASSUME NEW x \in Greenlets PROVE rc'[x] = References(x)'
    <2>1. HeldOnly(c) /\ held'[c] = held[c] \cup kept
        BY <1>2, <1>5, <1>7 DEF HeldOnly, Typed
    <2>2. Holding(held', x) = Holding(held, x) - In(x \in held[c]) + In(x \in held'[c])
        BY <1>2, <1>7, <1>11, <2>1, Updates
    <2>3. OwnedIn(calls', Greenlets, x)
              = OwnedIn(calls, Greenlets, x) - Owns(Last(calls[c]), x) + OwnedBy(r, x)
        BY <1>2, <1>8, <1>9, ReplacedOwned
    <2>4. OwnedBy(r, x) = 0 /\ Owns(Last(calls[c]), x) = 0
        BY <1>2, <1>3, <1>8, OwnedEmpty, OwnsNothing
    <2>5. rc'[x] = rc[x] + In(x \in kept) /\ In(x \in kept) \in Nat
        BY <1>5, <1>6, <1>10 DEF In
    <2>6. UNCHANGED <<parent, home, attr, current, deleteme, lost>> /\ Stated(x)' = Stated(x)
        BY <1>5 DEF Stated
    <2>7. Natural(x) /\ rc[x] = References(x)
        BY <1>2, RefsNat
    <2>8. Holding(held', x) = Holding(held, x) + In(x \in kept)
        <3>1. Holding(held, x) \in Nat
            BY <2>7 DEF Natural
        <3> QED BY <1>4, <2>1, <2>2, <3>1 DEF In
    <2> QED BY <2>3, <2>4, <2>5, <2>6, <2>7, <2>8 DEF References, Natural
<1>13. ControlInv'
    <2>1. calls'[c] = Front(calls[c]) \o r /\ OthersKept(c)
        BY <1>2, <1>8, <1>9, ReplacedOwned
    <2>2. CountsKept
        <3>1. \A x \in Greenlets : rc[x] = 0 => rc'[x] = 0
            BY <1>5, <1>7, <1>10
        <3> QED BY <1>5, <3>1 DEF CountsKept
    <2>3. LivesKept(c, Len(calls[c]) - 1) /\ RunnersKept
        BY <1>5 DEF LivesKept, Onward, RunnersKept
    <2>4. IsQuiet(r)
        BY <1>8, QuietEmpty
    <2> QED BY <1>1, <1>3, <1>5, <2>1, <2>2, <2>3, <2>4, QuietAnswer
<1> QED BY <1>2, <1>5, <1>11, <1>12, <1>13, TypedWhenExactNext
        DEF RefcountExact, Controlled, NotMurdered

\* What the calls r make of the calls of c
LEMMA Answered ==
    ASSUME Typed, NEW c \in Greenlets, calls[c] # <<>>, NEW n, n = Len(calls[c]) - 1,
           NEW r, r \in Seq(Calls),
           calls'[c] = Front(calls[c]) \o r, OthersKept(c)
    PROVE  /\ Len(calls'[c]) = n + Len(r) /\ n \in Nat
           /\ IsQuiet(r) => Kept(calls, calls', c, n, 0, Python)
           /\ \A k \in 1..Len(r) : LoudAt(r, k) => Kept(calls, calls', c, n, n + k, r[k])
<1>1. calls \in [Greenlets -> Seq(Calls)] /\ calls[c] \in Seq(Calls)
    BY DEF Typed
<1>2. n \in 0..Len(calls[c]) /\ n \in Nat
    BY <1>1, EmptySeq
<1>3. PICK ds : ds = calls'
    OBVIOUS
<1>4. \A h \in Greenlets \ {c} : ds[h] = calls[h] \/ ds[h] = <<>>
    BY <1>3 DEF OthersKept
<1>5. ds[c] = SubSeq(calls[c], 1, n) \o r
    BY <1>3 DEF Front
<1>6. Len(ds[c]) = n + Len(r)
    BY <1>1, <1>2, <1>4, <1>5, KeptBy
<1>7. IsQuiet(r) => Kept(calls, ds, c, n, 0, Python)
    BY <1>1, <1>2, <1>4, <1>5, KeptBy
<1>8. \A k \in 1..Len(r) : LoudAt(r, k) => Kept(calls, ds, c, n, n + k, r[k])
    BY <1>1, <1>2, <1>4, <1>5, KeptBy
<1> QED BY <1>2, <1>3, <1>6, <1>7, <1>8

\* A greenlet is not freed later if it was not and the new call does not.
LEMMA FreedBefore ==
    ASSUME NEW c \in Greenlets, NEW n, NEW j, NEW call, Kept(calls, calls', c, n, j, call),
           NEW g \in Greenlets, ~BeingFreed(g),
           call.op \in {"free", "delete"} => call.of # g
    PROVE  ~BeingFreed(g)'
<1> SUFFICES ASSUME NEW h \in Greenlets, NEW i \in DOMAIN calls'[h],
                    calls'[h][i].op \in {"free", "delete"}, calls'[h][i].of = g
             PROVE  FALSE
    BY DEF BeingFreed
<1>1. Loud(calls'[h][i])
    BY DEF Loud
<1>2. i \in DOMAIN calls[h] /\ calls'[h][i] = calls[h][i]
    BY <1>1 DEF Kept
<1> QED BY <1>2 DEF BeingFreed

LEMMA DropKeeps ==
    ASSUME RefInv, NEW t \in Threads, Drop(t)
    PROVE  RefInv'
<1>1. Executes(t, "drop")
    BY DEF Drop
<1>2. /\ fault = "none" /\ Typed /\ ControlInv /\ current[t] \in Greenlets
      /\ thread[t] = "running" /\ calls[current[t]] # <<>>
      /\ Top(t) = Last(calls[current[t]])
      /\ \A x \in Greenlets : rc[x] = References(x) /\ rc[x] \in Nat
      /\ Top(t) \in Calls /\ Top(t).op = "drop"
    BY <1>1, Executing
<1>3. PICK c \in Greenlets : c = current[t]
    BY <1>2
<1>4. PICK s : s \in Seq(Greenlets) /\ s # <<>> /\ s = Top(t).todo
    BY <1>2, CallKinds
<1>5. PICK g \in Greenlets : g = Head(s)
    BY <1>4, OccursHead
<1>6. PICK z : z \in Seq(Greenlets) /\ z = Tail(s)
    BY <1>4, OccursHead
<1>7. PICK rest : rest \in Seq(Calls) /\ rest = Dropping(z)
    BY <1>6, OwnedDropping
<1>8. PICK call \in Calls : call = Doing("dealloc", g)
    BY Constructors
<1>9. PICK r : /\ r \in Seq(Calls)
               /\ r = (IF rc[g] = 1 THEN Append(rest, call) ELSE rest)
    BY <1>7, AppendProperties
<1>10. /\ rc' = [rc EXCEPT ![g] = @ - 1]
       /\ calls' = Replaced(c, r)
       /\ UNCHANGED <<life, parent, home, attr, held, current, thread, deleteme, fault,
                      lost, asked, runs>>
    BY <1>3, <1>4, <1>5, <1>6, <1>7, <1>8, <1>9 DEF Drop
<1>11. IsQuiet(rest)
    BY <1>6, <1>7, QuietDropping
<1>12. calls[c] # <<>>
    BY <1>2, <1>3
<1>13. rc \in [Greenlets -> Int]
    BY <1>2 DEF Typed
<1>14. ASSUME NEW x \in Greenlets
       PROVE  /\ Owns(Last(calls[c]), x) = Is(g, x) + Occurs(z, x) /\ Occurs(z, x) \in Nat
              /\ OwnedBy(r, x) = Occurs(z, x)
    <2>1. Owns(Last(calls[c]), x) = Occurs(s, x)
        BY <1>2, <1>3, <1>4, OwnsDrop
    <2>2. Occurs(s, x) = Is(g, x) + Occurs(z, x)
        BY <1>4, <1>5, <1>6, OccursHead
    <2>3. OwnedBy(rest, x) = Occurs(z, x) /\ Occurs(z, x) \in Nat
        BY <1>6, <1>7, OwnedDropping, OccursNat
    <2>4. OwnedBy(Append(rest, call), x) = OwnedBy(rest, x)
        <3>1. Append(rest, call) = rest \o <<call>> /\ <<call>> \in Seq(Calls)
            BY <1>7, AppendIsConcat
        <3>2. OwnedBy(rest \o <<call>>, x) = OwnedBy(rest, x) + OwnedBy(<<call>>, x)
            BY <1>7, <3>1, OwnedConcat
        <3>3. OwnedBy(<<call>>, x) = 0
            BY <1>8, OwnedOne, OwnsNothing DEF Doing
        <3> QED BY <2>3, <3>1, <3>2, <3>3
    <2> QED BY <1>9, <2>1, <2>2, <2>3, <2>4
<1>15. rc[g] >= 1
    <2>1. rc[g] >= Owns(Last(calls[c]), g)
        BY <1>2, <1>12, Counted
    <2>2. Owns(Last(calls[c]), g) >= 1
        BY <1>14 DEF Is
    <2>3. rc[g] \in Nat /\ Owns(Last(calls[c]), g) \in Nat
        BY <1>2, <1>14 DEF Is
    <2> QED BY <2>1, <2>2, <2>3
<1>16. Typed'
    <2>1. calls' \in [Greenlets -> Seq(Calls)]
        BY <1>2, <1>9, <1>10, <1>12, ReplacedOwned
    <2>2. rc' \in [Greenlets -> Int]
        BY <1>10, <1>13
    <2> QED BY <1>2, <1>10, <2>1, <2>2 DEF Typed
<1>17. ASSUME NEW x \in Greenlets PROVE rc'[x] = References(x)'
    <2>1. OwnedIn(calls', Greenlets, x)
              = OwnedIn(calls, Greenlets, x) - Owns(Last(calls[c]), x) + OwnedBy(r, x)
        BY <1>2, <1>9, <1>10, <1>12, ReplacedOwned, ZenonT(30)
    <2>2. /\ Owns(Last(calls[c]), x) = Is(g, x) + Occurs(z, x) /\ Occurs(z, x) \in Nat
          /\ OwnedBy(r, x) = Occurs(z, x)
        BY <1>14
    <2>3. rc'[x] = rc[x] - Is(g, x) /\ Is(g, x) \in Nat
        BY <1>10, <1>13 DEF Is
    <2>4. UNCHANGED <<parent, home, attr, held, current, deleteme, lost>> /\ Stated(x)' = Stated(x)
        BY <1>10 DEF Stated
    <2>5. Natural(x) /\ rc[x] = References(x)
        BY <1>2, RefsNat
    <2> QED BY <2>1, <2>2, <2>3, <2>4, <2>5 DEF References, Natural
<1>18. ControlInv'
    <2>1. calls'[c] = Front(calls[c]) \o r /\ OthersKept(c)
        BY <1>2, <1>9, <1>10, <1>12, ReplacedOwned
    <2>2. PICK n : n = Len(calls[c]) - 1
        OBVIOUS
    <2>3. CountsKept
        <3>1. \A x \in Greenlets : rc[x] = 0 => rc'[x] = 0
            BY <1>10, <1>13, <1>15
        <3> QED BY <1>10, <3>1 DEF CountsKept
    <2>4. LivesKept(c, n) /\ RunnersKept
        BY <1>10 DEF LivesKept, Onward, RunnersKept
    <2>5. CASE rc[g] # 1
        <3>1. IsQuiet(r)
            BY <1>9, <1>11, <2>5
        <3> QED BY <1>1, <1>3, <1>10, <2>1, <2>2, <2>3, <2>4, <3>1, QuietAnswer
    <2>6. CASE rc[g] = 1
        <3>1. PICK k \in Nat : k = Len(rest) + 1
            BY <1>11, LoudAppend
        <3>2. /\ LoudAt(r, k) /\ r[k] = call /\ Len(r) = k /\ k \in 1..Len(r)
            BY <1>9, <1>11, <2>6, <3>1, LoudAppend
        <3>3. Kept(calls, calls', c, n, n + k, call) /\ Len(calls'[c]) = n + k
            <4>1. Kept(calls, calls', c, n, n + k, r[k])
                BY <1>2, <1>9, <1>12, <2>1, <2>2, <3>2, Answered
            <4>2. Len(calls'[c]) = n + Len(r)
                BY <1>2, <1>9, <1>12, <2>1, <2>2, Answered, ZenonT(30)
            <4> QED BY <3>2, <4>1, <4>2
        <3>4. ~BeingFreed(g)'
            <4>1. ~BeingFreed(g)
                BY <1>2, <2>6 DEF BeingFreed, ControlInv, CallsInv, CallOK
            <4> QED BY <1>8, <3>3, <4>1, FreedBefore DEF Doing
        <3>5. life[g] # "none" /\ rc'[g] = 0
            BY <1>2, <1>10, <1>13, <2>6 DEF ControlInv, NoneInv
        <3>6. Runs(c)'
            BY <1>2, <1>3, <1>10 DEF Runs
        <3>7. CallOK(c, n + k, call)'
            BY <1>8, <1>10, <3>3, <3>4, <3>5, <3>6 DEF CallOK, Doing
        <3>8. Fresh(c, n, call)
            BY <1>8 DEF Fresh, Same, Doing
        <3> QED BY <1>1, <1>3, <1>10, <2>1, <2>2, <2>3, <2>4, <3>2, <3>7, <3>8, LoudAnswer
    <2> QED BY <2>5, <2>6
<1> QED BY <1>2, <1>10, <1>16, <1>17, <1>18, TypedWhenExactNext
        DEF RefcountExact, Controlled, NotMurdered

LEMMA KillReturnKeeps ==
    ASSUME RefInv, NEW t \in Threads, KillReturn(t)
    PROVE  RefInv'
<1>1. Executes(t, "kill")
    BY DEF KillReturn
<1>2. /\ fault = "none" /\ Typed /\ ControlInv /\ current[t] \in Greenlets
      /\ thread[t] = "running" /\ calls[current[t]] # <<>>
      /\ Top(t) = Last(calls[current[t]])
      /\ \A x \in Greenlets : rc[x] = References(x) /\ rc[x] \in Nat
      /\ Top(t) \in Calls /\ Top(t).op = "kill"
    BY <1>1, Executing
<1>3. PICK c \in Greenlets : c = current[t]
    BY <1>2
<1>4. PICK g \in Greenlets : g = Top(t).of
    BY <1>2, CallKinds
<1>5. PICK old \in Greenlets \cup {NoOne} : old = Top(t).old
    BY <1>2, CallKinds
<1>6. PICK p \in Greenlets \cup {NoOne} : p = parent[g]
    BY <1>2 DEF Typed
<1>7. PICK s : s \in Seq(Greenlets) /\ s = Present(p)
    BY OccursPresent
<1>8. PICK z : IsQuiet(z) /\ z = Dropping(s)
    BY <1>7, QuietDropping
<1>9. PICK call \in Calls : call = Doing("undo", g)
    BY Constructors
<1>10. PICK r : r \in Seq(Calls) /\ r = <<call>> \o z
    BY <1>8, FirstThen
<1>11. /\ parent' = [parent EXCEPT ![g] = old]
       /\ fault' \in {"none", "cyclic"}
       /\ calls' = Replaced(c, r)
       /\ UNCHANGED <<life, home, attr, held, rc, current, thread, deleteme, lost, asked, runs>>
    BY <1>3, <1>4, <1>5, <1>6, <1>7, <1>8, <1>9, <1>10 DEF KillReturn, OldParent
<1>12. calls[c] # <<>>
    BY <1>2, <1>3
<1>13. \A x \in Greenlets : Owns(Last(calls[c]), x) = Is(g, x) + Is(old, x)
    BY <1>2, <1>3, <1>4, <1>5, OwnsKill
<1>14. Typed'
    <2>1. calls' \in [Greenlets -> Seq(Calls)]
        BY <1>2, <1>10, <1>11, <1>12, ReplacedOwned
    <2>2. parent' \in [Greenlets -> Greenlets \cup {NoOne}]
        BY <1>2, <1>11 DEF Typed
    <2> QED BY <1>2, <1>11, <2>1, <2>2 DEF Typed
<1>15. ASSUME NEW x \in Greenlets PROVE rc'[x] = References(x)'
    <2>1. ParentOnly(g) /\ parent'[g] = old
        BY <1>2, <1>11 DEF ParentOnly, Typed
    <2>2. Pointing(parent', x) = Pointing(parent, x) - Is(p, x) + Is(old, x)
        <3>1. Pointing(parent', x) = Pointing(parent, x) - Is(parent[g], x) + Is(parent'[g], x)
            BY <1>2, <1>14, <2>1, Updates
        <3> QED BY <1>6, <2>1, <3>1
    <2>3. OwnedIn(calls', Greenlets, x)
              = OwnedIn(calls, Greenlets, x) - Owns(Last(calls[c]), x) + OwnedBy(r, x)
        BY <1>2, <1>10, <1>11, <1>12, ReplacedOwned
    <2>4. OwnedBy(r, x) = Is(g, x) + Is(p, x)
        <3>1. OwnedBy(r, x) = Owns(call, x) + OwnedBy(z, x)
            BY <1>8, <1>10, FirstThen
        <3>2. Owns(call, x) = Is(g, x)
            BY <1>9, OwnsUndo DEF Doing
        <3>3. OwnedBy(z, x) = Is(p, x)
            BY <1>7, <1>8, OwnedDropping, OccursPresent
        <3> QED BY <3>1, <3>2, <3>3
    <2>5. Is(g, x) \in Nat /\ Is(p, x) \in Nat /\ Is(old, x) \in Nat
        BY DEF Is
    <2>6. UNCHANGED <<rc, home, attr, held, current, deleteme, lost>> /\ Stated(x)' = Stated(x)
        BY <1>11 DEF Stated
    <2>7. Natural(x) /\ rc[x] = References(x)
        BY <1>2, RefsNat
    <2>8. Owns(Last(calls[c]), x) = Is(g, x) + Is(old, x)
        BY <1>13
    <2> QED BY <2>2, <2>3, <2>4, <2>5, <2>6, <2>7, <2>8 DEF References, Natural
<1>16. ControlInv'
    <2>1. calls'[c] = Front(calls[c]) \o r /\ OthersKept(c)
        BY <1>2, <1>10, <1>11, <1>12, ReplacedOwned
    <2>2. CountsKept
        <3>1. rc[g] # 0
            <4>1. rc[g] >= Owns(Last(calls[c]), g)
                BY <1>2, <1>12, Counted
            <4>2. Owns(Last(calls[c]), g) \in Nat /\ Owns(Last(calls[c]), g) >= 1
                BY <1>13 DEF Is
            <4> QED BY <4>1, <4>2
        <3> QED BY <1>2, <1>11, <3>1 DEF CountsKept, Typed
    <2>3. LivesKept(c, Len(calls[c]) - 1) /\ RunnersKept
        BY <1>11 DEF LivesKept, Onward, RunnersKept
    <2>4. IsQuiet(r)
        <3>1. ~Loud(call)
            BY <1>9 DEF Loud, Doing
        <3> QED BY <1>8, <1>10, <3>1, FirstThen
    <2> QED BY <1>1, <1>3, <1>11, <2>1, <2>2, <2>3, <2>4, QuietAnswer
<1> QED BY <1>11, <1>14, <1>15, <1>16, TypedWhenExactNext
        DEF RefcountExact, Controlled, NotMurdered

LEMMA UndoKeeps ==
    ASSUME RefInv, NEW t \in Threads, Undo(t)
    PROVE  RefInv'
<1>1. Executes(t, "undo")
    BY DEF Undo
<1>2. /\ fault = "none" /\ Typed /\ ControlInv /\ current[t] \in Greenlets
      /\ thread[t] = "running" /\ calls[current[t]] # <<>>
      /\ Top(t) = Last(calls[current[t]])
      /\ \A x \in Greenlets : rc[x] = References(x) /\ rc[x] \in Nat
      /\ Top(t) \in Calls /\ Top(t).op = "undo"
    BY <1>1, Executing
<1>3. PICK c \in Greenlets : c = current[t]
    BY <1>2
<1>4. PICK g \in Greenlets : g = Top(t).of
    BY <1>2, CallKinds
<1>5. PICK leaked \in BOOLEAN : leaked = (rc[g] = 1 /\ life[g] = "active")
    OBVIOUS
<1>6. PICK freed \in BOOLEAN : freed = (rc[g] = 1 /\ life[g] # "active")
    OBVIOUS
<1>7. PICK call \in Calls : call = Doing("free", g)
    BY Constructors
<1>8. PICK r : r \in Seq(Calls) /\ r = (IF freed THEN <<call>> ELSE <<>>)
    <2>1. <<call>> \in Seq(Calls) /\ <<>> \in Seq(Calls)
        OBVIOUS
    <2> QED BY <2>1
<1>9. /\ lost' = [lost EXCEPT ![g] = IF leaked THEN @ + 1 ELSE @]
      /\ rc' = [rc EXCEPT ![g] = IF leaked THEN @ ELSE @ - 1]
      /\ calls' = Replaced(c, r)
      /\ UNCHANGED <<life, parent, home, attr, held, current, thread, deleteme, fault,
                     asked, runs>>
    BY <1>3, <1>4, <1>5, <1>6, <1>7, <1>8 DEF Undo
<1>10. calls[c] # <<>>
    BY <1>2, <1>3
<1>11. \A x \in Greenlets : Owns(Last(calls[c]), x) = Is(g, x) /\ OwnedBy(r, x) = 0
    <2>1. \A x : Owns(call, x) = 0
        BY <1>7, OwnsNothing DEF Doing
    <2> QED BY <1>2, <1>3, <1>4, <1>8, <2>1, OwnsUndo, OwnedOne, OwnedEmpty
<1>12. rc[g] >= 1
    <2>1. rc[g] >= Owns(Last(calls[c]), g)
        BY <1>2, <1>10, Counted
    <2> QED BY <1>11, <2>1 DEF Is
<1>13. rc \in [Greenlets -> Int] /\ lost \in [Greenlets -> Nat]
    BY <1>2 DEF Typed
<1>14. Typed'
    <2>1. calls' \in [Greenlets -> Seq(Calls)]
        BY <1>2, <1>8, <1>9, <1>10, ReplacedOwned
    <2>2. rc' \in [Greenlets -> Int]
        BY <1>9, <1>13
    <2>3. lost' \in [Greenlets -> Nat]
        BY <1>9, <1>13
    <2> QED BY <1>2, <1>9, <2>1, <2>2, <2>3 DEF Typed
<1>15. ASSUME NEW x \in Greenlets PROVE rc'[x] = References(x)'
    <2>1. OwnedIn(calls', Greenlets, x)
              = OwnedIn(calls, Greenlets, x) - Owns(Last(calls[c]), x) + OwnedBy(r, x)
        BY <1>2, <1>8, <1>9, <1>10, ReplacedOwned, ZenonT(30)
    <2>2. Owns(Last(calls[c]), x) = Is(g, x) /\ OwnedBy(r, x) = 0 /\ Is(g, x) \in Nat
        BY <1>11 DEF Is
    <2>3. \/ rc'[x] = rc[x] /\ lost'[x] = lost[x] + Is(g, x)
          \/ rc'[x] = rc[x] - Is(g, x) /\ lost'[x] = lost[x]
        BY <1>9, <1>13 DEF Is
    <2>4. UNCHANGED <<parent, home, attr, held, current, deleteme>> /\ Stated(x)' = Stated(x)
        BY <1>9 DEF Stated
    <2>5. Natural(x) /\ rc[x] = References(x)
        BY <1>2, RefsNat
    <2> QED BY <2>1, <2>2, <2>3, <2>4, <2>5 DEF References, Natural
<1>16. ControlInv'
    <2>1. calls'[c] = Front(calls[c]) \o r /\ OthersKept(c)
        BY <1>2, <1>8, <1>9, <1>10, ReplacedOwned
    <2>2. PICK n : n = Len(calls[c]) - 1
        OBVIOUS
    <2>3. CountsKept
        <3>1. \A x \in Greenlets : rc[x] = 0 => rc'[x] = 0
            BY <1>9, <1>12, <1>13
        <3> QED BY <1>9, <3>1 DEF CountsKept
    <2>4. LivesKept(c, n) /\ RunnersKept
        BY <1>9 DEF LivesKept, Onward, RunnersKept
    <2>5. CASE ~freed
        <3>1. IsQuiet(r)
            BY <1>8, <2>5, QuietEmpty
        <3> QED BY <1>1, <1>3, <1>9, <2>1, <2>2, <2>3, <2>4, <3>1, QuietAnswer
    <2>6. CASE freed
        <3>1. LoudAt(r, 1) /\ r[1] = call /\ 1 \in 1..Len(r)
            BY <1>8, <2>6, LoudOne
        <3>2. life[g] # "none" /\ rc'[g] = 0
            <4>1. rc[g] = 1 /\ ~leaked
                BY <1>5, <1>6, <2>6
            <4>2. life[g] # "none"
                BY <1>2, <4>1 DEF ControlInv, NoneInv
            <4> QED BY <1>9, <1>13, <4>1, <4>2
        <3>3. CallOK(c, n + 1, call)'
            BY <1>7, <1>9, <3>2 DEF CallOK, Doing
        <3>4. Fresh(c, n, call)
            BY <1>7 DEF Fresh, Same, Doing
        <3> QED BY <1>1, <1>3, <1>9, <2>1, <2>2, <2>3, <2>4, <3>1, <3>3, <3>4, LoudAnswer
    <2> QED BY <2>5, <2>6
<1> QED BY <1>2, <1>9, <1>14, <1>15, <1>16, TypedWhenExactNext
        DEF RefcountExact, Controlled, NotMurdered

LEMMA DeleteKeeps ==
    ASSUME RefInv, NEW t \in Threads, Delete(t)
    PROVE  RefInv'
<1>1. Executes(t, "delete")
    BY DEF Delete
<1>2. /\ fault = "none" /\ Typed /\ ControlInv /\ current[t] \in Greenlets
      /\ thread[t] = "running" /\ calls[current[t]] # <<>>
      /\ Top(t) = Last(calls[current[t]])
      /\ \A x \in Greenlets : rc[x] = References(x) /\ rc[x] \in Nat
      /\ Top(t) \in Calls /\ Top(t).op = "delete"
      /\ Len(calls[current[t]]) \in DOMAIN calls[current[t]]
      /\ Top(t) = calls[current[t]][Len(calls[current[t]])]
    BY <1>1, Executing
<1>3. PICK c \in Greenlets : c = current[t]
    BY <1>2
<1>4. PICK g \in Greenlets : g = Top(t).of
    BY <1>2, CallKinds
<1>5. rc[g] = 0 /\ life[g] # "none"
    BY <1>2, <1>4 DEF ControlInv, CallsInv, CallOK
<1>6. PICK p \in Greenlets \cup {NoOne} : p = parent[g]
    BY <1>2 DEF Typed
<1>7. PICK m \in Greenlets \cup {NoOne} : m = home[g]
    BY <1>2, MainsFact DEF Typed
<1>8. PICK A \in SUBSET Greenlets : A = attr[g]
    BY <1>2 DEF Typed
<1>9. PICK s1 : s1 \in Seq(Greenlets) /\ s1 = SetToSeq(A)
    BY OccursSetToSeq
<1>10. PICK s2 : s2 \in Seq(Greenlets) /\ s2 = Present(p)
    BY OccursPresent
<1>11. PICK s3 : s3 \in Seq(Greenlets) /\ s3 = Present(m)
    BY OccursPresent
<1>12. PICK s4 : s4 \in Seq(Greenlets) /\ s4 = s1 \o s2
    BY <1>9, <1>10, ConcatProperties
<1>13. PICK s : s \in Seq(Greenlets) /\ s = s4 \o s3
    BY <1>11, <1>12, ConcatProperties
<1>14. PICK r : r \in Seq(Calls) /\ r = Dropping(s)
    BY <1>13, OwnedDropping
<1>15. /\ life' = [life EXCEPT ![g] = "freed"]
       /\ attr' = [attr EXCEPT ![g] = {}]
       /\ parent' = [parent EXCEPT ![g] = NoOne]
       /\ home' = [home EXCEPT ![g] = NoOne]
       /\ calls' = Replaced(c, r)
       /\ UNCHANGED <<held, rc, current, thread, deleteme, fault, lost, asked, runs>>
    BY <1>3, <1>4, <1>6, <1>7, <1>8, <1>9, <1>10, <1>11, <1>12, <1>13, <1>14 DEF Delete
<1>16. calls[c] # <<>>
    BY <1>2, <1>3
<1>17. Typed'
    <2>1. calls' \in [Greenlets -> Seq(Calls)]
        BY <1>2, <1>14, <1>15, <1>16, ReplacedOwned
    <2>2. /\ parent' \in [Greenlets -> Greenlets \cup {NoOne}]
          /\ home' \in [Greenlets -> Mains \cup {NoOne}]
        BY <1>2, <1>15 DEF Typed
    <2>3. /\ attr' \in [Greenlets -> SUBSET Greenlets]
          /\ life' \in [Greenlets -> {"none", "new", "active", "dead", "freed"}]
        BY <1>2, <1>15 DEF Typed
    <2> QED BY <1>2, <1>15, <2>1, <2>2, <2>3 DEF Typed
<1>18. ASSUME NEW x \in Greenlets PROVE rc'[x] = References(x)'
    <2>1. /\ ParentOnly(g) /\ parent'[g] = NoOne
          /\ HomeOnly(g) /\ home'[g] = NoOne
          /\ AttrOnly(g) /\ attr'[g] = {}
        BY <1>2, <1>15 DEF ParentOnly, HomeOnly, AttrOnly, Typed
    <2>2. Is(NoOne, x) = 0 /\ In(x \in {}) = 0
        BY ThreadsAssumption DEF Is, In
    <2>3. Pointing(parent', x) = Pointing(parent, x) - Is(p, x) + 0
        <3>1. Pointing(parent', x) = Pointing(parent, x) - Is(parent[g], x) + Is(parent'[g], x)
            BY <1>2, <1>17, <2>1, Updates
        <3> QED BY <1>6, <2>1, <2>2, <3>1
    <2>4. Pointing(home', x) = Pointing(home, x) - Is(m, x) + 0
        <3>1. Pointing(home', x) = Pointing(home, x) - Is(home[g], x) + Is(home'[g], x)
            BY <1>2, <1>17, <2>1, Updates
        <3> QED BY <1>7, <2>1, <2>2, <3>1
    <2>5. Holding(attr', x) = Holding(attr, x) - In(x \in A) + 0
        <3>1. Holding(attr', x) = Holding(attr, x) - In(x \in attr[g]) + In(x \in attr'[g])
            BY <1>2, <1>17, <2>1, Updates
        <3> QED BY <1>8, <2>1, <2>2, <3>1
    <2>6. OwnedIn(calls', Greenlets, x)
              = OwnedIn(calls, Greenlets, x) - Owns(Last(calls[c]), x) + OwnedBy(r, x)
        BY <1>2, <1>14, <1>15, <1>16, ReplacedOwned
    <2>7. Owns(Last(calls[c]), x) = 0
        BY <1>2, <1>3, OwnsNothing
    <2>8. OwnedBy(r, x) = In(x \in A) + Is(p, x) + Is(m, x)
        <3>1. OwnedBy(r, x) = Occurs(s, x)
            BY <1>13, <1>14, OwnedDropping
        <3>2. Occurs(s, x) = Occurs(s4, x) + Occurs(s3, x)
            <4>1. s4 \in Seq(Greenlets) /\ s3 \in Seq(Greenlets) /\ s = s4 \o s3
                BY <1>11, <1>12, <1>13
            <4> QED BY <4>1, OccursConcat
        <3>3. Occurs(s4, x) = Occurs(s1, x) + Occurs(s2, x)
            BY <1>9, <1>10, <1>12, OccursConcat
        <3>4. Occurs(s1, x) = In(x \in A)
            BY <1>9, OccursSetToSeq
        <3>5. Occurs(s2, x) = Is(p, x)
            BY <1>10, OccursPresent
        <3>6. Occurs(s3, x) = Is(m, x)
            BY <1>11, OccursPresent
        <3> QED BY <3>1, <3>2, <3>3, <3>4, <3>5, <3>6
    <2>9. In(x \in A) \in Nat /\ Is(p, x) \in Nat /\ Is(m, x) \in Nat
        BY DEF In, Is
    <2>10. UNCHANGED <<rc, held, current, deleteme, lost>> /\ Stated(x)' = Stated(x)
        BY <1>15 DEF Stated
    <2>11. Natural(x) /\ rc[x] = References(x)
        BY <1>2, RefsNat
    <2> QED BY <2>3, <2>4, <2>5, <2>6, <2>7, <2>8, <2>9, <2>10, <2>11 DEF References, Natural
<1>19. ControlInv'
    <2>1. calls'[c] = Front(calls[c]) \o r /\ OthersKept(c)
        BY <1>2, <1>14, <1>15, <1>16, ReplacedOwned
    <2>2. ~Runs(g)
        <3>1. ASSUME NEW u \in Threads, current[u] = g PROVE FALSE
            BY <1>2, <1>5, <3>1, Counted
        <3> QED BY <3>1 DEF Runs
    <2>3. life'[g] = "freed" /\ \A x \in Greenlets \ {g} :
              life'[x] = life[x] /\ parent'[x] = parent[x] /\ home'[x] = home[x]
        BY <1>2, <1>15 DEF Typed
    <2>4. CountsKept
        BY <1>15, <2>3 DEF CountsKept
    <2>5. LivesKept(c, Len(calls[c]) - 1)
        BY <1>5, <2>3 DEF LivesKept, Onward
    <2>6. RunnersKept
        BY <2>2, <2>3 DEF RunnersKept
    <2>7. IsQuiet(r)
        BY <1>13, <1>14, QuietDropping
    <2> QED BY <1>1, <1>3, <1>15, <2>1, <2>4, <2>5, <2>6, <2>7, QuietAnswer
<1> QED BY <1>2, <1>15, <1>17, <1>18, <1>19, TypedWhenExactNext
        DEF RefcountExact, Controlled, NotMurdered

LEMMA DieKeeps ==
    ASSUME RefInv, NEW t \in Threads, Die(t)
    PROVE  RefInv'
<1>1. Executes(t, "finish")
    BY DEF Die
<1>2. /\ fault = "none" /\ Typed /\ ControlInv /\ current[t] \in Greenlets
      /\ thread[t] = "running" /\ calls[current[t]] # <<>>
      /\ Top(t) = Last(calls[current[t]]) /\ Top(t).op = "finish"
      /\ \A x \in Greenlets : rc[x] = References(x) /\ rc[x] \in Nat
    BY <1>1, Executing
<1>3. PICK c \in Greenlets : c = current[t]
    BY <1>2
<1>4. PICK p \in Greenlets \cup {NoOne} : p = parent[c]
    BY <1>2 DEF Typed
<1>5. /\ life' = [life EXCEPT ![c] = "dead"]
      /\ fault' \in {"none", "no parent"}
      /\ calls' = Replaced(c, IF p = NoOne THEN <<>> ELSE <<SwitchTo(p, TRUE)>>)
      /\ UNCHANGED <<parent, home, attr, held, rc, current, thread, deleteme,
                     lost, asked, runs>>
    BY <1>3, <1>4 DEF Die, TryParent
<1>6. PICK r : IsQuiet(r) /\ calls' = Replaced(c, r) /\ \A x : OwnedBy(r, x) = 0
    <2>1. CASE p = NoOne
        BY <1>5, <2>1, QuietEmpty, OwnedEmpty
    <2>2. CASE p # NoOne
        <3>1. PICK call \in Calls : call = SwitchTo(p, TRUE)
            BY <2>2, Constructors
        <3>2. ~Loud(call) /\ \A x : Owns(call, x) = 0
            BY <3>1, OwnsNothing DEF Loud, SwitchTo
        <3>3. IsQuiet(<<call>>) /\ \A x : OwnedBy(<<call>>, x) = 0
            BY <3>2, QuietOne, OwnedOne
        <3> QED BY <1>5, <2>2, <3>1, <3>3
    <2> QED BY <2>1, <2>2
<1>7. r \in Seq(Calls) /\ calls[c] # <<>>
    BY <1>2, <1>3, <1>6 DEF IsQuiet
<1>8. Typed'
    <2>1. calls' \in [Greenlets -> Seq(Calls)]
        BY <1>2, <1>6, <1>7, ReplacedOwned
    <2>2. life' \in [Greenlets -> {"none", "new", "active", "dead", "freed"}]
        BY <1>2, <1>5 DEF Typed
    <2> QED BY <1>2, <1>5, <2>1, <2>2 DEF Typed
<1>9. ASSUME NEW x \in Greenlets PROVE rc'[x] = References(x)'
    <2>1. OwnedIn(calls', Greenlets, x)
              = OwnedIn(calls, Greenlets, x) - Owns(Last(calls[c]), x) + OwnedBy(r, x)
        BY <1>2, <1>6, <1>7, ReplacedOwned
    <2>2. Owns(Last(calls[c]), x) = 0 /\ OwnedBy(r, x) = 0
        BY <1>2, <1>3, <1>6, OwnsNothing
    <2>3. /\ UNCHANGED <<rc, parent, home, attr, held, current, deleteme, lost>>
          /\ Stated(x)' = Stated(x)
        BY <1>5 DEF Stated
    <2>4. Natural(x) /\ rc[x] = References(x)
        BY <1>2, RefsNat
    <2> QED BY <2>1, <2>2, <2>3, <2>4 DEF References, Natural
<1>10. ControlInv'
    <2>1. calls'[c] = Front(calls[c]) \o r /\ OthersKept(c)
        BY <1>2, <1>6, <1>7, ReplacedOwned
    <2>2. life'[c] = "dead" /\ \A x \in Greenlets \ {c} : life'[x] = life[x]
        BY <1>2, <1>5 DEF Typed
    <2>3. life[c] \in {"active", "dead"}
        BY <1>2, <1>3 DEF ControlInv, CurrentInv
    <2>4. CountsKept
        BY <1>5 DEF CountsKept
    <2>5. LivesKept(c, Len(calls[c]) - 1)
        BY <2>2, <2>3 DEF LivesKept, Onward
    <2>6. RunnersKept
        BY <1>5, <2>2 DEF RunnersKept
    <2> QED BY <1>1, <1>3, <1>5, <1>6, <2>1, <2>4, <2>5, <2>6, QuietAnswer
<1> QED BY <1>5, <1>8, <1>9, <1>10, TypedWhenExactNext
        DEF RefcountExact, Controlled, NotMurdered

\* Two calls, one after the other
LEMMA Pair ==
    ASSUME NEW a \in Calls, NEW b \in Calls
    PROVE  <<a>> \o <<b>> = <<a, b>>
<1>1. PICK r \in Seq(Calls) : r = <<a>> /\ Len(r) = 1 /\ r[1] = a
    <2>1. <<a>> \in Seq(Calls) /\ Len(<<a>>) = 1 /\ <<a>>[1] = a
        OBVIOUS
    <2> QED BY <2>1
<1>2. PICK s \in Seq(Calls) : s = <<b>> /\ Len(s) = 1 /\ s[1] = b
    <2>1. <<b>> \in Seq(Calls) /\ Len(<<b>>) = 1 /\ <<b>>[1] = b
        OBVIOUS
    <2> QED BY <2>1
<1>3. PICK z \in Seq(Calls) :
          /\ z = r \o s /\ Len(z) = Len(r) + Len(s)
          /\ \A i \in 1..(Len(r) + Len(s)) : z[i] = IF i <= Len(r) THEN r[i] ELSE s[i - Len(r)]
    BY Joined
<1>4. Len(z) = 2 /\ z[1] = a /\ z[2] = b
    BY <1>1, <1>2, <1>3
<1>5. PICK y \in Seq(Calls) : y = <<a, b>> /\ Len(y) = 2 /\ y[1] = a /\ y[2] = b
    <2>1. <<a, b>> \in Seq(Calls) /\ Len(<<a, b>>) = 2 /\ <<a, b>>[1] = a /\ <<a, b>>[2] = b
        OBVIOUS
    <2> QED BY <2>1
<1>6. Len(z) = Len(y) /\ \A i \in 1..Len(z) : z[i] = y[i]
    BY <1>4, <1>5
<1>7. z = y
    BY <1>6, SeqEqual
<1> QED BY <1>1, <1>2, <1>3, <1>5, <1>7

LEMMA KillKeeps ==
    ASSUME RefInv, NEW t \in Threads, Kill(t)
    PROVE  RefInv'
<1>1. Executes(t, "dealloc") /\ life[Top(t).of] = "active"
    BY DEF Kill
<1>2. /\ fault = "none" /\ Typed /\ ControlInv /\ current[t] \in Greenlets
      /\ thread[t] = "running" /\ calls[current[t]] # <<>>
      /\ Top(t) = Last(calls[current[t]])
      /\ \A x \in Greenlets : rc[x] = References(x) /\ rc[x] \in Nat
      /\ Top(t) \in Calls /\ Top(t).op = "dealloc"
      /\ Len(calls[current[t]]) \in DOMAIN calls[current[t]]
      /\ Top(t) = calls[current[t]][Len(calls[current[t]])]
    BY <1>1, Executing
<1>3. PICK c \in Greenlets : c = current[t]
    BY <1>2
<1>4. PICK g \in Greenlets : g = Top(t).of
    BY <1>2, CallKinds
<1>5. rc[g] = 0 /\ ~BeingFreed(g) /\ life[g] = "active"
    BY <1>1, <1>2, <1>4 DEF ControlInv, CallsInv, CallOK
<1>6. PICK p \in Greenlets \cup {NoOne} : p = parent[g]
    BY <1>2 DEF Typed
<1>7. PICK k \in Calls : k = Killing(g, p)
    BY Constructors
<1>8. PICK s \in Calls : s = SwitchTo(g, FALSE)
    BY Constructors
<1>9. ~Loud(k) /\ ~Loud(s) /\ k.op = "kill" /\ k.of = g /\ k.old = p /\ s.op = "switch"
    BY <1>7, <1>8 DEF Loud, Killing, SwitchTo
<1>10. PICK z : IsQuiet(z) /\ z = <<s>>
    BY <1>9, QuietOne
<1>11. PICK r : r \in Seq(Calls) /\ IsQuiet(r) /\ r = <<k>> \o z
    BY <1>9, <1>10, FirstThen
<1>12. r = <<k, s>>
    BY <1>10, <1>11, Pair
<1>13. /\ parent' = [parent EXCEPT ![g] = c]
       /\ rc' = [rc EXCEPT ![g] = 1, ![c] = @ + 1]
       /\ calls' = Replaced(c, r)
       /\ UNCHANGED <<life, home, attr, held, current, thread, deleteme, fault,
                      lost, asked, runs>>
    BY <1>3, <1>4, <1>6, <1>7, <1>8, <1>12 DEF Kill, Guarded
<1>14. calls[c] # <<>> /\ rc[c] >= 1
    BY <1>2, <1>3, Counted
<1>15. rc \in [Greenlets -> Int]
    BY <1>2 DEF Typed
<1>16. Typed'
    <2>1. calls' \in [Greenlets -> Seq(Calls)]
        BY <1>2, <1>11, <1>13, <1>14, ReplacedOwned
    <2>2. rc' \in [Greenlets -> Int]
        BY <1>13, <1>15
    <2>3. parent' \in [Greenlets -> Greenlets \cup {NoOne}]
        BY <1>2, <1>13 DEF Typed
    <2> QED BY <1>2, <1>13, <2>1, <2>2, <2>3 DEF Typed
<1>17. ASSUME NEW x \in Greenlets PROVE rc'[x] = References(x)'
    <2>1. ParentOnly(g) /\ parent'[g] = c
        BY <1>2, <1>13 DEF ParentOnly, Typed
    <2>2. Pointing(parent', x) = Pointing(parent, x) - Is(p, x) + Is(c, x)
        <3>1. Pointing(parent', x) = Pointing(parent, x) - Is(parent[g], x) + Is(parent'[g], x)
            BY <1>2, <1>16, <2>1, Updates
        <3> QED BY <1>6, <2>1, <3>1
    <2>3. OwnedIn(calls', Greenlets, x)
              = OwnedIn(calls, Greenlets, x) - Owns(Last(calls[c]), x) + OwnedBy(r, x)
        BY <1>2, <1>11, <1>13, <1>14, ReplacedOwned
    <2>4. Owns(Last(calls[c]), x) = 0
        BY <1>2, <1>3, OwnsNothing
    <2>5. OwnedBy(r, x) = Is(g, x) + Is(p, x)
        <3>1. OwnedBy(r, x) = Owns(k, x) + OwnedBy(z, x)
            BY <1>10, <1>11, FirstThen
        <3>2. Owns(k, x) = Is(g, x) + Is(p, x)
            BY <1>9, OwnsKill
        <3>3. OwnedBy(z, x) = 0
            BY <1>9, <1>10, OwnsNothing, OwnedOne
        <3>4. Is(g, x) \in Nat /\ Is(p, x) \in Nat
            BY DEF Is
        <3> QED BY <3>1, <3>2, <3>3, <3>4
    <2>6. rc'[x] = rc[x] + Is(g, x) + Is(c, x)
        BY <1>5, <1>13, <1>14, <1>15 DEF Is
    <2>7. Is(g, x) \in Nat /\ Is(p, x) \in Nat /\ Is(c, x) \in Nat
        BY DEF Is
    <2>8. UNCHANGED <<home, attr, held, current, deleteme, lost>> /\ Stated(x)' = Stated(x)
        BY <1>13 DEF Stated
    <2>9. Natural(x) /\ rc[x] = References(x)
        BY <1>2, RefsNat
    <2> QED BY <2>2, <2>3, <2>4, <2>5, <2>6, <2>7, <2>8, <2>9 DEF References, Natural
<1>18. ControlInv'
    <2>1. calls'[c] = Front(calls[c]) \o r /\ OthersKept(c)
        BY <1>2, <1>11, <1>13, <1>14, ReplacedOwned
    <2>2. CountsKept
        <3>1. \A x \in Greenlets \ {g} : rc[x] = 0 => rc'[x] = 0
            BY <1>13, <1>14, <1>15
        <3>2. \A x \in Greenlets \ {g} : parent'[x] = parent[x]
            BY <1>2, <1>13 DEF Typed
        <3> QED BY <1>5, <1>13, <3>1, <3>2 DEF CountsKept
    <2>3. LivesKept(c, Len(calls[c]) - 1) /\ RunnersKept
        BY <1>13 DEF LivesKept, Onward, RunnersKept
    <2> QED BY <1>1, <1>3, <1>11, <1>13, <2>1, <2>2, <2>3, QuietAnswer
<1> QED BY <1>2, <1>13, <1>16, <1>17, <1>18, TypedWhenExactNext
        DEF RefcountExact, Controlled, NotMurdered

LEMMA ParkKeeps ==
    ASSUME RefInv, NEW t \in Threads, Park(t)
    PROVE  RefInv'
<1>1. Executes(t, "dealloc") /\ life[Top(t).of] = "active"
    BY DEF Park
<1>2. /\ fault = "none" /\ Typed /\ ControlInv /\ current[t] \in Greenlets
      /\ thread[t] = "running" /\ calls[current[t]] # <<>>
      /\ Top(t) = Last(calls[current[t]])
      /\ \A x \in Greenlets : rc[x] = References(x) /\ rc[x] \in Nat
      /\ Top(t) \in Calls /\ Top(t).op = "dealloc"
      /\ Len(calls[current[t]]) \in DOMAIN calls[current[t]]
      /\ Top(t) = calls[current[t]][Len(calls[current[t]])]
    BY <1>1, Executing
<1>3. PICK c \in Greenlets : c = current[t]
    BY <1>2
<1>4. PICK g \in Greenlets : g = Top(t).of
    BY <1>2, CallKinds
<1>5. rc[g] = 0 /\ ~BeingFreed(g) /\ life[g] = "active"
    BY <1>1, <1>2, <1>4 DEF ControlInv, CallsInv, CallOK
<1>6. PICK u \in Threads : deleteme' = [deleteme EXCEPT ![u] = @ \cup {g}]
    BY <1>4 DEF Park
<1>7. PICK call \in Calls : call = Doing("undo", g)
    BY Constructors
<1>8. ~Loud(call) /\ call.op = "undo" /\ call.of = g
    BY <1>7 DEF Loud, Doing
<1>9. PICK r : r \in Seq(Calls) /\ IsQuiet(r) /\ r = <<call>>
    <2>1. <<call>> \in Seq(Calls)
        OBVIOUS
    <2> QED BY <1>8, <2>1, QuietOne
<1>10. /\ rc' = [rc EXCEPT ![g] = 2]
       /\ calls' = Replaced(c, r)
       /\ UNCHANGED <<life, parent, home, attr, held, current, thread, fault,
                      lost, asked, runs>>
    BY <1>3, <1>4, <1>7, <1>9 DEF Park
<1>11. calls[c] # <<>> /\ g \notin deleteme[u]
    BY <1>2, <1>3, <1>5, Counted
<1>12. rc \in [Greenlets -> Int]
    BY <1>2 DEF Typed
<1>13. Typed'
    <2>1. calls' \in [Greenlets -> Seq(Calls)]
        BY <1>2, <1>9, <1>10, <1>11, ReplacedOwned
    <2>2. rc' \in [Greenlets -> Int]
        BY <1>10, <1>12
    <2>3. deleteme' \in [Threads -> SUBSET Greenlets]
        BY <1>2, <1>6 DEF Typed
    <2> QED BY <1>2, <1>10, <2>1, <2>2, <2>3 DEF Typed
<1>14. ASSUME NEW x \in Greenlets PROVE rc'[x] = References(x)'
    <2>1. DeletemeOnly(u) /\ deleteme'[u] = deleteme[u] \cup {g}
        BY <1>2, <1>6 DEF DeletemeOnly, Typed
    <2>2. Holding(deleteme', x) = Holding(deleteme, x) - In(x \in deleteme[u]) + In(x \in deleteme'[u])
        BY <1>2, <1>13, <2>1, Updates
    <2>3. OwnedIn(calls', Greenlets, x)
              = OwnedIn(calls, Greenlets, x) - Owns(Last(calls[c]), x) + OwnedBy(r, x)
        BY <1>2, <1>9, <1>10, <1>11, ReplacedOwned, ZenonT(30)
    <2>4. Owns(Last(calls[c]), x) = 0
        BY <1>2, <1>3, OwnsNothing
    <2>5. OwnedBy(r, x) = Is(g, x)
        BY <1>8, <1>9, OwnsUndo, OwnedOne
    <2>6. rc'[x] = rc[x] + Is(g, x) + Is(g, x) /\ Is(g, x) \in Nat
        BY <1>5, <1>10, <1>12 DEF Is
    <2>7. UNCHANGED <<parent, home, attr, held, current, lost>> /\ Stated(x)' = Stated(x)
        BY <1>10 DEF Stated
    <2>8. Natural(x) /\ rc[x] = References(x)
        BY <1>2, RefsNat
    <2>9. Holding(deleteme', x) = Holding(deleteme, x) + Is(g, x)
        BY <1>11, <2>1, <2>2, <2>8 DEF In, Is, Natural
    <2> QED BY <2>3, <2>4, <2>5, <2>6, <2>7, <2>8, <2>9 DEF References, Natural
<1>15. ControlInv'
    <2>1. calls'[c] = Front(calls[c]) \o r /\ OthersKept(c)
        BY <1>2, <1>9, <1>10, <1>11, ReplacedOwned
    <2>2. CountsKept
        <3>1. \A x \in Greenlets \ {g} : rc'[x] = rc[x]
            BY <1>10, <1>12
        <3> QED BY <1>5, <1>10, <3>1 DEF CountsKept
    <2>3. LivesKept(c, Len(calls[c]) - 1) /\ RunnersKept
        BY <1>10 DEF LivesKept, Onward, RunnersKept
    <2> QED BY <1>1, <1>3, <1>9, <1>10, <2>1, <2>2, <2>3, QuietAnswer
<1> QED BY <1>2, <1>10, <1>13, <1>14, <1>15, TypedWhenExactNext
        DEF RefcountExact, Controlled, NotMurdered

\* What c has done with its last call, and g with all of them, is accounted for.
Settled(c, r, g, x) ==
    OwnedIn(calls', Greenlets, x)
        = (OwnedIn(calls, Greenlets, x) - Owns(Last(calls[c]), x) + OwnedBy(r, x))
              - OwnedBy(calls[g], x)

\* The last call of c is replaced, and another greenlet loses its calls.
LEMMA AbandonedCalls ==
    ASSUME Typed, NEW c \in Greenlets, calls[c] # <<>>, NEW r \in Seq(Calls),
           NEW g \in Greenlets, g # c, calls' = [Replaced(c, r) EXCEPT ![g] = <<>>], NEW x
    PROVE  /\ calls' \in [Greenlets -> Seq(Calls)]
           /\ Settled(c, r, g, x)
           /\ Owns(Last(calls[c]), x) \in Nat /\ OwnedBy(r, x) \in Nat
           /\ OwnedBy(calls[g], x) \in Nat
           /\ calls'[c] = Front(calls[c]) \o r /\ OthersKept(c)
<1>1. calls \in [Greenlets -> Seq(Calls)] /\ calls[g] \in Seq(Calls)
    BY DEF Typed
<1>2. PICK ds : ds = Replaced(c, r)
    OBVIOUS
<1>3. /\ ds \in [Greenlets -> Seq(Calls)]
      /\ OwnedIn(ds, Greenlets, x)
             = OwnedIn(calls, Greenlets, x) - Owns(Last(calls[c]), x) + OwnedBy(r, x)
      /\ Owns(Last(calls[c]), x) \in Nat /\ OwnedBy(r, x) \in Nat
    BY <1>2, CallUpdates
<1>4. ds[c] = Front(calls[c]) \o r /\ \A h \in Greenlets \ {c} : ds[h] = calls[h]
    BY <1>1, <1>2 DEF Replaced
<1>5. calls' = [ds EXCEPT ![g] = <<>>]
    BY <1>2
<1>6. <<>> \in Seq(Calls)
    OBVIOUS
<1>7. calls' \in [Greenlets -> Seq(Calls)]
    BY <1>3, <1>5, <1>6
<1>8. calls'[c] = Front(calls[c]) \o r /\ OthersKept(c)
    BY <1>3, <1>4, <1>5 DEF OthersKept
<1>9. OwnedBy(calls[g], x) \in Nat
    BY <1>1, TokensFinite
<1>10. /\ OwnedIn(ds, Greenlets, x) \in Nat
       /\ OwnedIn([ds EXCEPT ![g] = <<>>], Greenlets, x)
             = OwnedIn(ds, Greenlets, x) - OwnedBy(ds[g], x) + OwnedBy(<<>>, x)
    BY <1>3, <1>6, OwnedUpdate, ZenonT(30)
<1>11. OwnedIn(calls', Greenlets, x) = OwnedIn(ds, Greenlets, x) - OwnedBy(calls[g], x)
    <2>1. OwnedBy(<<>>, x) = 0
        BY OwnedEmpty
    <2>2. ds[g] = calls[g]
        BY <1>4
    <2>3. PICK n : n = OwnedIn(ds, Greenlets, x)
        OBVIOUS
    <2>4. PICK m : m = OwnedBy(calls[g], x)
        OBVIOUS
    <2>5. OwnedIn(calls', Greenlets, x) = n - m + 0 /\ n \in Nat /\ m \in Nat
        BY <1>5, <1>9, <1>10, <2>1, <2>2, <2>3, <2>4
    <2>6. n - m + 0 = n - m
        BY <2>5
    <2> QED BY <2>3, <2>4, <2>5, <2>6
<1>12. OwnedIn(calls', Greenlets, x)
           = (OwnedIn(calls, Greenlets, x) - Owns(Last(calls[c]), x) + OwnedBy(r, x))
                 - OwnedBy(calls[g], x)
    BY <1>3, <1>11
<1>13. Settled(c, r, g, x)
    BY <1>12 DEF Settled
<1> QED BY <1>3, <1>7, <1>8, <1>9, <1>13

LEMMA GiveUpKeeps ==
    ASSUME RefInv, NEW t \in Threads, GiveUp(t)
    PROVE  RefInv'
<1>1. Executes(t, "dealloc") /\ life[Top(t).of] = "active" /\ ~Linked(Top(t).of)
      /\ Abandon(Top(t).of)
    BY DEF GiveUp
<1>2. /\ fault = "none" /\ Typed /\ ControlInv /\ current[t] \in Greenlets
      /\ thread[t] = "running" /\ calls[current[t]] # <<>>
      /\ Top(t) = Last(calls[current[t]])
      /\ \A x \in Greenlets : rc[x] = References(x) /\ rc[x] \in Nat
      /\ Top(t) \in Calls /\ Top(t).op = "dealloc"
      /\ Len(calls[current[t]]) \in DOMAIN calls[current[t]]
      /\ Top(t) = calls[current[t]][Len(calls[current[t]])]
    BY <1>1, Executing
<1>3. PICK c \in Greenlets : c = current[t]
    BY <1>2
<1>4. PICK g \in Greenlets : g = Top(t).of
    BY <1>2, CallKinds
<1>5. rc[g] = 0 /\ ~BeingFreed(g) /\ life[g] = "active" /\ Abandon(g)
    BY <1>1, <1>2, <1>4, SMTT(30) DEF ControlInv, CallsInv, CallOK
<1>6. ~Runs(g) /\ g # c
    <2>1. ~Runs(g)
        BY <1>1, <1>2, <1>4, CurrentLinked
    <2> QED BY <1>2, <1>3, <2>1 DEF Runs
<1>7. PICK call \in Calls : call = Doing("undo", g)
    BY Constructors
<1>8. ~Loud(call) /\ call.op = "undo" /\ call.of = g
    BY <1>7 DEF Loud, Doing
<1>9. PICK r : r \in Seq(Calls) /\ IsQuiet(r) /\ r = <<call>>
    <2>1. <<call>> \in Seq(Calls)
        OBVIOUS
    <2> QED BY <1>8, <2>1, QuietOne
<1>10. /\ life' = [life EXCEPT ![g] = "new"]
       /\ rc' = [rc EXCEPT ![g] = 1]
       /\ calls' = [Replaced(c, r) EXCEPT ![g] = <<>>]
       /\ UNCHANGED <<parent, home, attr, current, thread, deleteme, fault, asked, runs>>
    BY <1>3, <1>4, <1>7, <1>9 DEF GiveUp
<1>11. calls[c] # <<>>
    BY <1>2, <1>3
<1>12. rc \in [Greenlets -> Int]
    BY <1>2 DEF Typed
<1>13. Typed'
    <2>1. calls' \in [Greenlets -> Seq(Calls)]
        BY <1>2, <1>6, <1>9, <1>10, <1>11, AbandonedCalls
    <2>2. rc' \in [Greenlets -> Int]
        BY <1>10, <1>12
    <2>3. lost' \in [Greenlets -> Nat] /\ held' \in [Holders -> SUBSET Greenlets]
        BY <1>2, <1>5, Abandoned
    <2>4. life' \in [Greenlets -> {"none", "new", "active", "dead", "freed"}]
        BY <1>2, <1>10 DEF Typed
    <2> QED BY <1>2, <1>10, <2>1, <2>2, <2>3, <2>4 DEF Typed
<1>14. ASSUME NEW x \in Greenlets PROVE rc'[x] = References(x)'
    <2>1. /\ HeldOnly(g) /\ held'[g] = {} /\ g \in Holders
          /\ lost'[x] = lost[x] + In(x \in held[g]) + OwnedBy(calls[g], x)
        BY <1>2, <1>5, Abandoned
    <2>2. Holding(held', x) = Holding(held, x) - In(x \in held[g]) + In(x \in held'[g])
        BY <1>2, <1>13, <2>1, Updates
    <2>3. /\ OwnedIn(calls', Greenlets, x)
                 = (OwnedIn(calls, Greenlets, x) - Owns(Last(calls[c]), x) + OwnedBy(r, x))
                       - OwnedBy(calls[g], x)
          /\ OwnedBy(calls[g], x) \in Nat
        <3>1. /\ Typed /\ calls[c] # <<>> /\ r \in Seq(Calls) /\ g # c
              /\ calls' = [Replaced(c, r) EXCEPT ![g] = <<>>]
            BY <1>2, <1>6, <1>9, <1>10, <1>11
        <3>2. Settled(c, r, g, x)
            BY <3>1, AbandonedCalls
        <3>3. OwnedBy(calls[g], x) \in Nat
            BY <3>1, AbandonedCalls
        <3> QED BY <3>2, <3>3 DEF Settled
    <2>4. Owns(Last(calls[c]), x) = 0
        BY <1>2, <1>3, OwnsNothing
    <2>5. OwnedBy(r, x) = Is(g, x)
        BY <1>8, <1>9, OwnsUndo, OwnedOne
    <2>6. rc'[x] = rc[x] + Is(g, x) /\ Is(g, x) \in Nat
        BY <1>5, <1>10, <1>12 DEF Is
    <2>7. UNCHANGED <<parent, home, attr, current, deleteme>> /\ Stated(x)' = Stated(x)
        BY <1>10 DEF Stated
    <2>8. Natural(x) /\ rc[x] = References(x)
        BY <1>2, RefsNat
    <2>9. In(x \in held'[g]) = 0 /\ In(x \in held[g]) \in Nat
        BY <2>1 DEF In
    <2> QED BY <2>1, <2>2, <2>3, <2>4, <2>5, <2>6, <2>7, <2>8, <2>9 DEF References, Natural
<1>15. ControlInv'
    <2>1. calls'[c] = Front(calls[c]) \o r /\ OthersKept(c)
        BY <1>2, <1>6, <1>9, <1>10, <1>11, AbandonedCalls
    <2>2. life'[g] = "new" /\ \A x \in Greenlets \ {g} : life'[x] = life[x]
        BY <1>2, <1>10 DEF Typed
    <2>3. CountsKept
        <3>1. \A x \in Greenlets \ {g} : rc'[x] = rc[x]
            BY <1>10, <1>12
        <3> QED BY <1>5, <1>10, <2>2, <3>1 DEF CountsKept
    <2>4. LivesKept(c, Len(calls[c]) - 1)
        BY <1>5, <2>2 DEF LivesKept, Onward
    <2>5. RunnersKept
        BY <1>6, <1>10, <2>2 DEF RunnersKept
    <2> QED BY <1>1, <1>3, <1>9, <1>10, <2>1, <2>3, <2>4, <2>5, QuietAnswer
<1> QED BY <1>2, <1>10, <1>13, <1>14, <1>15, TypedWhenExactNext
        DEF RefcountExact, Controlled, NotMurdered

LEMMA MurderKeeps ==
    ASSUME RefInv, NEW t \in Threads, Murder(t)
    PROVE  RefInv'
<1>1. Executes(t, "clear")
    BY DEF Murder
<1>2. /\ fault = "none" /\ Typed /\ ControlInv /\ current[t] \in Greenlets
      /\ thread[t] = "running" /\ calls[current[t]] # <<>>
      /\ Top(t) = Last(calls[current[t]])
      /\ \A x \in Greenlets : rc[x] = References(x) /\ rc[x] \in Nat
      /\ Top(t) \in Calls /\ Top(t).op = "clear"
    BY <1>1, Executing
<1>3. PICK c \in Greenlets : c = current[t] /\ calls[c] # <<>>
    BY <1>2
<1>4. PICK S \in SUBSET Greenlets : S = Top(t).todo
    BY <1>2, CallKinds
<1>5. PICK g \in S :
          /\ home' = [home EXCEPT ![g] = NoOne]
          /\ fault' = IF life[g] = "active" /\ Linked(g) THEN "murdered" ELSE "none"
          /\ IF life[g] = "active"
             THEN /\ life' = [life EXCEPT ![g] = "new"]
                  /\ Abandon(g)
                  /\ calls' = [Replaced(c, Clearing(S \ {g}, TRUE)
                                               \o Dropping(Present(home[g]) \o <<g>>))
                                  EXCEPT ![g] = <<>>]
             ELSE /\ calls' = Replaced(c, Clearing(S \ {g}, TRUE)
                                              \o Dropping(Present(home[g]) \o <<g>>))
                  /\ UNCHANGED <<life, held, lost>>
    BY <1>3, <1>4 DEF Murder
<1>6. S \ {g} \in SUBSET Greenlets /\ g \in Greenlets /\ <<g>> \in Seq(Greenlets)
    OBVIOUS
<1>7. PICK m \in Greenlets \cup {NoOne} : m = home[g]
    BY <1>2, <1>6, MainsFact DEF Typed
<1>8. PICK s : s \in Seq(Greenlets) /\ s = Present(m)
    BY OccursPresent
<1>9. PICK s2 : s2 \in Seq(Greenlets) /\ s2 = s \o <<g>>
    BY <1>6, <1>8, ConcatProperties
<1>10. PICK p : IsQuiet(p) /\ p = Clearing(S \ {g}, TRUE)
    BY <1>6, QuietClearing
<1>11. PICK q : IsQuiet(q) /\ q = Dropping(s2)
    BY <1>9, QuietDropping
<1>12. PICK r : r \in Seq(Calls) /\ IsQuiet(r) /\ r = p \o q
    <2>1. IsQuiet(p \o q)
        BY <1>10, <1>11, Then
    <2> QED BY <2>1 DEF IsQuiet
<1>13. ASSUME NEW x \in Greenlets
       PROVE  OwnedBy(r, x) = Owns(Last(calls[c]), x) + Is(m, x)
    <2>1. OwnedBy(r, x) = OwnedBy(p, x) + OwnedBy(q, x)
        BY <1>10, <1>11, <1>12, Then
    <2>2. OwnedBy(p, x) = In(x \in S \ {g})
        BY <1>6, <1>10, OwnedClearing
    <2>3. OwnedBy(q, x) = Is(m, x) + Is(g, x)
        <3>1. OwnedBy(q, x) = Occurs(s2, x)
            BY <1>9, <1>11, OwnedDropping
        <3>2. Occurs(s2, x) = Occurs(s, x) + Occurs(<<g>>, x)
            <4>1. PICK y : y \in Seq(Greenlets) /\ y = <<g>>
                BY <1>6
            <4>2. s \in Seq(Greenlets) /\ y \in Seq(Greenlets) /\ s2 = s \o y
                BY <1>8, <1>9, <4>1
            <4>3. Occurs(s2, x) = Occurs(s, x) + Occurs(y, x)
                BY <4>2, OccursConcat
            <4> QED BY <4>1, <4>3
        <3>3. Occurs(s, x) = Is(m, x) /\ Occurs(<<g>>, x) = Is(g, x)
            BY <1>6, <1>8, OccursPresent, OccursOne
        <3> QED BY <3>1, <3>2, <3>3
    <2>4. Owns(Last(calls[c]), x) = In(x \in S)
        BY <1>2, <1>3, <1>4, OwnsClear
    <2>5. In(x \in S) = In(x \in S \ {g}) + Is(g, x)
        BY DEF In, Is
    <2>6. In(x \in S \ {g}) \in Nat /\ Is(g, x) \in Nat /\ Is(m, x) \in Nat
        BY DEF In, Is
    <2> QED BY <2>1, <2>2, <2>3, <2>4, <2>5, <2>6
<1>14. /\ home' = [home EXCEPT ![g] = NoOne]
       /\ UNCHANGED <<parent, attr, rc, current, thread, deleteme, asked, runs>>
       /\ fault' \in {"none", "murdered"}
    BY <1>5 DEF Murder
<1>15. ASSUME NEW x \in Greenlets, Typed'
       PROVE  Pointing(home', x) = Pointing(home, x) - Is(m, x)
    <2>1. HomeOnly(g) /\ home'[g] = NoOne
        BY <1>2, <1>6, <1>14 DEF HomeOnly, Typed
    <2>2. Pointing(home', x) = Pointing(home, x) - Is(home[g], x) + Is(home'[g], x)
        BY <1>2, <1>6, <1>15, <2>1, Updates
    <2>3. Is(home'[g], x) = 0 /\ Is(m, x) \in Nat
        BY <2>1, ThreadsAssumption DEF Is
    <2>4. Natural(x)
        BY <1>2, RefsNat
    <2> QED BY <1>7, <2>2, <2>3, <2>4 DEF Natural
<1>16. home' \in [Greenlets -> Mains \cup {NoOne}]
    BY <1>2, <1>6, <1>14 DEF Typed
<1>18. CASE life[g] # "active"
    <2>1. calls' = Replaced(c, r) /\ UNCHANGED <<life, held, lost>> /\ fault' = "none"
        BY <1>5, <1>7, <1>8, <1>9, <1>10, <1>11, <1>12, <1>18
    <2>2. Typed'
        <3>1. calls' \in [Greenlets -> Seq(Calls)]
            BY <1>2, <1>3, <1>12, <2>1, ReplacedOwned
        <3> QED BY <1>2, <1>14, <1>16, <2>1, <3>1 DEF Typed
    <2>3. ASSUME NEW x \in Greenlets PROVE rc'[x] = References(x)'
        <3>1. Pointing(home', x) = Pointing(home, x) - Is(m, x)
            BY <1>15, <2>2
        <3>2. /\ OwnedIn(calls', Greenlets, x)
                     = OwnedIn(calls, Greenlets, x) - Owns(Last(calls[c]), x) + OwnedBy(r, x)
              /\ Owns(Last(calls[c]), x) \in Nat
            BY <1>2, <1>3, <1>12, <2>1, ReplacedOwned
        <3>3. OwnedBy(r, x) = Owns(Last(calls[c]), x) + Is(m, x) /\ Is(m, x) \in Nat
            BY <1>13 DEF Is
        <3>4. UNCHANGED <<parent, attr, held, rc, current, deleteme, lost>> /\ Stated(x)' = Stated(x)
            BY <1>14, <2>1 DEF Stated
        <3>5. Natural(x) /\ rc[x] = References(x)
            BY <1>2, RefsNat
        <3> QED BY <3>1, <3>2, <3>3, <3>4, <3>5 DEF References, Natural
    <2>4. ControlInv'
        <3>1. calls'[c] = Front(calls[c]) \o r /\ OthersKept(c)
            BY <1>2, <1>3, <1>12, <2>1, ReplacedOwned
        <3>2. CountsKept /\ LivesKept(c, Len(calls[c]) - 1)
            BY <1>14, <2>1 DEF CountsKept, LivesKept, Onward
        <3>3. RunnersKept
            BY <1>2, <1>6, <1>14, <1>18, <2>1 DEF RunnersKept, Typed
        <3> QED BY <1>1, <1>3, <1>12, <1>14, <3>1, <3>2, <3>3, QuietAnswer
    <2> QED BY <2>1, <2>2, <2>3, <2>4, TypedWhenExactNext
            DEF RefcountExact, Controlled, NotMurdered
<1>19. ASSUME life[g] = "active"
       PROVE  /\ calls' = [Replaced(c, r) EXCEPT ![g] = <<>>]
              /\ life' = [life EXCEPT ![g] = "new"] /\ Abandon(g)
              /\ lost' \in [Greenlets -> Nat] /\ held' \in [Holders -> SUBSET Greenlets]
              /\ life' \in [Greenlets -> {"none", "new", "active", "dead", "freed"}]
    <2>1. /\ calls' = [Replaced(c, r) EXCEPT ![g] = <<>>]
          /\ life' = [life EXCEPT ![g] = "new"] /\ Abandon(g)
        BY <1>5, <1>7, <1>8, <1>9, <1>10, <1>11, <1>12, <1>19
    <2>2. lost' \in [Greenlets -> Nat] /\ held' \in [Holders -> SUBSET Greenlets]
        BY <1>2, <1>6, <2>1, Abandoned
    <2>3. life' \in [Greenlets -> {"none", "new", "active", "dead", "freed"}]
        BY <1>2, <2>1 DEF Typed
    <2> QED BY <2>1, <2>2, <2>3
<1>20. CASE life[g] = "active" /\ ~Linked(g)
    <2>0. fault' = "none"
        BY <1>5, <1>20
    <2>1. ~Runs(g) /\ g # c
        <3>1. ~Runs(g)
            BY <1>2, <1>6, <1>20, CurrentLinked
        <3> QED BY <1>2, <1>3, <3>1 DEF Runs
    <2>2. calls' = [Replaced(c, r) EXCEPT ![g] = <<>>] /\ Abandon(g)
        BY <1>19, <1>20
    <2>3. Typed'
        <3>1. calls' \in [Greenlets -> Seq(Calls)]
            BY <1>2, <1>3, <1>6, <1>12, <2>1, <2>2, AbandonedCalls
        <3> QED BY <1>2, <1>14, <1>16, <1>19, <1>20, <3>1 DEF Typed
    <2>4. ASSUME NEW x \in Greenlets PROVE rc'[x] = References(x)'
        <3>1. Pointing(home', x) = Pointing(home, x) - Is(m, x)
            BY <1>15, <2>3
        <3>2. /\ HeldOnly(g) /\ held'[g] = {} /\ g \in Holders
              /\ lost'[x] = lost[x] + In(x \in held[g]) + OwnedBy(calls[g], x)
            BY <1>2, <1>6, <2>2, Abandoned
        <3>3. Holding(held', x) = Holding(held, x) - In(x \in held[g]) + In(x \in held'[g])
            BY <1>2, <2>3, <3>2, Updates
        <3>4. /\ Typed /\ c \in Greenlets /\ calls[c] # <<>> /\ r \in Seq(Calls)
              /\ g \in Greenlets /\ g # c
              /\ calls' = [Replaced(c, r) EXCEPT ![g] = <<>>]
            BY <1>2, <1>3, <1>6, <1>12, <2>1, <2>2
        <3>5. Settled(c, r, g, x)
            BY <3>4, AbandonedCalls
        <3>6. OwnedBy(calls[g], x) \in Nat /\ Owns(Last(calls[c]), x) \in Nat
            BY <3>4, AbandonedCalls
        <3>7. OwnedBy(r, x) = Owns(Last(calls[c]), x) + Is(m, x) /\ Is(m, x) \in Nat
            BY <1>13 DEF Is
        <3>8. UNCHANGED <<parent, attr, rc, current, deleteme>> /\ Stated(x)' = Stated(x)
            BY <1>14 DEF Stated
        <3>9. Natural(x) /\ rc[x] = References(x)
            BY <1>2, RefsNat
        <3>10. In(x \in held'[g]) = 0 /\ In(x \in held[g]) \in Nat
            BY <3>2 DEF In
        <3> QED BY <3>1, <3>2, <3>3, <3>5, <3>6, <3>7, <3>8, <3>9, <3>10
                DEF References, Natural, Settled
    <2>5. ControlInv'
        <3>1. calls'[c] = Front(calls[c]) \o r /\ OthersKept(c)
            BY <1>2, <1>3, <1>6, <1>12, <2>1, <2>2, AbandonedCalls
        <3>2. life'[g] = "new" /\ \A x \in Greenlets \ {g} : life'[x] = life[x]
            BY <1>2, <1>6, <1>19, <1>20 DEF Typed
        <3>3. CountsKept
            BY <1>14 DEF CountsKept
        <3>4. LivesKept(c, Len(calls[c]) - 1)
            BY <1>20, <3>2 DEF LivesKept, Onward
        <3>5. RunnersKept
            BY <1>2, <1>14, <2>1, <3>2 DEF RunnersKept, Typed
        <3> QED BY <1>1, <1>3, <1>12, <1>14, <3>1, <3>3, <3>4, <3>5, QuietAnswer
    <2> QED BY <2>0, <2>3, <2>4, <2>5, TypedWhenExactNext
            DEF RefcountExact, Controlled, NotMurdered
<1>21. CASE life[g] = "active" /\ Linked(g)
    <2>1. fault' = "murdered"
        BY <1>5, <1>21
    <2>2. calls' \in [Greenlets -> Seq(Calls)]
        <3>1. Replaced(c, r) \in [Greenlets -> Seq(Calls)]
            BY <1>2, <1>3, <1>12, CallUpdates
        <3>2. calls' = [Replaced(c, r) EXCEPT ![g] = <<>>] /\ <<>> \in Seq(Calls)
            BY <1>19, <1>21
        <3> QED BY <3>1, <3>2
    <2>3. TypeOK
        BY <1>1, Executing
    <2>4. TypeOK'
        BY <1>14, <1>16, <1>19, <1>21, <2>1, <2>2, <2>3 DEF TypeOK
    <2> QED BY <2>1, <2>4 DEF RefInv, RefcountExact, Controlled
<1> QED BY <1>18, <1>20, <1>21

LEMMA OccursTwice ==
    ASSUME NEW m \in Greenlets, NEW g
    PROVE  /\ <<m, m>> \in Seq(Greenlets) /\ Occurs(<<m, m>>, g) = Is(m, g) + Is(m, g)
<1>1. PICK s \in Seq(Greenlets) : s = <<m, m>> /\ DOMAIN s = {1, 2} /\ s[1] = m /\ s[2] = m
    <2>1. /\ <<m, m>> \in Seq(Greenlets) /\ DOMAIN <<m, m>> = {1, 2}
          /\ <<m, m>>[1] = m /\ <<m, m>>[2] = m
        OBVIOUS
    <2> QED BY <2>1
<1>2. ASSUME m = g PROVE Occurs(s, g) = Is(m, g) + Is(m, g)
    <2>0. PICK A : A = {i \in DOMAIN s : s[i] = g}
        OBVIOUS
    <2>1. A = {1} \cup {2}
        BY <1>1, <1>2, <2>0
    <2>2. /\ IsFiniteSet({1}) /\ IsFiniteSet({2})
          /\ Cardinality({1}) = 1 /\ Cardinality({2}) = 1
        BY FS_Singleton
    <2>3. {1} \cap {2} = {}
        OBVIOUS
    <2>4. Cardinality({1} \cup {2}) = 1 + 1
        BY <2>2, <2>3, DisjointUnion
    <2>5. Occurs(s, g) = 2
        <3>1. Occurs(s, g) = Cardinality(A)
            BY <2>0 DEF Occurs
        <3>2. Cardinality(A) = 1 + 1
            BY <2>1, <2>4
        <3> QED BY <3>1, <3>2
    <2> QED BY <1>2, <2>5 DEF Is
<1>3. ASSUME m # g PROVE Occurs(s, g) = Is(m, g) + Is(m, g)
    <2>1. {i \in DOMAIN s : s[i] = g} = {}
        BY <1>1, <1>3
    <2>2. Occurs(s, g) = 0
        BY <2>1, FS_EmptySet DEF Occurs
    <2> QED BY <1>3, <2>2 DEF Is
<1> QED BY <1>1, <1>2, <1>3

\* The third reference that ~ThreadState() drops, if it looks leaked, is one that was lost.
LEMMA DestroyStepKeeps ==
    ASSUME RefInv, LeaksAreLost, NEW t \in Threads, DestroyStep(t)
    PROVE  RefInv'
<1>1. Executes(t, "destroy")
    BY DEF DestroyStep
<1>2. /\ fault = "none" /\ Typed /\ ControlInv /\ current[t] \in Greenlets
      /\ thread[t] = "running" /\ calls[current[t]] # <<>>
      /\ Top(t) = Last(calls[current[t]])
      /\ \A x \in Greenlets : rc[x] = References(x) /\ rc[x] \in Nat
      /\ Top(t) \in Calls /\ Top(t).op = "destroy"
      /\ Len(calls[current[t]]) \in DOMAIN calls[current[t]]
      /\ Top(t) = calls[current[t]][Len(calls[current[t]])]
    BY <1>1, Executing
<1>3. PICK c \in Greenlets : c = current[t] /\ calls[c] # <<>>
    BY <1>2
<1>4. PICK u \in Threads : u = Top(t).state
    BY <1>2, CallKinds
<1>5. PICK m \in Greenlets : m = MainOf[u]
    BY MainOfAssumption
<1>6. thread[u] = "exited" /\ u # t
    BY <1>2, <1>4 DEF ControlInv, CallsInv, CallOK
<1>7. current[u] = m
    BY <1>2, <1>5, <1>6 DEF ControlInv, CurrentInv
<1>8. PICK e : /\ e \in Seq(Greenlets)
               /\ e = IF OptionalCleanup /\ Unfound(m) THEN <<m>> ELSE <<>>
    <2>1. <<m>> \in Seq(Greenlets) /\ <<>> \in Seq(Greenlets)
        OBVIOUS
    <2> QED BY <2>1
<1>9. PICK s, r : /\ s \in Seq(Greenlets) /\ s = <<m, m>> \o e
                  /\ r \in Seq(Calls) /\ IsQuiet(r) /\ r = Dropping(s)
    <2>1. PICK y \in Seq(Greenlets) : y = <<m, m>>
        BY OccursTwice
    <2>2. PICK s \in Seq(Greenlets) : s = y \o e
        BY <1>8, ConcatProperties
    <2> QED BY <2>1, <2>2, QuietDropping DEF IsQuiet
<1>10. /\ thread' = [thread EXCEPT ![u] = "destroyed"]
       /\ current' = [current EXCEPT ![u] = NoOne]
       /\ calls' = Replaced(c, r)
       /\ UNCHANGED <<life, parent, home, attr, held, rc, deleteme, fault, asked, runs>>
    BY <1>3, <1>4, <1>5, <1>8, <1>9 DEF DestroyStep
<1>11. ASSUME NEW x \in Greenlets
       PROVE  lost'[x] \in Nat /\ Occurs(e, x) \in Nat /\ lost'[x] = lost[x] - Occurs(e, x)
    <2>1. lost \in [Greenlets -> Nat]
        BY <1>2 DEF Typed
    <2>2. lost' = [lost EXCEPT ![m] = IF (OptionalCleanup /\ Unfound(m)) /\ @ > 0 THEN @ - 1 ELSE @]
        BY <1>4, <1>5 DEF DestroyStep
    <2>3. CASE OptionalCleanup /\ Unfound(m)
        <3>1. lost[m] > 0
            BY <1>1, <1>4, <1>5, <2>3 DEF LeaksAreLost
        <3>2. lost' = [lost EXCEPT ![m] = @ - 1]
            BY <2>1, <2>2, <2>3, <3>1
        <3>3. Occurs(e, x) = Is(m, x)
            BY <1>8, <2>3, OccursOne
        <3>4. CASE x = m
            BY <2>1, <3>1, <3>2, <3>3, <3>4 DEF Is
        <3>5. CASE x # m
            BY <2>1, <3>2, <3>3, <3>5 DEF Is
        <3> QED BY <3>4, <3>5
    <2>4. CASE ~(OptionalCleanup /\ Unfound(m))
        <3>1. Occurs(e, x) = 0
            BY <1>8, <2>4, OccursEmpty
        <3>2. lost' = lost
            BY <2>1, <2>2, <2>4
        <3> QED BY <2>1, <3>1, <3>2
    <2> QED BY <2>3, <2>4
<1>12. Typed'
    <2>1. calls' \in [Greenlets -> Seq(Calls)]
        BY <1>2, <1>3, <1>9, <1>10, ReplacedOwned
    <2>2. /\ thread' \in [Threads -> {"running", "exited", "destroyed"}]
          /\ current' \in [Threads -> Greenlets \cup {NoOne}]
        BY <1>2, <1>10 DEF Typed
    <2>3. lost' \in [Greenlets -> Nat]
        <3>1. lost' = [x \in Greenlets |-> lost'[x]]
            BY <1>2, <1>4, <1>5 DEF DestroyStep, Typed
        <3> QED BY <1>11, <3>1
    <2> QED BY <1>2, <1>10, <2>1, <2>2, <2>3 DEF Typed
<1>13. ASSUME NEW x \in Greenlets PROVE rc'[x] = References(x)'
    <2>1. CurrentOnly(u) /\ current'[u] = NoOne
        BY <1>2, <1>10 DEF CurrentOnly, Typed
    <2>2. Pointing(current', x) = Pointing(current, x) - Is(current[u], x) + Is(current'[u], x)
        BY <1>2, <1>12, <2>1, Updates
    <2>3. Is(current'[u], x) = 0
        BY <2>1, ThreadsAssumption DEF Is
    <2>4. OwnedIn(calls', Greenlets, x)
              = OwnedIn(calls, Greenlets, x) - Owns(Last(calls[c]), x) + OwnedBy(r, x)
        BY <1>2, <1>3, <1>9, <1>10, ReplacedOwned
    <2>5. Owns(Last(calls[c]), x) = 0
        BY <1>2, <1>3, OwnsNothing
    <2>6. OwnedBy(r, x) = (Is(m, x) + Is(m, x)) + Occurs(e, x) /\ Is(m, x) \in Nat
        <3>1. OwnedBy(r, x) = Occurs(s, x)
            BY <1>9, OwnedDropping
        <3>2. PICK y \in Seq(Greenlets) : y = <<m, m>> /\ Occurs(y, x) = Is(m, x) + Is(m, x)
            BY OccursTwice
        <3>3. Occurs(y \o e, x) = Occurs(y, x) + Occurs(e, x)
            BY <1>8, OccursConcat
        <3> QED BY <1>9, <3>1, <3>2, <3>3 DEF Is
    <2>7. Stated(x)' = Stated(x) - Is(m, x)
        <3>1. PICK A : A = {v \in Threads : MainOf[v] = x /\ thread[v] # "destroyed"}
            OBVIOUS
        <3>2. PICK B : B = {v \in Threads : MainOf[v] = x /\ thread'[v] # "destroyed"}
            OBVIOUS
        <3>3. A \subseteq Threads /\ B \subseteq Threads /\ \A v \in Threads \ {u} : v \in A <=> v \in B
            BY <1>2, <1>10, <3>1, <3>2 DEF Typed
        <3>4. (u \in A <=> m = x) /\ u \notin B
            BY <1>2, <1>5, <1>6, <1>10, <3>1, <3>2 DEF Typed
        <3>5. /\ Cardinality(A) \in Nat
              /\ Cardinality(B) = Cardinality(A) - In(u \in A) + In(u \in B)
            BY <3>3, FiniteAssumption, OneMoves
        <3>6. In(u \in A) = Is(m, x) /\ In(u \in B) = 0
            BY <3>4 DEF In, Is
        <3>7. Stated(x) = Cardinality(A) /\ Stated(x)' = Cardinality(B)
            BY <3>1, <3>2 DEF Stated
        <3> QED BY <2>6, <3>5, <3>6, <3>7
    <2>8. UNCHANGED <<rc, parent, home, attr, held, deleteme>>
        BY <1>10
    <2>10. Occurs(e, x) \in Nat /\ lost'[x] = lost[x] - Occurs(e, x)
        BY <1>11
    <2>9. Natural(x) /\ rc[x] = References(x)
        BY <1>2, RefsNat
    <2> QED BY <1>7, <2>2, <2>3, <2>4, <2>5, <2>6, <2>7, <2>8, <2>9, <2>10 DEF References, Natural
<1>14. calls'[c] = Front(calls[c]) \o r /\ OthersKept(c)
    BY <1>2, <1>3, <1>9, <1>10, ReplacedOwned
<1>15. PICK n : n = Len(calls[c]) - 1
    OBVIOUS
<1>16. /\ Kept(calls, calls', c, n, 0, Python) /\ n \in Nat
       /\ Len(calls'[c]) = n + Len(r)
    BY <1>2, <1>3, <1>9, <1>14, <1>15, Answered, ZenonT(30)
<1>17. CallsInv' /\ UniqueInv'
    <2>1. \A h, i, d : Remains(c, n, h, i, d) => d.op # "destroy"
        <3> SUFFICES ASSUME NEW h, NEW i, NEW d, Remains(c, n, h, i, d), d.op = "destroy"
                     PROVE  FALSE
            OBVIOUS
        <3>1. h = c /\ i = Len(calls[c])
            BY <1>2, <1>3 DEF ControlInv, UniqueInv, Remains, Same
        <3>2. Len(calls[c]) \in Nat
            BY <1>2 DEF Typed
        <3> QED BY <1>15, <3>1, <3>2 DEF Remains
    <2>2. DestroysKept(c, n)
        BY <2>1 DEF DestroysKept
    <2>3. DeallocsKept(c, n)
        <3> SUFFICES ASSUME NEW h, NEW i, NEW d, Remains(c, n, h, i, d), d.op = "dealloc"
                     PROVE  FALSE
            BY DEF DeallocsKept
        <3>1. h \in Greenlets /\ i \in DOMAIN calls[h] /\ calls[h][i].op = "dealloc"
            BY DEF Remains
        <3>2. h = c /\ i = Len(calls[c])
            BY <1>1, <1>3, <3>1, Executing
        <3>3. Len(calls[c]) \in Nat
            BY <1>2 DEF Typed
        <3> QED BY <1>15, <3>2, <3>3 DEF Remains
    <2>4. CountsKept /\ LivesKept(c, n)
        BY <1>10 DEF CountsKept, LivesKept, Onward
    <2>5. \A x \in Greenlets : Runs(x)' => Runs(x)
        BY <1>2, <1>10, ThreadsAssumption DEF Runs, Typed
    <2>6. StillOK(c, n)
        BY <1>2, <2>2, <2>3, <2>4, <2>5, StillOKSteady DEF ControlInv
    <2>7. 0 \notin DOMAIN calls'[c]
        <3>1. calls'[c] \in Seq(Calls)
            BY <1>12 DEF Typed
        <3> QED BY <3>1
    <2> QED BY <1>2, <1>16, <2>6, <2>7, CallsKept DEF ControlInv
<1>18. CurrentInv' /\ NoneInv'
    <2>1. \A v \in Threads \ {u} : thread'[v] = thread[v] /\ current'[v] = current[v]
        BY <1>2, <1>10 DEF Typed
    <2>2. thread'[u] = "destroyed"
        BY <1>2, <1>10 DEF Typed
    <2>3. \A x \in Greenlets : MainFor(x)' = MainFor(x)
        BY <1>10 DEF MainFor
    <2>4. CurrentInv'
        BY <1>2, <1>10, <2>1, <2>2, <2>3 DEF ControlInv, CurrentInv
    <2> QED BY <1>2, <1>10, <2>4 DEF ControlInv, NoneInv
<1>19. OneInv'
    <2>1. RunnersStay
        BY <1>2, <1>10 DEF RunnersStay, Typed
    <2>2. Alone(t)
        BY <1>1, Executing DEF Alone
    <2> QED BY <1>2, <1>3, <1>14, <2>1, <2>2, OneKept DEF ControlInv
<1> QED BY <1>2, <1>10, <1>12, <1>13, <1>17, <1>18, <1>19, TypedWhenExactNext
        DEF RefcountExact, Controlled, NotMurdered, ControlInv

LEMMA StartKeeps ==
    ASSUME RefInv, NEW t \in Threads, Start(t)
    PROVE  RefInv'
<1>1. Executes(t, "start")
    BY DEF Start
<1>2. /\ fault = "none" /\ Typed /\ ControlInv /\ current[t] \in Greenlets
      /\ thread[t] = "running" /\ calls[current[t]] # <<>>
      /\ Top(t) = Last(calls[current[t]])
      /\ \A x \in Greenlets : rc[x] = References(x) /\ rc[x] \in Nat
      /\ Top(t) \in Calls /\ Top(t).op = "start"
    BY <1>1, Executing
<1>3. PICK c \in Greenlets : c = current[t] /\ calls[c] # <<>>
    BY <1>2
<1>4. PICK g \in Greenlets : g = Top(t).of
    BY <1>2, CallKinds
<1>5. PICK m \in Greenlets : m = MainOf[t] /\ m \in Mains
    BY MainsFact
<1>6. PICK p \in Greenlets \cup {NoOne} : p = home[g]
    BY <1>2, MainsFact DEF Typed
<1>7. PICK s : s \in Seq(Greenlets) /\ s = Present(p)
    BY OccursPresent
<1>8. PICK z : IsQuiet(z) /\ z = Dropping(s)
    BY <1>7, QuietDropping
<1>9. PICK call \in Calls : call = Entering("stack", g, TRUE)
    BY Constructors
<1>10. PICK r : r \in Seq(Calls) /\ LoudAt(r, 1) /\ r = <<call>> \o z /\ r[1] = call
                /\ 1 \in 1..Len(r)
    BY <1>8, FirstThen
<1>11. /\ life' = [life EXCEPT ![g] = "dead"]
       /\ home' = [home EXCEPT ![g] = m]
       /\ rc' = [rc EXCEPT ![m] = @ + 1]
       /\ fault' = IF life[g] = "new" /\ rc[g] > 0 THEN "none" ELSE "torn"
       /\ calls' = Replaced(c, r)
       /\ UNCHANGED <<parent, attr, held, current, thread, deleteme, lost, asked, runs>>
    BY <1>3, <1>4, <1>5, <1>6, <1>7, <1>8, <1>9, <1>10 DEF Start
<1>12. rc \in [Greenlets -> Int]
    BY <1>2 DEF Typed
<1>13. Typed'
    <2>1. calls' \in [Greenlets -> Seq(Calls)]
        BY <1>2, <1>3, <1>10, <1>11, ReplacedOwned
    <2>2. rc' \in [Greenlets -> Int]
        BY <1>11, <1>12
    <2>3. /\ home' \in [Greenlets -> Mains \cup {NoOne}]
          /\ life' \in [Greenlets -> {"none", "new", "active", "dead", "freed"}]
        BY <1>2, <1>5, <1>11 DEF Typed
    <2> QED BY <1>2, <1>11, <2>1, <2>2, <2>3 DEF Typed
<1>14. ASSUME NEW x \in Greenlets PROVE rc'[x] = References(x)'
    <2>1. HomeOnly(g) /\ home'[g] = m
        BY <1>2, <1>11 DEF HomeOnly, Typed
    <2>2. Pointing(home', x) = Pointing(home, x) - Is(p, x) + Is(m, x)
        <3>1. Pointing(home', x) = Pointing(home, x) - Is(home[g], x) + Is(home'[g], x)
            BY <1>2, <1>13, <2>1, Updates
        <3> QED BY <1>6, <2>1, <3>1
    <2>3. OwnedIn(calls', Greenlets, x)
              = OwnedIn(calls, Greenlets, x) - Owns(Last(calls[c]), x) + OwnedBy(r, x)
        BY <1>2, <1>3, <1>10, <1>11, ReplacedOwned
    <2>4. Owns(Last(calls[c]), x) = 0
        BY <1>2, <1>3, OwnsNothing
    <2>5. OwnedBy(r, x) = Is(p, x)
        <3>1. OwnedBy(r, x) = Owns(call, x) + OwnedBy(z, x)
            BY <1>8, <1>10, FirstThen
        <3>2. Owns(call, x) = 0
            BY <1>9, OwnsNothing DEF Entering
        <3>3. OwnedBy(z, x) = Is(p, x)
            BY <1>7, <1>8, OwnedDropping, OccursPresent
        <3>4. Is(p, x) \in Nat
            BY DEF Is
        <3> QED BY <3>1, <3>2, <3>3, <3>4
    <2>6. rc'[x] = rc[x] + Is(m, x)
        BY <1>11, <1>12 DEF Is
    <2>7. Is(p, x) \in Nat /\ Is(m, x) \in Nat
        BY DEF Is
    <2>8. UNCHANGED <<parent, attr, held, current, deleteme, lost>> /\ Stated(x)' = Stated(x)
        BY <1>11 DEF Stated
    <2>9. Natural(x) /\ rc[x] = References(x)
        BY <1>2, RefsNat
    <2> QED BY <2>2, <2>3, <2>4, <2>5, <2>6, <2>7, <2>8, <2>9 DEF References, Natural
<1>15. ASSUME life[g] = "new", rc[g] > 0 PROVE ControlInv'
    <2>1. calls'[c] = Front(calls[c]) \o r /\ OthersKept(c)
        BY <1>2, <1>3, <1>10, <1>11, ReplacedOwned
    <2>2. life'[g] = "dead" /\ \A x \in Greenlets \ {g} : life'[x] = life[x] /\ home'[x] = home[x]
        BY <1>2, <1>11 DEF Typed
    <2>3. CountsKept
        <3>1. rc[m] >= 1
            BY <1>2, <1>5, Counted
        <3>2. \A x \in Greenlets : rc[x] = 0 => rc'[x] = 0
            BY <1>11, <1>12, <3>1
        <3> QED BY <1>11, <3>2 DEF CountsKept
    <2>4. PICK n : n = Len(calls[c]) - 1
        OBVIOUS
    <2>5. LivesKept(c, n)
        BY <1>15, <2>2 DEF LivesKept, Onward
    <2>6. ~Runs(g)
        BY <1>2, <1>15 DEF Runs, ControlInv, CurrentInv
    <2>7. RunnersKept
        BY <2>2, <2>6 DEF RunnersKept
    <2>8. CallOK(c, n + 1, call)'
        <3>1. ~Runs(g)'
            BY <1>11, <2>6 DEF Runs
        <3> QED BY <1>9, <2>2, <3>1 DEF CallOK, Entering
    <2>9. Fresh(c, n, call)
        <3> SUFFICES ASSUME NEW h, NEW i, NEW d, Remains(c, n, h, i, d),
                            Same(d, call) \/ Same(call, d)
                     PROVE  FALSE
            BY DEF Fresh
        <3>1. d.op \in {"stack", "jump"} /\ d.first /\ d.of = g
            BY <1>9 DEF Same, Entering
        <3> QED BY <1>2, <1>15, <3>1 DEF Remains, ControlInv, CallsInv, CallOK
    <2> QED BY <1>1, <1>3, <1>10, <1>11, <2>1, <2>3, <2>4, <2>5, <2>7, <2>8, <2>9, LoudAnswer
<1>16. fault' # "murdered" /\ (fault' = "none" => life[g] = "new" /\ rc[g] > 0)
    BY <1>11
<1> QED BY <1>13, <1>14, <1>15, <1>16, TypedWhenExactNext
        DEF RefcountExact, Controlled, NotMurdered

\* What the number of references that calls own becomes when c is left for g
Left(c, g, x) ==
    OwnedIn(calls', Greenlets, x)
        = (OwnedIn(calls, Greenlets, x) - Owns(Last(calls[c]), x)) + Is(c, x)

LEMMA JumpCalls ==
    ASSUME Typed, NEW c \in Greenlets, calls[c] # <<>>, NEW g \in Greenlets, g # c,
           NEW z, z = Dropping(<<c>>),
           calls' = [[calls EXCEPT ![c] = Front(@)] EXCEPT ![g] = @ \o z],
           NEW n, n = Len(calls[c]) - 1, NEW x
    PROVE  /\ calls' \in [Greenlets -> Seq(Calls)]
           /\ Left(c, g, x)
           /\ Kept(calls, calls', c, n, 0, Python)
           /\ Len(calls'[c]) = n /\ n \in Nat
           /\ \A h \in Greenlets \ {c, g} : calls'[h] = calls[h]
<1>1. calls \in [Greenlets -> Seq(Calls)] /\ calls[c] \in Seq(Calls) /\ calls[g] \in Seq(Calls)
    BY DEF Typed
<1>2. PICK e : e \in Seq(Calls) /\ e = <<>> /\ Len(e) = 0
    <2>1. <<>> \in Seq(Calls) /\ Len(<<>>) = 0
        OBVIOUS
    <2> QED BY <2>1
<1>3. Front(calls[c]) \in Seq(Calls)
    BY <1>1, OwnedFront
<1>4. Front(calls[c]) \o e = Front(calls[c])
    BY <1>2, <1>3, ConcatEmptySeq
<1>5. PICK ds : ds = Replaced(c, e)
    OBVIOUS
<1>6. ds \in [Greenlets -> Seq(Calls)]
    BY <1>2, <1>5, CallUpdates
<1>7. OwnedIn(ds, Greenlets, x) = OwnedIn(calls, Greenlets, x) - Owns(Last(calls[c]), x) + 0
    <2>1. OwnedIn(ds, Greenlets, x)
              = OwnedIn(calls, Greenlets, x) - Owns(Last(calls[c]), x) + OwnedBy(e, x)
        BY <1>2, <1>5, CallUpdates
    <2>2. OwnedBy(e, x) = 0
        BY <1>2, OwnedEmpty
    <2> QED BY <2>1, <2>2
<1>8. ds[c] = Front(calls[c]) /\ \A h \in Greenlets \ {c} : ds[h] = calls[h]
    BY <1>1, <1>4, <1>5 DEF Replaced
<1>9. <<c>> \in Seq(Greenlets)
    OBVIOUS
<1>10. z \in Seq(Calls) /\ IsQuiet(z)
    BY <1>9, QuietDropping DEF IsQuiet
<1>11. calls' = [ds EXCEPT ![g] = @ \o z]
    <2>1. ds = [calls EXCEPT ![c] = Front(@)]
        BY <1>1, <1>4, <1>5 DEF Replaced
    <2> QED BY <1>1, <2>1
<1>12. PICK es : es = calls'
    OBVIOUS
<1>13. es = [ds EXCEPT ![g] = @ \o z]
    BY <1>11, <1>12
<1>14. ds[g] \o z \in Seq(Calls)
    BY <1>6, <1>10, ConcatProperties
<1>15. es \in [Greenlets -> Seq(Calls)]
    BY <1>6, <1>13, <1>14
<1>16. es[g] = ds[g] \o z /\ \A h \in Greenlets \ {g} : es[h] = ds[h]
    BY <1>6, <1>13
<1>17. Left(c, g, x)
    <2>1. OwnedIn([ds EXCEPT ![g] = @ \o z], Greenlets, x) = OwnedIn(ds, Greenlets, x) + OwnedBy(z, x)
        BY <1>6, <1>10, OwnedCalled, ZenonT(30)
    <2>2. OwnedBy(z, x) = Is(c, x)
        BY <1>9, OwnedDropping, OccursOne
    <2>3. PICK k \in Int : k = OwnedIn(calls, Greenlets, x) - Owns(Last(calls[c]), x)
        <3>1. Owns(Last(calls[c]), x) \in Nat
            BY <1>2, CallUpdates
        <3>2. OwnedIn(calls, Greenlets, x) \in Nat
            BY <1>1, OwnedUpdate
        <3> QED BY <3>1, <3>2
    <2>4. OwnedIn(ds, Greenlets, x) = k
        BY <1>7, <2>3
    <2>5. OwnedIn(es, Greenlets, x) = k + Is(c, x)
        BY <1>13, <2>1, <2>2, <2>4
    <2> QED BY <1>12, <2>3, <2>5 DEF Left
<1>18. n \in 0..Len(calls[c]) /\ n \in Nat
    BY <1>1, EmptySeq
<1>19. ds[c] = SubSeq(calls[c], 1, n) \o e
    BY <1>4, <1>8 DEF Front
<1>20. Kept(calls, ds, c, n, 0, Python)
    <2>1. IsQuiet(e)
        BY <1>2, QuietEmpty
    <2> QED BY <1>1, <1>2, <1>8, <1>18, <1>19, <2>1, KeptBy
<1>21. Len(ds[c]) = n + 0
    BY <1>1, <1>2, <1>8, <1>18, <1>19, KeptBy
<1>22. PICK m : m = Len(ds[g])
    OBVIOUS
<1>23. Kept(ds, es, g, m, 0, Python)
    <2>1. SubSeq(ds[g], 1, m) = ds[g] /\ m \in 0..Len(ds[g])
        BY <1>6, <1>22, SubSeqFull
    <2>2. es[g] = SubSeq(ds[g], 1, m) \o z
        BY <1>16, <2>1
    <2> QED BY <1>6, <1>10, <1>16, <2>1, <2>2, KeptBy
<1>24. ~Loud(Python)
    BY DEF Loud, Python
<1>25. Kept(calls, es, c, n, 0, Python)
    <2> SUFFICES ASSUME NEW h \in Greenlets, NEW i \in DOMAIN es[h], Loud(es[h][i])
                 PROVE  i \in DOMAIN calls[h] /\ es[h][i] = calls[h][i] /\ (h = c => i <= n)
        BY DEF Kept
    <2>1. i \in DOMAIN ds[h] /\ es[h][i] = ds[h][i]
        BY <1>23, <1>24 DEF Kept
    <2> QED BY <1>20, <1>24, <2>1 DEF Kept
<1>26. Len(es[c]) = n /\ \A h \in Greenlets \ {c, g} : es[h] = calls[h]
    BY <1>8, <1>16, <1>18, <1>21
<1> QED BY <1>12, <1>15, <1>17, <1>18, <1>25, <1>26

LEMMA JumpKeeps ==
    ASSUME RefInv, NEW t \in Threads, Jump(t)
    PROVE  RefInv'
<1>1. Executes(t, "jump")
    BY DEF Jump
<1>2. /\ fault = "none" /\ Typed /\ TypeOK /\ ControlInv /\ current[t] \in Greenlets
      /\ thread[t] = "running" /\ calls[current[t]] # <<>>
      /\ calls[current[t]] \in Seq(Calls)
      /\ Top(t) = Last(calls[current[t]])
      /\ \A x \in Greenlets : rc[x] = References(x) /\ rc[x] \in Nat
      /\ Top(t) \in Calls /\ Top(t).op = "jump"
      /\ Len(calls[current[t]]) \in DOMAIN calls[current[t]]
      /\ Top(t) = calls[current[t]][Len(calls[current[t]])]
    BY <1>1, Executing
<1>3. PICK c \in Greenlets : c = current[t] /\ calls[c] # <<>>
    BY <1>2
<1>4. PICK g \in Greenlets : g = Top(t).of
    BY <1>2, CallKinds
<1>5. PICK first \in BOOLEAN : first = Top(t).first
    BY <1>2, CallKinds
<1>6. UNCHANGED <<parent, home, attr, held, thread, deleteme, lost, asked>>
    BY DEF Jump
<1>7. \/ /\ fault' = "torn" /\ UNCHANGED <<life, current, rc, calls, runs>>
      \/ /\ life[g] = (IF first THEN "dead" ELSE "active")
         /\ rc[g] > 0 /\ MainFor(g) = MainOf[t]
         /\ life[c] = "dead" => Len(calls[c]) = 1
         /\ fault' = fault
         /\ life' = [life EXCEPT ![g] = "active"]
         /\ current' = [current EXCEPT ![t] = g]
         /\ rc' = [rc EXCEPT ![g] = @ + 1]
         /\ runs' = [runs EXCEPT ![g] = IF first THEN @ + 1 ELSE @]
         /\ calls' = [[calls EXCEPT ![c] = IF life[c] = "dead" THEN <<>> ELSE Front(@)]
                          EXCEPT ![g] = @ \o Dropping(<<c>>)]
    BY <1>3, <1>4, <1>5 DEF Jump
<1>8. CASE fault' = "torn" /\ UNCHANGED <<life, current, rc, calls, runs>>
    <2>1. TypeOK'
        BY <1>2, <1>6, <1>8 DEF TypeOK
    <2>2. \A x \in Greenlets : References(x)' = References(x)
        BY <1>6, <1>8 DEF References, Stated
    <2>3. RefcountExact'
        BY <1>2, <1>8, <2>2 DEF RefcountExact
    <2> QED BY <1>8, <2>1, <2>3 DEF RefInv, Controlled
<1>9. CASE /\ life[g] = (IF first THEN "dead" ELSE "active")
           /\ rc[g] > 0 /\ MainFor(g) = MainOf[t]
           /\ life[c] = "dead" => Len(calls[c]) = 1
           /\ fault' = fault
           /\ life' = [life EXCEPT ![g] = "active"]
           /\ current' = [current EXCEPT ![t] = g]
           /\ rc' = [rc EXCEPT ![g] = @ + 1]
           /\ runs' = [runs EXCEPT ![g] = IF first THEN @ + 1 ELSE @]
           /\ calls' = [[calls EXCEPT ![c] = IF life[c] = "dead" THEN <<>> ELSE Front(@)]
                            EXCEPT ![g] = @ \o Dropping(<<c>>)]
    <2>1. PICK z : IsQuiet(z) /\ z \in Seq(Calls) /\ z = Dropping(<<c>>)
        <3>1. <<c>> \in Seq(Greenlets)
            OBVIOUS
        <3> QED BY <3>1, QuietDropping DEF IsQuiet
    <2>2. (IF life[c] = "dead" THEN <<>> ELSE Front(calls[c])) = Front(calls[c])
        <3>1. ASSUME Len(calls[c]) = 1 PROVE Front(calls[c]) = <<>>
            <4>1. Front(calls[c]) = SubSeq(calls[c], 1, 0)
                BY <3>1 DEF Front
            <4> QED BY <1>2, <1>3, <4>1, SubSeqEmpty
        <3> QED BY <1>9, <3>1
    <2>3. calls' = [[calls EXCEPT ![c] = Front(@)] EXCEPT ![g] = @ \o z]
        BY <1>2, <1>9, <2>1, <2>2 DEF Typed
    <2>4. rc \in [Greenlets -> Int]
        BY <1>2 DEF Typed
    <2>5. first => ~Runs(g) /\ g # c
        <3>1. first => ~Runs(g)
            <4>1. CallOK(c, Len(calls[c]), Top(t))
                BY <1>2, <1>3 DEF ControlInv, CallsInv
            <4>2. first => Top(t).first
                BY <1>5
            <4> QED BY <1>2, <1>4, <4>1, <4>2 DEF CallOK
        <3> QED BY <1>2, <1>3, <3>1 DEF Runs
    <2>6. \A x \in Greenlets : OwnedBy(z, x) = Is(c, x) /\ Is(c, x) \in Nat
        <3> TAKE x \in Greenlets
        <3>1. <<c>> \in Seq(Greenlets)
            OBVIOUS
        <3>2. OwnedBy(z, x) = Is(c, x)
            BY <2>1, <3>1, OwnedDropping, OccursOne
        <3> QED BY <3>2 DEF Is
    <2>7. /\ life' \in [Greenlets -> {"none", "new", "active", "dead", "freed"}]
          /\ current' \in [Threads -> Greenlets \cup {NoOne}]
          /\ rc' \in [Greenlets -> Int]
          /\ runs' \in [Greenlets -> Nat]
        <3>1. rc' \in [Greenlets -> Int]
            BY <1>9, <2>4
        <3>2. runs' \in [Greenlets -> Nat]
            <4>1. runs \in [Greenlets -> Nat]
                BY <1>2 DEF Typed
            <4>2. (IF first THEN runs[g] + 1 ELSE runs[g]) \in Nat
                BY <4>1
            <4>3. runs' = [runs EXCEPT ![g] = IF first THEN @ + 1 ELSE @]
                BY <1>9
            <4> QED BY <4>1, <4>2, <4>3
        <3>3. /\ life' \in [Greenlets -> {"none", "new", "active", "dead", "freed"}]
              /\ current' \in [Threads -> Greenlets \cup {NoOne}]
            BY <1>2, <1>9 DEF Typed
        <3> QED BY <3>1, <3>2, <3>3
    <2>8. CountsKept
        <3>1. \A x \in Greenlets : rc[x] = 0 => rc'[x] = 0
            BY <1>9, <2>4
        <3> QED BY <1>6, <3>1 DEF CountsKept
    <2>9. life'[g] = "active" /\ \A x \in Greenlets \ {g} : life'[x] = life[x]
        BY <1>2, <1>9 DEF Typed
    <2>10. CASE g = c
        <3>1. calls' = Replaced(c, z)
            <4>1. calls \in [Greenlets -> Seq(Calls)]
                BY <1>2 DEF Typed
            <4>2. PICK f : f = Front(calls[c])
                OBVIOUS
            <4>3. PICK ds : ds = [calls EXCEPT ![c] = f]
                OBVIOUS
            <4>4. DOMAIN ds = Greenlets /\ ds[c] = f /\ \A x \in Greenlets \ {c} : ds[x] = calls[x]
                BY <4>1, <4>3
            <4>5. calls' = [ds EXCEPT ![c] = @ \o z]
                BY <2>3, <2>10, <4>2, <4>3
            <4>6. [ds EXCEPT ![c] = @ \o z] = [calls EXCEPT ![c] = f \o z]
                BY <4>1, <4>4
            <4> QED BY <4>2, <4>5, <4>6 DEF Replaced
        <3>2. current' = current /\ life' = life
            BY <1>2, <1>3, <1>9, <2>5, <2>10 DEF Typed
        <3>3. Typed'
            <4>1. calls' \in [Greenlets -> Seq(Calls)]
                BY <1>2, <1>3, <2>1, <3>1, ReplacedOwned
            <4> QED BY <1>2, <1>6, <1>9, <2>7, <4>1 DEF Typed
        <3>4. ASSUME NEW x \in Greenlets PROVE rc'[x] = References(x)'
            <4>1. OwnedIn(calls', Greenlets, x)
                      = OwnedIn(calls, Greenlets, x) - Owns(Last(calls[c]), x) + OwnedBy(z, x)
                BY <1>2, <1>3, <2>1, <3>1, ReplacedOwned
            <4>2. Owns(Last(calls[c]), x) = 0
                BY <1>2, <1>3, OwnsNothing
            <4>3. OwnedBy(z, x) = Is(c, x) /\ Is(c, x) \in Nat
                BY <2>6
            <4>4. rc'[x] = rc[x] + Is(c, x)
                BY <1>9, <2>4, <2>10 DEF Is
            <4>5. UNCHANGED <<parent, home, attr, held, current, deleteme, lost>> /\ Stated(x)' = Stated(x)
                BY <1>6, <3>2 DEF Stated
            <4>6. Natural(x) /\ rc[x] = References(x)
                BY <1>2, RefsNat
            <4> QED BY <4>1, <4>2, <4>3, <4>4, <4>5, <4>6 DEF References, Natural
        <3>5. ControlInv'
            <4>1. calls'[c] = Front(calls[c]) \o z /\ OthersKept(c)
                BY <1>2, <1>3, <2>1, <3>1, ReplacedOwned
            <4>2. LivesKept(c, Len(calls[c]) - 1) /\ RunnersKept
                BY <1>6, <3>2 DEF LivesKept, Onward, RunnersKept
            <4> QED BY <1>1, <1>3, <1>6, <2>1, <2>8, <3>2, <4>1, <4>2, QuietAnswer
        <3> QED BY <1>2, <1>9, <3>3, <3>4, <3>5, TypedWhenExactNext
                DEF RefcountExact, Controlled, NotMurdered
    <2>11. CASE g # c
        <3>1. ~Runs(g)
            <4>1. CASE first
                BY <2>5, <4>1
            <4>2. CASE ~first
                <5> SUFFICES ASSUME NEW u \in Threads, thread[u] = "running", current[u] = g
                             PROVE  FALSE
                    BY DEF Runs
                <5>1. MainFor(g) = MainOf[u]
                    BY <1>2, <1>9, <4>2 DEF ControlInv, CurrentInv
                <5>2. u = t
                    BY <1>9, <5>1, MainOfAssumption
                <5> QED BY <1>3, <2>11, <5>2
            <4> QED BY <4>1, <4>2
        <3>2. PICK n : n = Len(calls[c]) - 1
            OBVIOUS
        <3>3. /\ Typed /\ c \in Greenlets /\ calls[c] # <<>> /\ g \in Greenlets /\ g # c
              /\ z = Dropping(<<c>>)
              /\ calls' = [[calls EXCEPT ![c] = Front(@)] EXCEPT ![g] = @ \o z]
              /\ n = Len(calls[c]) - 1
            BY <1>2, <1>3, <2>1, <2>3, <2>11, <3>2
        <3>4. /\ calls' \in [Greenlets -> Seq(Calls)]
              /\ Kept(calls, calls', c, n, 0, Python)
              /\ Len(calls'[c]) = n /\ n \in Nat
              /\ \A h \in Greenlets \ {c, g} : calls'[h] = calls[h]
            BY <3>3, JumpCalls
        <3>5. Typed'
            BY <1>2, <1>6, <1>9, <2>7, <3>4 DEF Typed
        <3>6. ASSUME NEW x \in Greenlets PROVE rc'[x] = References(x)'
            <4>1. CurrentOnly(t) /\ current'[t] = g
                BY <1>2, <1>9 DEF CurrentOnly, Typed
            <4>2. Pointing(current', x) = Pointing(current, x) - Is(current[t], x) + Is(current'[t], x)
                BY <1>2, <3>5, <4>1, Updates
            <4>3. Pointing(current', x) = Pointing(current, x) - Is(c, x) + Is(g, x)
                BY <1>3, <4>1, <4>2
            <4>4. Left(c, g, x)
                BY <3>3, JumpCalls
            <4>5. Owns(Last(calls[c]), x) = 0
                BY <1>2, <1>3, OwnsNothing
            <4>6. rc'[x] = rc[x] + Is(g, x)
                BY <1>9, <2>4 DEF Is
            <4>7. Is(c, x) \in Nat /\ Is(g, x) \in Nat
                BY DEF Is
            <4>8. UNCHANGED <<parent, home, attr, held, deleteme, lost>> /\ Stated(x)' = Stated(x)
                BY <1>6 DEF Stated
            <4>9. Natural(x) /\ rc[x] = References(x)
                BY <1>2, RefsNat
            <4> QED BY <4>3, <4>4, <4>5, <4>6, <4>7, <4>8, <4>9 DEF References, Natural, Left
        <3>7. /\ current'[t] = g
              /\ \A u \in Threads \ {t} : current'[u] = current[u]
              /\ thread' = thread
            BY <1>2, <1>6, <1>9 DEF Typed
        <3>8. StillOK(c, n)
            <4> SUFFICES ASSUME NEW h, NEW i, NEW d, Remains(c, n, h, i, d)
                         PROVE  CallOK(h, i, d)'
                BY DEF StillOK
            <4>1. h \in Greenlets /\ i \in DOMAIN calls[h] /\ d = calls[h][i] /\ Loud(d)
                  /\ (h = c => i <= n)
                BY DEF Remains
            <4>2. d \in Calls
                <5>1. calls[h] \in Seq(Calls)
                    BY <1>2, <4>1 DEF Typed
                <5> QED BY <4>1, <5>1, ElementOfSeq
            <4>3. CallOK(h, i, d)
                BY <1>2, <4>1 DEF ControlInv, CallsInv
            <4>4. Len(calls[c]) \in Nat /\ ~(Len(calls[c]) <= n)
                BY <1>2, <1>3, <3>2
            <4>5. CASE d.op = "dealloc"
                <5>1. h = c /\ i = Len(calls[c])
                    BY <1>1, <1>3, <4>1, <4>5, Executing
                <5> QED BY <4>1, <4>4, <5>1
            <4>6. CASE d.op \in {"free", "delete"}
                <5>1. d.of \in Greenlets
                    BY <4>2, <4>6, CallKinds
                <5>2. rc[d.of] = 0 /\ life[d.of] # "none"
                    BY <4>3, <4>6 DEF CallOK
                <5>3. rc'[d.of] = 0 /\ life'[d.of] # "none"
                    BY <1>9, <2>4, <2>9, <5>1, <5>2
                <5> QED BY <4>6, <5>3 DEF CallOK
            <4>7. CASE d.op = "new"
                <5>1. d.of \in Greenlets
                    BY <4>2, <4>7, CallKinds
                <5>2. life[d.of] = "none"
                    BY <4>3, <4>7 DEF CallOK
                <5>3. life'[d.of] = "none"
                    BY <1>9, <2>9, <5>1, <5>2
                <5> QED BY <4>7, <5>3 DEF CallOK
            <4>8. CASE d.op \in {"stack", "jump"} /\ d.first
                <5>1. d.of \in Greenlets
                    BY <4>2, <4>8, CallKinds
                <5>2. life[d.of] \in {"dead", "freed"} /\ ~Runs(d.of)
                    BY <4>3, <4>8 DEF CallOK
                <5>3. d.of # g
                    <6>1. ASSUME d.of = g, first PROVE FALSE
                        <7>1. Same(d, Top(t))
                            BY <1>2, <1>4, <1>5, <4>8, <6>1 DEF Same
                        <7>2. h = c /\ i = Len(calls[c])
                            BY <1>2, <1>3, <4>1, <7>1 DEF ControlInv, UniqueInv
                        <7> QED BY <4>1, <4>4, <7>2
                    <6> QED BY <1>9, <5>2, <6>1
                <5>4. ~Runs(d.of)'
                    BY <3>7, <5>2, <5>3 DEF Runs
                <5>5. life'[d.of] \in {"dead", "freed"}
                    BY <2>9, <5>1, <5>2, <5>3
                <5>6. PICK x \in Greenlets : x = d.of
                    BY <5>1
                <5> QED BY <4>8, <5>4, <5>5, <5>6 DEF CallOK
            <4>9. CASE d.op = "destroy"
                BY <3>7, <4>3, <4>9 DEF CallOK
            <4> QED BY <4>1, <4>5, <4>6, <4>7, <4>8, <4>9 DEF Loud
        <3>9. CallsInv' /\ UniqueInv'
            <4>1. 0 \notin DOMAIN calls'[c]
                <5>1. calls'[c] \in Seq(Calls)
                    BY <3>4
                <5> QED BY <5>1
            <4> QED BY <1>2, <3>4, <3>8, <4>1, CallsKept DEF ControlInv
        <3>10. CurrentInv'
            <4> SUFFICES ASSUME NEW u \in Threads
                         PROVE  /\ thread[u] = "running" =>
                                       /\ current'[u] \in Greenlets
                                       /\ life'[current'[u]] \in {"active", "dead"}
                                       /\ life'[current'[u]] = "active" =>
                                              MainFor(current[u])' = MainOf[u]
                                /\ thread[u] = "exited" => current'[u] = MainOf[u]
                BY <3>7 DEF CurrentInv
            <4>1. \A x : MainFor(x)' = MainFor(x)
                BY <1>6 DEF MainFor
            <4>2. CASE u = t
                BY <1>2, <1>9, <2>9, <3>7, <4>1, <4>2
            <4>3. CASE u # t
                <5>1. current'[u] = current[u]
                    BY <3>7, <4>3
                <5>2. thread[u] = "running" => current[u] # g
                    BY <3>1 DEF Runs
                <5>3. MainFor(current[u])' = MainFor(current[u])
                    BY <4>1, <5>1
                <5> QED BY <1>2, <2>9, <5>1, <5>2, <5>3 DEF ControlInv, CurrentInv
            <4> QED BY <4>2, <4>3
        <3>11. OneInv'
            <4>1. ASSUME NEW u \in Threads \ {t}, InC(u)' PROVE FALSE
                <5>1. thread[u] = "running" /\ calls'[current[u]] # <<>>
                      /\ Last(calls'[current[u]]).op # "python"
                    BY <3>7, <4>1 DEF InC, Top
                <5>2. current[u] # c /\ current[u] # g /\ current[u] \in Greenlets
                    BY <1>2, <1>3, <3>1, <5>1 DEF Runs, ControlInv, OneInv, CurrentInv
                <5>3. calls'[current[u]] = calls[current[u]]
                    BY <3>4, <5>2
                <5>4. InC(u)
                    BY <5>1, <5>3 DEF InC, Top
                <5> QED BY <1>1, <5>4, Executing
            <4>2. ASSUME NEW u \in Threads, NEW v \in Threads,
                         thread[u] = "running", thread[v] = "running", current'[u] = current'[v]
                  PROVE  u = v
                BY <1>2, <3>1, <3>7, <4>2 DEF Runs, ControlInv, OneInv
            <4> QED BY <3>7, <4>1, <4>2 DEF OneInv
        <3>12. NoneInv'
            <4> SUFFICES ASSUME NEW x \in Greenlets, life'[x] = "none"
                         PROVE  rc'[x] = 0 /\ parent'[x] = NoOne
                BY DEF NoneInv
            <4>1. x # g /\ life[x] = "none"
                BY <2>9
            <4> QED BY <1>2, <1>6, <1>9, <2>4, <4>1 DEF ControlInv, NoneInv
        <3> QED BY <1>2, <1>9, <3>5, <3>6, <3>9, <3>10, <3>11, <3>12, TypedWhenExactNext
                DEF RefcountExact, Controlled, NotMurdered, ControlInv
    <2> QED BY <2>10, <2>11
<1> QED BY <1>7, <1>8, <1>9


\* How many components of f in S are g, or contain g
Part(f, S, g) == Cardinality({x \in S : f[x] = g})
Share(f, S, g) == Cardinality({x \in S : g \in f[x]})

\* The function d is f cleared in S.
ClearedIn(f, d, S, g) ==
    /\ DOMAIN d = DOMAIN f
    /\ \A x \in DOMAIN f \ S : d[x] = f[x]
    /\ \A x \in S : d[x] # g
EmptiedIn(f, d, S, g) ==
    /\ DOMAIN d = DOMAIN f
    /\ \A x \in DOMAIN f \ S : d[x] = f[x]
    /\ \A x \in S : g \notin d[x]

LEMMA PointingCleared ==
    ASSUME NEW f, IsFiniteSet(DOMAIN f), NEW S \in SUBSET DOMAIN f, NEW d, NEW g,
           ClearedIn(f, d, S, g)
    PROVE  /\ Part(f, S, g) \in Nat /\ Pointing(d, g) \in Nat
           /\ Pointing(f, g) = Pointing(d, g) + Part(f, S, g)
<1>1. PICK A : A = {x \in DOMAIN f : f[x] = g}
    OBVIOUS
<1>2. PICK B : B = {x \in DOMAIN d : d[x] = g}
    OBVIOUS
<1>3. PICK C : C = {x \in S : f[x] = g}
    OBVIOUS
<1>4. B \subseteq DOMAIN f /\ C \subseteq DOMAIN f /\ A = B \cup C /\ B \cap C = {}
    BY <1>1, <1>2, <1>3 DEF ClearedIn
<1>5. IsFiniteSet(B) /\ IsFiniteSet(C)
    BY <1>4, FS_Subset
<1>6. Cardinality(B \cup C) = Cardinality(B) + Cardinality(C)
    BY <1>4, <1>5, DisjointUnion
<1> QED BY <1>1, <1>2, <1>3, <1>4, <1>5, <1>6, FS_CardinalityType DEF Pointing, Part

LEMMA HoldingCleared ==
    ASSUME NEW f, IsFiniteSet(DOMAIN f), NEW S \in SUBSET DOMAIN f, NEW d, NEW g,
           EmptiedIn(f, d, S, g)
    PROVE  /\ Share(f, S, g) \in Nat /\ Holding(d, g) \in Nat
           /\ Holding(f, g) = Holding(d, g) + Share(f, S, g)
<1>1. PICK A : A = {x \in DOMAIN f : g \in f[x]}
    OBVIOUS
<1>2. PICK B : B = {x \in DOMAIN d : g \in d[x]}
    OBVIOUS
<1>3. PICK C : C = {x \in S : g \in f[x]}
    OBVIOUS
<1>4. B \subseteq DOMAIN f /\ C \subseteq DOMAIN f /\ A = B \cup C /\ B \cap C = {}
    BY <1>1, <1>2, <1>3 DEF EmptiedIn
<1>5. IsFiniteSet(B) /\ IsFiniteSet(C)
    BY <1>4, FS_Subset
<1>6. Cardinality(B \cup C) = Cardinality(B) + Cardinality(C)
    BY <1>4, <1>5, DisjointUnion
<1> QED BY <1>1, <1>2, <1>3, <1>4, <1>5, <1>6, FS_CardinalityType DEF Holding, Share

LEMMA TokensInFinite ==
    ASSUME NEW cs \in [Greenlets -> Seq(Calls)], NEW S \in SUBSET Greenlets, NEW g
    PROVE  IsFiniteSet(TokensIn(cs, S, g)) /\ OwnedIn(cs, S, g) \in Nat
<1> DEFINE F == [h \in Greenlets |-> Tokens(cs[h], g)]
<1>1. \A x \in S : IsFiniteSet(F[x])
    BY TokensFinite
<1>2. TokensIn(cs, S, g) = UNION {{x} \X F[x] : x \in S}
    BY DEF TokensIn
<1>3. IsFiniteSet(S)
    BY FiniteAssumption, FS_Subset
<1> HIDE DEF F
<1>4. IsFiniteSet(UNION {{x} \X F[x] : x \in S})
    BY <1>1, <1>3, FamilyFinite
<1> QED BY <1>2, <1>4, FS_CardinalityType DEF OwnedIn

\* The calls of the greenlets in D are gone.
Without(cs, D) == [h \in Greenlets |-> IF h \in D THEN <<>> ELSE cs[h]]

LEMMA OwnedAbandoned ==
    ASSUME NEW cs \in [Greenlets -> Seq(Calls)], NEW D \in SUBSET Greenlets, NEW g,
           NEW es, es = Without(cs, D)
    PROVE  /\ es \in [Greenlets -> Seq(Calls)]
           /\ OwnedIn(cs, D, g) \in Nat /\ OwnedIn(es, Greenlets, g) \in Nat
           /\ OwnedIn(cs, Greenlets, g) = OwnedIn(es, Greenlets, g) + OwnedIn(cs, D, g)
<1>1. es \in [Greenlets -> Seq(Calls)]
    BY EmptySeq DEF Without
<1>2. PICK A : A = TokensIn(es, Greenlets, g)
    OBVIOUS
<1>3. PICK B : B = TokensIn(cs, D, g)
    OBVIOUS
<1>4. IsFiniteSet(A) /\ IsFiniteSet(B)
    <2>1. Greenlets \in SUBSET Greenlets
        OBVIOUS
    <2> QED BY <1>1, <1>2, <1>3, <2>1, TokensInFinite
<1>5. A = TokensIn(cs, Greenlets \ D, g)
    <2>1. \A h \in D : es[h] = <<>>
        BY DEF Without
    <2>2. \A h \in D : Tokens(es[h], g) = {}
        BY <2>1 DEF Tokens
    <2>3. \A h \in Greenlets \ D : es[h] = cs[h]
        BY DEF Without
    <2>4. \A h \in Greenlets \ D : Tokens(es[h], g) = Tokens(cs[h], g)
        BY <2>3
    <2>5. \A p : p \in A <=> \E h \in Greenlets : p \in {h} \X Tokens(es[h], g)
        BY <1>2 DEF TokensIn
    <2>6. \A p : p \in TokensIn(cs, Greenlets \ D, g)
                    <=> \E h \in Greenlets \ D : p \in {h} \X Tokens(cs[h], g)
        BY DEF TokensIn
    <2>7. ASSUME NEW p, p \in A PROVE p \in TokensIn(cs, Greenlets \ D, g)
        <3>1. PICK h \in Greenlets : p \in {h} \X Tokens(es[h], g)
            BY <2>5, <2>7
        <3>2. h \in Greenlets \ D
            BY <2>2, <3>1
        <3> QED BY <2>4, <2>6, <3>1, <3>2
    <2>8. ASSUME NEW p, p \in TokensIn(cs, Greenlets \ D, g) PROVE p \in A
        <3>1. PICK h \in Greenlets \ D : p \in {h} \X Tokens(cs[h], g)
            BY <2>6, <2>8
        <3> QED BY <2>4, <2>5, <3>1
    <2> QED BY <2>7, <2>8
<1>6. TokensIn(cs, Greenlets, g) = A \cup B
    BY <1>3, <1>5 DEF TokensIn
<1>7. A \cap B = {}
    BY <1>3, <1>5 DEF TokensIn
<1>8. Cardinality(A \cup B) = Cardinality(A) + Cardinality(B)
    BY <1>4, <1>7, DisjointUnion
<1>9. Cardinality(A) \in Nat /\ Cardinality(B) \in Nat
    BY <1>4, FS_CardinalityType
<1>10. /\ OwnedIn(cs, D, g) = Cardinality(B) /\ OwnedIn(es, Greenlets, g) = Cardinality(A)
       /\ OwnedIn(cs, Greenlets, g) = Cardinality(A \cup B)
    BY <1>2, <1>3, <1>6 DEF OwnedIn
<1> QED BY <1>1, <1>8, <1>9, <1>10

LEMMA FieldsFinite ==
    ASSUME NEW S \in SUBSET Greenlets
    PROVE  IsFiniteSet(Fields(S))
<1> DEFINE K == {"dict", "parent", "main"}
           P == (S \X K) \X Greenlets
           f == [p \in P |-> <<p[1][1], p[1][2], p[2]>>]
<1>1. IsFiniteSet(S) /\ IsFiniteSet(Greenlets)
    BY FiniteAssumption, FS_Subset
<1>2. IsFiniteSet(K)
    <2>1. IsFiniteSet({"dict"} \cup {"parent"}) /\ IsFiniteSet({"main"})
        BY FS_Singleton, FS_Union
    <2>2. IsFiniteSet(({"dict"} \cup {"parent"}) \cup {"main"})
        BY <2>1, FS_Union
    <2>3. K = ({"dict"} \cup {"parent"}) \cup {"main"}
        OBVIOUS
    <2> QED BY <2>2, <2>3
<1> HIDE DEF K
<1>3. IsFiniteSet(S \X K)
    BY <1>1, <1>2, FS_Product
<1>4. IsFiniteSet(P)
    BY <1>1, <1>3, FS_Product
<1>5. /\ f \in [P -> S \X K \X Greenlets]
      /\ \A x, y \in P : f[x] = f[y] => x = y
      /\ \A y \in S \X K \X Greenlets : \E x \in P : f[x] = y
    <2>1. f \in [P -> S \X K \X Greenlets]
        OBVIOUS
    <2>2. ASSUME NEW x \in P, NEW y \in P, f[x] = f[y] PROVE x = y
        <3>1. /\ x = <<<<x[1][1], x[1][2]>>, x[2]>> /\ y = <<<<y[1][1], y[1][2]>>, y[2]>>
            OBVIOUS
        <3>2. x[1][1] = y[1][1] /\ x[1][2] = y[1][2] /\ x[2] = y[2]
            BY <2>2
        <3> QED BY <3>1, <3>2
    <2>3. ASSUME NEW y \in S \X K \X Greenlets PROVE \E x \in P : f[x] = y
        <3>1. PICK a \in S, b \in K, c \in Greenlets : y = <<a, b, c>>
            OBVIOUS
        <3>2. <<<<a, b>>, c>> \in P /\ f[<<<<a, b>>, c>>] = y
            BY <3>1
        <3> QED BY <3>2
    <2> QED BY <2>1, <2>2, <2>3
<1> HIDE DEF f, P
<1>6. IsFiniteSet(S \X K \X Greenlets)
    BY <1>4, <1>5, Carries
<1>7. Fields(S) \in SUBSET (S \X K \X Greenlets)
    BY DEF Fields, K
<1> QED BY <1>6, <1>7, FS_Subset

\* The references to x in the greenlets S, and how many they are
FieldsTo(S, x) == {r \in Fields(S) : r[3] = x}
FieldTo(r, g, x) ==
    \/ r = <<g, "dict", x>> /\ x \in attr[g]
    \/ r = <<g, "parent", x>> /\ parent[g] = x
    \/ r = <<g, "main", x>> /\ home[g] = x

LEMMA FieldsVisited ==
    ASSUME NEW S \in SUBSET Greenlets, NEW x \in Greenlets
    PROVE  IsFiniteSet(FieldsTo(S, x)) /\ Cardinality(FieldsTo(S, x)) = Visited(S, x)
<1> DEFINE D == {g \in S : x \in attr[g]}
           P == {g \in S : parent[g] = x}
           H == {g \in S : home[g] = x}
           fd == [g \in D |-> <<g, "dict", x>>]
           fp == [g \in P |-> <<g, "parent", x>>]
           fh == [g \in H |-> <<g, "main", x>>]
           RD == {r \in FieldsTo(S, x) : r[2] = "dict"}
           RP == {r \in FieldsTo(S, x) : r[2] = "parent"}
           RH == {r \in FieldsTo(S, x) : r[2] = "main"}
<1>1. IsFiniteSet(D) /\ IsFiniteSet(P) /\ IsFiniteSet(H)
    <2>1. IsFiniteSet(S)
        BY FiniteAssumption, FS_Subset
    <2>2. D \in SUBSET S /\ P \in SUBSET S /\ H \in SUBSET S
        OBVIOUS
    <2> QED BY <2>1, <2>2, FS_Subset
<1>2. \A r : r \in FieldsTo(S, x) <=> \E g \in S : FieldTo(r, g, x)
    <2>1. ASSUME NEW r, r \in FieldsTo(S, x)
          PROVE  \E g \in S : FieldTo(r, g, x)
        <3>1. /\ r \in S \X {"dict", "parent", "main"} \X Greenlets /\ r[3] = x
              /\ CASE r[2] = "dict" -> r[3] \in attr[r[1]]
                   [] r[2] = "parent" -> r[3] = parent[r[1]]
                   [] r[2] = "main" -> r[3] = home[r[1]]
            BY <2>1 DEF Fields, FieldsTo
        <3>2. PICK g \in S, k \in {"dict", "parent", "main"} : r = <<g, k, x>>
            BY <3>1
        <3>6. r[1] = g /\ r[2] = k /\ r[3] = x
            BY <3>2
        <3>3. CASE k = "dict"
            <4>1. x \in attr[g] /\ r = <<g, "dict", x>>
                BY <3>1, <3>2, <3>6, <3>3
            <4>2. FieldTo(r, g, x)
                BY <4>1 DEF FieldTo
            <4> QED BY <4>2
        <3>4. CASE k = "parent"
            <4>1. parent[g] = x /\ r = <<g, "parent", x>>
                BY <3>1, <3>2, <3>6, <3>4
            <4>2. FieldTo(r, g, x)
                BY <4>1 DEF FieldTo
            <4> QED BY <4>2
        <3>5. CASE k = "main"
            <4>1. home[g] = x /\ r = <<g, "main", x>>
                BY <3>1, <3>2, <3>6, <3>5
            <4>2. FieldTo(r, g, x)
                BY <4>1 DEF FieldTo
            <4> QED BY <4>2
        <3> QED BY <3>2, <3>3, <3>4, <3>5
    <2>2. ASSUME NEW g \in S, x \in attr[g] PROVE <<g, "dict", x>> \in FieldsTo(S, x)
        BY <2>2 DEF Fields, FieldsTo
    <2>3. ASSUME NEW g \in S, parent[g] = x PROVE <<g, "parent", x>> \in FieldsTo(S, x)
        BY <2>3 DEF Fields, FieldsTo
    <2>4. ASSUME NEW g \in S, home[g] = x PROVE <<g, "main", x>> \in FieldsTo(S, x)
        BY <2>4 DEF Fields, FieldsTo
    <2>5. ASSUME NEW r, NEW g \in S, FieldTo(r, g, x) PROVE r \in FieldsTo(S, x)
        BY <2>2, <2>3, <2>4, <2>5 DEF FieldTo
    <2> QED BY <2>1, <2>5
<1>3. /\ fd \in [D -> RD] /\ fp \in [P -> RP] /\ fh \in [H -> RH]
      /\ \A a, b \in D : fd[a] = fd[b] => a = b
      /\ \A a, b \in P : fp[a] = fp[b] => a = b
      /\ \A a, b \in H : fh[a] = fh[b] => a = b
    <2>1. \A g \in D : <<g, "dict", x>> \in RD
        <3> TAKE g \in D
        <3>1. PICK r : r = <<g, "dict", x>>
            OBVIOUS
        <3>2. r \in FieldsTo(S, x)
            <4>1. g \in S /\ FieldTo(r, g, x)
                BY <3>1 DEF FieldTo
            <4> QED BY <1>2, <4>1
        <3>3. r[2] = "dict"
            BY <3>1
        <3> QED BY <3>1, <3>2, <3>3
    <2>2. \A g \in P : <<g, "parent", x>> \in RP
        <3> TAKE g \in P
        <3>1. PICK r : r = <<g, "parent", x>>
            OBVIOUS
        <3>2. r \in FieldsTo(S, x)
            <4>1. g \in S /\ FieldTo(r, g, x)
                BY <3>1 DEF FieldTo
            <4> QED BY <1>2, <4>1
        <3>3. r[2] = "parent"
            BY <3>1
        <3> QED BY <3>1, <3>2, <3>3
    <2>3. \A g \in H : <<g, "main", x>> \in RH
        <3> TAKE g \in H
        <3>1. PICK r : r = <<g, "main", x>>
            OBVIOUS
        <3>2. r \in FieldsTo(S, x)
            <4>1. g \in S /\ FieldTo(r, g, x)
                BY <3>1 DEF FieldTo
            <4> QED BY <1>2, <4>1
        <3>3. r[2] = "main"
            BY <3>1
        <3> QED BY <3>1, <3>2, <3>3
    <2> HIDE DEF RD, RP, RH, D, P, H
    <2>4. fd \in [D -> RD] /\ \A a, b \in D : fd[a] = fd[b] => a = b
        BY <2>1
    <2>5. fp \in [P -> RP] /\ \A a, b \in P : fp[a] = fp[b] => a = b
        BY <2>2
    <2>6. fh \in [H -> RH] /\ \A a, b \in H : fh[a] = fh[b] => a = b
        BY <2>3
    <2> QED BY <2>4, <2>5, <2>6
<1>4. /\ \A r \in RD : \E a \in D : fd[a] = r
      /\ \A r \in RP : \E a \in P : fp[a] = r
      /\ \A r \in RH : \E a \in H : fh[a] = r
    BY <1>2 DEF FieldTo
<1>5. FieldsTo(S, x) = (RP \cup RH) \cup RD
    BY <1>2 DEF FieldTo
<1>6. RP \cap RH = {} /\ (RP \cup RH) \cap RD = {}
    OBVIOUS
<1>7. Visited(S, x) = Cardinality(P) + Cardinality(H) + Cardinality(D)
    BY DEF Visited
<1> HIDE DEF fd, fp, fh, RD, RP, RH, D, P, H
<1>8. IsFiniteSet(RD) /\ Cardinality(RD) = Cardinality(D)
    BY <1>1, <1>3, <1>4, Carries
<1>9. IsFiniteSet(RP) /\ Cardinality(RP) = Cardinality(P)
    BY <1>1, <1>3, <1>4, Carries
<1>10. IsFiniteSet(RH) /\ Cardinality(RH) = Cardinality(H)
    BY <1>1, <1>3, <1>4, Carries
<1>11. PICK T : T = RP \cup RH
    OBVIOUS
<1>12. IsFiniteSet(T) /\ Cardinality(T) = Cardinality(RP) + Cardinality(RH)
    BY <1>6, <1>9, <1>10, <1>11, DisjointUnion
<1>13. IsFiniteSet(T \cup RD) /\ Cardinality(T \cup RD) = Cardinality(T) + Cardinality(RD)
    BY <1>6, <1>8, <1>11, <1>12, DisjointUnion
<1> QED BY <1>5, <1>7, <1>8, <1>9, <1>10, <1>11, <1>12, <1>13

LEMMA FieldsListed ==
    ASSUME NEW S \in SUBSET Greenlets
    PROVE  \E n \in Nat :
               /\ SetToSeq(Fields(S)) \in [1..n -> Fields(S)]
               /\ \A i, j \in 1..n : SetToSeq(Fields(S))[i] = SetToSeq(Fields(S))[j] => i = j
               /\ \A r \in Fields(S) : \E i \in 1..n : SetToSeq(Fields(S))[i] = r
<1>1. PICK A : A = Fields(S)
    OBVIOUS
<1>2. IsFiniteSet(A)
    BY <1>1, FieldsFinite
<1>3. PICK n \in Nat :
          /\ SetToSeq(A) \in [1..n -> A]
          /\ \A i, j \in 1..n : SetToSeq(A)[i] = SetToSeq(A)[j] => i = j
          /\ \A r \in A : \E i \in 1..n : SetToSeq(A)[i] = r
    BY <1>2, SetToSeqLists
<1> QED BY <1>1, <1>3

\* green_clear() of the greenlets S drops each reference once.
LEMMA OccursFields ==
    ASSUME NEW S \in SUBSET Greenlets, NEW q, q = SetToSeq(Fields(S)),
           NEW F, F = [i \in DOMAIN q |-> q[i][3]], NEW x \in Greenlets
    PROVE  F \in Seq(Greenlets) /\ Occurs(F, x) = Visited(S, x)
<1>1. PICK n \in Nat :
          /\ q \in [1..n -> Fields(S)]
          /\ \A i, j \in 1..n : q[i] = q[j] => i = j
          /\ \A r \in Fields(S) : \E i \in 1..n : q[i] = r
    BY FieldsListed, SMTT(30)
<1>2. \A r \in Fields(S) : r[3] \in Greenlets
    BY DEF Fields
<1>3. F \in [1..n -> Greenlets] /\ \A i \in 1..n : F[i] = q[i][3]
    BY <1>1, <1>2
<1>4. F \in Seq(Greenlets) /\ DOMAIN F = 1..n
    BY <1>3, SeqDef
<1>5. PICK I : I = {i \in 1..n : F[i] = x}
    OBVIOUS
<1>6. Occurs(F, x) = Cardinality(I)
    BY <1>4, <1>5 DEF Occurs
<1>7. IsFiniteSet(I)
    <2>1. IsFiniteSet(1..n) /\ I \in SUBSET (1..n)
        BY <1>5, FS_Interval
    <2> QED BY <2>1, FS_Subset
<1>8. PICK f : f = [i \in I |-> q[i]]
    OBVIOUS
<1>9. f \in [I -> FieldsTo(S, x)]
    BY <1>1, <1>3, <1>5, <1>8 DEF FieldsTo
<1>10. \A i, j \in I : f[i] = f[j] => i = j
    BY <1>1, <1>5, <1>8
<1>11. \A r \in FieldsTo(S, x) : \E i \in I : f[i] = r
    BY <1>1, <1>3, <1>5, <1>8 DEF FieldsTo
<1>12. Cardinality(FieldsTo(S, x)) = Cardinality(I)
    BY <1>7, <1>9, <1>10, <1>11, Carries
<1> QED BY <1>4, <1>6, <1>12, FieldsVisited

LEMMA PartAtMost ==
    ASSUME NEW f, IsFiniteSet(DOMAIN f), NEW S \in SUBSET DOMAIN f, NEW g
    PROVE  /\ Part(f, S, g) \in Nat /\ Part(f, S, g) <= Pointing(f, g)
           /\ Share(f, S, g) \in Nat /\ Share(f, S, g) <= Holding(f, g)
<1>1. PICK A : A = {x \in DOMAIN f : f[x] = g}
    OBVIOUS
<1>2. PICK B : B = {x \in DOMAIN f : g \in f[x]}
    OBVIOUS
<1>3. IsFiniteSet(A) /\ IsFiniteSet(B)
    <2>1. A \in SUBSET DOMAIN f /\ B \in SUBSET DOMAIN f
        BY <1>1, <1>2
    <2> QED BY <2>1, FS_Subset
<1>4. PICK C : C = {x \in S : f[x] = g}
    OBVIOUS
<1>5. PICK D : D = {x \in S : g \in f[x]}
    OBVIOUS
<1>6. C \in SUBSET A /\ D \in SUBSET B
    BY <1>1, <1>2, <1>4, <1>5
<1>7. /\ IsFiniteSet(C) /\ Cardinality(C) <= Cardinality(A)
      /\ IsFiniteSet(D) /\ Cardinality(D) <= Cardinality(B)
    BY <1>3, <1>6, FS_Subset
<1>8. Cardinality(C) \in Nat /\ Cardinality(D) \in Nat
    BY <1>7, FS_CardinalityType
<1> QED BY <1>1, <1>2, <1>4, <1>5, <1>7, <1>8 DEF Part, Share, Pointing, Holding

\* green_traverse() does not see the reference from the thread: who runs is not collected.
LEMMA VisitedIdle ==
    ASSUME Typed, NEW S \in SUBSET Greenlets, NEW x \in S,
           rc[x] = References(x), rc[x] = Visited(S, x)
    PROVE  \A t \in Threads : current[t] # x
<1> SUFFICES ASSUME NEW t \in Threads, current[t] = x PROVE FALSE
    OBVIOUS
<1>1. /\ DOMAIN parent = Greenlets /\ DOMAIN home = Greenlets /\ DOMAIN attr = Greenlets
      /\ DOMAIN current = Threads /\ IsFiniteSet(Greenlets) /\ IsFiniteSet(Threads)
    BY FiniteAssumption DEF Typed
<1>2. /\ Part(parent, S, x) \in Nat /\ Part(parent, S, x) <= Pointing(parent, x)
      /\ Part(home, S, x) \in Nat /\ Part(home, S, x) <= Pointing(home, x)
      /\ Share(attr, S, x) \in Nat /\ Share(attr, S, x) <= Holding(attr, x)
    BY <1>1, PartAtMost
<1>3. Visited(S, x) = Part(parent, S, x) + Part(home, S, x) + Share(attr, S, x)
    BY DEF Visited, Part, Share
<1>4. Pointing(current, x) >= 1
    <2>1. t \in {u \in Threads : current[u] = x} /\ {u \in Threads : current[u] = x} \in SUBSET Threads
        OBVIOUS
    <2> QED BY <1>1, <2>1, Positive DEF Pointing
<1>5. Natural(x)
    BY RefsNat
<1> QED BY <1>2, <1>3, <1>4, <1>5 DEF References, Natural

\* Collect in terms of the greenlets D that it gives up and of the references F that it drops
Collected(S, D, q, F, c) ==
    /\ D = {g \in S : life[g] = "active" /\ InDeadThread(g)}
    /\ q = SetToSeq(Fields(S))
    /\ F = [i \in DOMAIN q |-> q[i][3]]
    /\ parent' = [g \in Greenlets |-> IF g \in S THEN NoOne ELSE parent[g]]
    /\ home' = [g \in Greenlets |-> IF g \in S THEN NoOne ELSE home[g]]
    /\ attr' = [g \in Greenlets |-> IF g \in S THEN {} ELSE attr[g]]
    /\ life' = [g \in Greenlets |-> IF g \in D THEN "dead" ELSE life[g]]
    /\ lost' = [x \in Greenlets |-> lost[x] + Share(held, D, x) + OwnedIn(calls, D, x)]
    /\ held' = [h \in Holders |-> IF h \in D THEN {} ELSE held[h]]
    /\ calls' = [g \in Greenlets |-> IF g \in D THEN <<>>
                                     ELSE IF g = c THEN calls[g] \o Dropping(F) ELSE calls[g]]

Extended(c, F) == calls'[c] = calls[c] \o Dropping(F)

LEMMA CollectedCalls ==
    ASSUME Typed, NEW S \in SUBSET Greenlets, NEW D, NEW q, NEW F,
           NEW c \in Greenlets \ D, Collected(S, D, q, F, c), NEW x \in Greenlets
    PROVE  /\ calls' \in [Greenlets -> Seq(Calls)]
           /\ OwnedIn(calls, D, x) \in Nat /\ Visited(S, x) \in Nat
           /\ OwnedIn(calls', Greenlets, x)
                  = (OwnedIn(calls, Greenlets, x) - OwnedIn(calls, D, x)) + Visited(S, x)
           /\ Extended(c, F) /\ OthersKept(c)
           /\ F \in Seq(Greenlets)
<1>1. D \in SUBSET Greenlets
    BY DEF Collected
<1>2. q = SetToSeq(Fields(S)) /\ F = [i \in DOMAIN q |-> q[i][3]]
    BY DEF Collected
<1>3. F \in Seq(Greenlets) /\ Occurs(F, x) = Visited(S, x)
    BY <1>2, OccursFields
<1>4. Visited(S, x) \in Nat
    BY <1>3, OccursNat
<1>5. Dropping(F) \in Seq(Calls) /\ OwnedBy(Dropping(F), x) = Visited(S, x)
    BY <1>3, OwnedDropping
<1>6. PICK r : r = Dropping(F)
    OBVIOUS
<1>7. PICK cs \in [Greenlets -> Seq(Calls)] : cs = calls
    BY DEF Typed
<1>8. PICK es : es = Without(cs, D)
    OBVIOUS
<1>9. /\ es \in [Greenlets -> Seq(Calls)]
      /\ OwnedIn(cs, D, x) \in Nat /\ OwnedIn(es, Greenlets, x) \in Nat
      /\ OwnedIn(cs, Greenlets, x) = OwnedIn(es, Greenlets, x) + OwnedIn(cs, D, x)
    BY <1>1, <1>8, OwnedAbandoned
<1>10. PICK ds : ds = [es EXCEPT ![c] = @ \o r]
    OBVIOUS
<1>11. /\ es[c] = cs[c] /\ es[c] \in Seq(Calls) /\ es[c] \o r \in Seq(Calls)
    BY <1>5, <1>6, <1>8, <1>9 DEF Without
<1>12. ds \in [Greenlets -> Seq(Calls)] /\ ds[c] = cs[c] \o r
       /\ \A h \in Greenlets \ {c} : ds[h] = es[h]
    BY <1>9, <1>10, <1>11
<1>13. calls' = ds
    <2>1. calls' = [g \in Greenlets |-> IF g \in D THEN <<>>
                                        ELSE IF g = c THEN cs[g] \o r ELSE cs[g]]
        BY <1>6, <1>7 DEF Collected
    <2>2. \A h \in Greenlets : ds[h] = IF h \in D THEN <<>>
                                        ELSE IF h = c THEN cs[h] \o r ELSE cs[h]
        <3> TAKE h \in Greenlets
        <3>1. CASE h = c
            BY <1>12, <3>1
        <3>2. CASE h # c
            BY <1>8, <1>12, <3>2 DEF Without
        <3> QED BY <3>1, <3>2
    <2> QED BY <1>12, <2>1, <2>2
<1>14. OwnedIn(ds, Greenlets, x) = OwnedIn(es, Greenlets, x) + OwnedBy(r, x)
    <2>1. r \in Seq(Calls) /\ c \in Greenlets /\ es \in [Greenlets -> Seq(Calls)]
        BY <1>5, <1>6, <1>9
    <2>2. OwnedIn([es EXCEPT ![c] = @ \o r], Greenlets, x)
              = OwnedIn(es, Greenlets, x) + OwnedBy(r, x)
        BY <2>1, OwnedCalled, ZenonT(30)
    <2> QED BY <1>10, <2>2
<1>15. OthersKept(c)
    BY <1>7, <1>8, <1>12, <1>13 DEF OthersKept, Without
<1>16. OwnedIn(ds, Greenlets, x) = (OwnedIn(cs, Greenlets, x) - OwnedIn(cs, D, x)) + Visited(S, x)
    BY <1>4, <1>5, <1>6, <1>9, <1>14
<1>17. Extended(c, F)
    BY <1>6, <1>7, <1>12, <1>13 DEF Extended
<1> QED BY <1>3, <1>4, <1>7, <1>9, <1>12, <1>13, <1>15, <1>16, <1>17

LEMMA CollectKeeps ==
    ASSUME RefInv, NEW t \in Threads, NEW S \in SUBSET Greenlets, Collect(t, S)
    PROVE  RefInv'
<1>1. /\ PythonRuns(t)
      /\ \A g \in S : Tracked(g) /\ IsGC(g)
      /\ \A x \in S : rc[x] = Visited(S, x)
      /\ UNCHANGED <<rc, current, thread, deleteme, fault, asked, runs>>
    BY DEF Collect
<1>2. /\ fault = "none" /\ Typed /\ ControlInv /\ thread[t] = "running"
      /\ current[t] \in Greenlets /\ calls[current[t]] \in Seq(Calls)
      /\ \A x \in Greenlets : rc[x] = References(x) /\ rc[x] \in Nat
    BY <1>1, Running
<1>3. PICK c \in Greenlets : c = current[t]
    BY <1>2
<1>4. PICK D : D = {g \in S : life[g] = "active" /\ InDeadThread(g)}
    OBVIOUS
<1>5. PICK q : q = SetToSeq(Fields(S))
    OBVIOUS
<1>6. PICK F : F = [i \in DOMAIN q |-> q[i][3]]
    OBVIOUS
<1>7. Collected(S, D, q, F, c)
    BY <1>3, <1>4, <1>5, <1>6 DEF Collect, Collected, Share
<1>8. D \in SUBSET Greenlets /\ D \subseteq S
    BY <1>4
<1>9. \A x \in S : ~Runs(x)
    <2> TAKE x \in S
    <2>1. rc[x] = References(x) /\ rc[x] = Visited(S, x)
        BY <1>1, <1>2
    <2> QED BY <1>2, <2>1, VisitedIdle DEF Runs
<1>10. c \in Greenlets \ D
    BY <1>2, <1>3, <1>8, <1>9 DEF Runs
<1>11. PICK r : r = Dropping(F)
    OBVIOUS
<1>12. Typed'
    <2>1. calls' \in [Greenlets -> Seq(Calls)]
        BY <1>2, <1>7, <1>10, CollectedCalls
    <2>2. lost' \in [Greenlets -> Nat]
        <3>1. \A x \in Greenlets : lost[x] + Share(held, D, x) + OwnedIn(calls, D, x) \in Nat
            <4> TAKE x \in Greenlets
            <4>1. OwnedIn(calls, D, x) \in Nat
                BY <1>2, <1>7, <1>10, CollectedCalls
            <4>2. Share(held, D, x) \in Nat
                <5>1. DOMAIN held = Holders /\ D \in SUBSET DOMAIN held
                    BY <1>2, <1>8 DEF Typed, Holders
                <5>2. IsFiniteSet(DOMAIN held)
                    BY <5>1, FiniteAssumption, FS_AddElement DEF Holders
                <5> QED BY <5>1, <5>2, PartAtMost
            <4>3. lost[x] \in Nat
                BY <1>2 DEF Typed
            <4> QED BY <4>1, <4>2, <4>3
        <3> QED BY <1>7, <3>1 DEF Collected
    <2>3. life' \in [Greenlets -> {"none", "new", "active", "dead", "freed"}]
        BY <1>2, <1>7 DEF Collected, Typed
    <2>4. parent' \in [Greenlets -> Greenlets \cup {NoOne}]
        BY <1>2, <1>7 DEF Collected, Typed
    <2>5. home' \in [Greenlets -> Mains \cup {NoOne}]
        BY <1>2, <1>7 DEF Collected, Typed
    <2>6. attr' \in [Greenlets -> SUBSET Greenlets]
        BY <1>2, <1>7 DEF Collected, Typed
    <2>7. held' \in [Holders -> SUBSET Greenlets]
        BY <1>2, <1>7 DEF Collected, Typed
    <2> QED BY <1>1, <1>2, <2>1, <2>2, <2>3, <2>4, <2>5, <2>6, <2>7 DEF Typed
<1>13. ASSUME NEW x \in Greenlets PROVE rc'[x] = References(x)'
    <2>1. /\ DOMAIN parent = Greenlets /\ DOMAIN home = Greenlets /\ DOMAIN attr = Greenlets
          /\ DOMAIN held = Holders /\ IsFiniteSet(Greenlets)
        BY <1>2, FiniteAssumption DEF Typed
    <2>2. IsFiniteSet(Holders) /\ D \in SUBSET Holders
        BY <1>8, FiniteAssumption, FS_AddElement DEF Holders
    <2>3. x # NoOne
        BY ThreadsAssumption
    <2>4. /\ Part(parent, S, x) \in Nat
          /\ Pointing(parent, x) = Pointing(parent', x) + Part(parent, S, x)
          /\ Pointing(parent', x) \in Nat
        <3>1. ClearedIn(parent, parent', S, x)
            BY <1>7, <2>1, <2>3 DEF Collected, ClearedIn
        <3> QED BY <2>1, <3>1, PointingCleared
    <2>5. /\ Part(home, S, x) \in Nat
          /\ Pointing(home, x) = Pointing(home', x) + Part(home, S, x)
          /\ Pointing(home', x) \in Nat
        <3>1. ClearedIn(home, home', S, x)
            BY <1>7, <2>1, <2>3 DEF Collected, ClearedIn
        <3> QED BY <2>1, <3>1, PointingCleared
    <2>6. /\ Share(attr, S, x) \in Nat
          /\ Holding(attr, x) = Holding(attr', x) + Share(attr, S, x)
          /\ Holding(attr', x) \in Nat
        <3>1. EmptiedIn(attr, attr', S, x)
            BY <1>7, <2>1 DEF Collected, EmptiedIn
        <3> QED BY <2>1, <3>1, HoldingCleared
    <2>7. /\ Share(held, D, x) \in Nat
          /\ Holding(held, x) = Holding(held', x) + Share(held, D, x)
          /\ Holding(held', x) \in Nat
        <3>1. EmptiedIn(held, held', D, x)
            BY <1>7, <2>1, <2>2 DEF Collected, EmptiedIn
        <3> QED BY <2>1, <2>2, <3>1, HoldingCleared
    <2>8. /\ OwnedIn(calls, D, x) \in Nat /\ Visited(S, x) \in Nat
          /\ OwnedIn(calls', Greenlets, x)
                 = (OwnedIn(calls, Greenlets, x) - OwnedIn(calls, D, x)) + Visited(S, x)
        BY <1>2, <1>7, <1>10, CollectedCalls
    <2>9. Visited(S, x) = Part(parent, S, x) + Part(home, S, x) + Share(attr, S, x)
        BY DEF Visited, Part, Share
    <2>10. lost'[x] = lost[x] + Share(held, D, x) + OwnedIn(calls, D, x)
        BY <1>7 DEF Collected
    <2>11. UNCHANGED <<rc, current, deleteme>> /\ Stated(x)' = Stated(x)
        BY <1>1 DEF Stated
    <2>12. Natural(x) /\ rc[x] = References(x)
        BY <1>2, RefsNat
    <2> QED BY <2>4, <2>5, <2>6, <2>7, <2>8, <2>9, <2>10, <2>11, <2>12, SMTT(30) DEF References, Natural
<1>14. ControlInv'
    <2>1. F \in Seq(Greenlets)
        <3>1. MainOf[t] \in Greenlets
            BY MainOfAssumption
        <3> QED BY <1>2, <1>7, <1>10, <3>1, CollectedCalls
    <2>2. IsQuiet(r)
        BY <1>11, <2>1, QuietDropping
    <2>3. calls'[c] = calls[c] \o r /\ OthersKept(c)
        <3>2. Extended(c, F)
            BY <1>2, <1>7, <1>10, CollectedCalls
        <3>3. OthersKept(c)
            BY <1>2, <1>7, <1>10, CollectedCalls
        <3> QED BY <1>11, <3>2, <3>3 DEF Extended
    <2>4. CountsKept
        <3> SUFFICES ASSUME NEW x \in Greenlets
                     PROVE  /\ rc'[x] = rc[x]
                            /\ parent'[x] = parent[x] \/ life'[x] # "none"
            BY DEF CountsKept
        <3>1. CASE x \in S
            <4>1. life[x] # "none"
                BY <1>1, <3>1 DEF Tracked, Exists
            <4>2. life'[x] # "none"
                BY <1>7, <4>1 DEF Collected
            <4> QED BY <1>1, <4>2
        <3>2. CASE x \notin S
            BY <1>1, <1>7, <3>2 DEF Collected
        <3> QED BY <3>1, <3>2
    <2>5. LivesKept(c, Len(calls[c]))
        BY <1>4, <1>7 DEF Collected, LivesKept, Onward
    <2>6. RunnersKept
        BY <1>7, <1>9 DEF Collected, RunnersKept
    <2>7. thread' = thread /\ current' = current
        BY <1>1
    <2> QED BY <1>1, <1>3, <2>2, <2>3, <2>4, <2>5, <2>6, <2>7, QuietCall
<1> QED BY <1>1, <1>2, <1>12, <1>13, <1>14, TypedWhenExactNext
        DEF RefcountExact, Controlled, NotMurdered

-----------------------------------------------------------------------------
(* The theorems. *)

LEMMA InitExact ==
    ASSUME Init, NEW g \in Greenlets
    PROVE  rc[g] = References(g)
<1>1. g # NoOne
    BY ThreadsAssumption
<1>2. Pointing(parent, g) = 0 /\ Pointing(home, g) = 0
    <2>1. {x \in DOMAIN parent : parent[x] = g} = {} /\ {x \in DOMAIN home : home[x] = g} = {}
        BY <1>1 DEF Init
    <2> QED BY <2>1, FS_EmptySet DEF Pointing
<1>3. Holding(attr, g) = 0 /\ Holding(held, g) = 0 /\ Holding(deleteme, g) = 0
    <2>1. /\ {x \in DOMAIN attr : g \in attr[x]} = {} /\ {x \in DOMAIN held : g \in held[x]} = {}
          /\ {x \in DOMAIN deleteme : g \in deleteme[x]} = {}
        BY DEF Init
    <2> QED BY <2>1, FS_EmptySet DEF Holding
<1>4. OwnedIn(calls, Greenlets, g) = 0
    <2>1. \A h \in Greenlets : Tokens(calls[h], g) = {}
        BY DEF Init, Tokens
    <2>2. TokensIn(calls, Greenlets, g) = {}
        BY <2>1 DEF TokensIn
    <2> QED BY <2>2, FS_EmptySet DEF OwnedIn
<1>5. PICK T : T = {t \in Threads : MainOf[t] = g}
    OBVIOUS
<1>6. Pointing(current, g) = Cardinality(T) /\ Stated(g) = Cardinality(T)
    <2>1. {t \in DOMAIN current : current[t] = g} = T
        BY <1>5, MainOfAssumption DEF Init
    <2>2. {t \in Threads : MainOf[t] = g /\ thread[t] # "destroyed"} = T
        BY <1>5 DEF Init
    <2> QED BY <2>1, <2>2 DEF Pointing, Stated
<1>7. lost[g] = 0
    BY DEF Init
<1>8. CASE g \in Mains
    <2>1. PICK t \in Threads : MainOf[t] = g
        BY <1>8 DEF Mains
    <2>2. T = {t}
        BY <1>5, <2>1, MainOfAssumption
    <2>3. Cardinality(T) = 1
        BY <2>2, FS_Singleton
    <2>4. rc[g] = 2
        BY <1>8 DEF Init
    <2> QED BY <1>2, <1>3, <1>4, <1>6, <1>7, <2>3, <2>4 DEF References
<1>9. CASE g \notin Mains
    <2>1. T = {}
        BY <1>5, <1>9 DEF Mains
    <2>2. Cardinality(T) = 0
        BY <2>1, FS_EmptySet
    <2>3. rc[g] = 0
        BY <1>9 DEF Init
    <2> QED BY <1>2, <1>3, <1>4, <1>6, <1>7, <2>2, <2>3 DEF References
<1> QED BY <1>8, <1>9

LEMMA InitKeeps == Init => RefInv
<1> SUFFICES ASSUME Init PROVE RefInv
    OBVIOUS
<1>1. Mains \subseteq Greenlets /\ \A t \in Threads : MainOf[t] \in Mains /\ MainOf[t] \in Greenlets
    BY MainsFact
<1>2. TypeOK
    <2>1. life \in [Greenlets -> {"none", "new", "active", "dead", "freed"}]
        BY DEF Init
    <2>2. /\ parent \in [Greenlets -> Greenlets \cup {NoOne}]
          /\ home \in [Greenlets -> Mains \cup {NoOne}]
          /\ attr \in [Greenlets -> SUBSET Greenlets]
          /\ held \in [Holders -> SUBSET Greenlets]
        BY DEF Init
    <2>3. rc \in [Greenlets -> Nat]
        BY DEF Init
    <2>4. current \in [Threads -> Greenlets \cup {NoOne}]
        BY MainOfAssumption DEF Init
    <2>5. /\ thread \in [Threads -> {"running", "exited", "destroyed"}]
          /\ deleteme \in [Threads -> SUBSET Greenlets]
        BY DEF Init
    <2>6. calls \in [Greenlets -> Seq(Calls)]
        <3>1. PICK s \in Seq(Calls) : s = <<>>
            BY EmptySeq
        <3> QED BY <3>1 DEF Init
    <2>7. /\ fault \in {"none", "torn", "no parent", "cyclic", "murdered"}
          /\ lost \in [Greenlets -> Nat]
          /\ asked \in [Greenlets -> Greenlets \cup {NoOne}]
          /\ runs \in [Greenlets -> Nat]
        BY DEF Init
    <2> QED BY <2>1, <2>2, <2>3, <2>4, <2>5, <2>6, <2>7 DEF TypeOK
<1>3. RefcountExact
    BY InitExact DEF RefcountExact
<1>4. \A h \in Greenlets : calls[h] = <<>> /\ DOMAIN calls[h] = {}
    BY DEF Init
<1>5. CallsInv /\ UniqueInv
    BY <1>4 DEF CallsInv, UniqueInv
<1>6. CurrentInv
    BY <1>1 DEF Init, CurrentInv, MainFor
<1>7. OneInv
    <2>1. \A t \in Threads : current[t] = MainOf[t] /\ ~InC(t)
        BY <1>1, <1>4 DEF Init, InC
    <2> QED BY <2>1, MainOfAssumption DEF OneInv
<1>8. NoneInv
    BY DEF Init, NoneInv
<1> QED BY <1>2, <1>3, <1>5, <1>6, <1>7, <1>8 DEF RefInv, Controlled, ControlInv

LEMMA PythonStepKeeps ==
    ASSUME RefInv, NEW t \in Threads, PythonStep(t)
    PROVE  RefInv'
<1>1. ASSUME NEW g \in Greenlets, New(t, g) \/ Switch(t, g) \/ LookDead(t, g) PROVE RefInv'
    BY <1>1, NewKeeps, SwitchKeeps, LookDeadKeeps
<1>2. ASSUME NEW h \in Holders, NEW g \in Greenlets, Keep(t, h, g) \/ Forget(t, h, g)
      PROVE  RefInv'
    BY <1>2, KeepKeeps, ForgetKeeps
<1>3. ASSUME NEW g \in Greenlets, NEW x \in Greenlets,
             Name(t, g, x) \/ Unname(t, g, x) \/ SetParent(t, g, x)
      PROVE  RefInv'
    BY <1>3, NameKeeps, UnnameKeeps, SetParentKeeps
<1>4. ASSUME NEW S \in SUBSET Greenlets, Collect(t, S) PROVE RefInv'
    BY <1>4, CollectKeeps
<1>5. CASE GetCurrent(t) \/ Finish(t) \/ Return(t)
    BY <1>5, GetCurrentKeeps, FinishKeeps, ReturnKeeps
<1> QED BY <1>1, <1>2, <1>3, <1>4, <1>5 DEF PythonStep

LEMMA CStepKeeps ==
    ASSUME RefInv, LeaksAreLost, NEW t \in Threads, CStep(t)
    PROVE  RefInv'
<1>1. CASE NewStep(t) \/ CurrentStep(t) \/ Drop(t) \/ ClearNext(t) \/ Murder(t) \/ DestroyStep(t)
    BY <1>1, NewStepKeeps, CurrentStepKeeps, DropKeeps, ClearNextKeeps, MurderKeeps,
       DestroyStepKeeps
<1>2. CASE DeallocIdle(t) \/ Kill(t) \/ Park(t) \/ GiveUp(t) \/ KillReturn(t) \/ Undo(t)
    BY <1>2, DeallocIdleKeeps, KillKeeps, ParkKeeps, GiveUpKeeps, KillReturnKeeps, UndoKeeps
<1>3. CASE Free(t) \/ Delete(t) \/ Die(t) \/ Refuse(t) \/ GSwitch(t) \/ GInitialstub(t)
    BY <1>3, FreeKeeps, DeleteKeeps, DieKeeps, RefuseKeeps, GSwitchKeeps, GInitialstubKeeps
<1>4. CASE Start(t) \/ Switchstack(t) \/ Jump(t)
    BY <1>4, StartKeeps, SwitchstackKeeps, JumpKeeps
<1> QED BY <1>1, <1>2, <1>3, <1>4 DEF CStep

LEMMA StutterKeeps == RefInv /\ UNCHANGED vars => RefInv'
<1> SUFFICES ASSUME RefInv, UNCHANGED vars PROVE RefInv'
    OBVIOUS
<1>1. TypeOK'
    BY DEF RefInv, TypeOK, vars
<1>2. RefcountExact'
    <2>1. \A g \in Greenlets : rc'[g] = rc[g] /\ References(g)' = References(g)
        BY DEF vars, References, Stated
    <2>2. (fault # "murdered")' <=> fault # "murdered"
        BY DEF vars
    <2> QED BY <2>1, <2>2 DEF RefInv, RefcountExact
<1>3. Controlled'
    BY DEF RefInv, Controlled, ControlInv, CallsInv, UniqueInv, CurrentInv, OneInv, NoneInv, vars,
           CallOK, BeingFreed, Runs, InC, Top, MainFor
<1> QED BY <1>1, <1>2, <1>3 DEF RefInv

LEMMA StepKeeps == RefInv /\ LeaksAreLost /\ [Next]_vars => RefInv'
<1> SUFFICES ASSUME RefInv, LeaksAreLost, [Next]_vars PROVE RefInv'
    OBVIOUS
<1>1. ASSUME NEW t \in Threads, PythonStep(t) \/ CStep(t) \/ Exit(t) \/ Destroy(t)
      PROVE  RefInv'
    BY <1>1, PythonStepKeeps, CStepKeeps, ExitKeeps, DestroyKeeps
<1> QED BY <1>1, StutterKeeps DEF Next

LEMMA Invariance == Spec /\ []LeaksAreLost => []RefInv
<1>1. Init => RefInv
    BY InitKeeps
<1>2. RefInv /\ LeaksAreLost /\ [Next]_vars => RefInv'
    BY StepKeeps
<1> QED BY <1>1, <1>2, PTL DEF Spec

\* The variables keep their types, as long as the search for leaks drops only what was lost: no
\* count becomes negative, whatever is dropped.
THEOREM DeallocationTypeOK == Spec /\ []LeaksAreLost => []TypeOK
<1>1. RefInv => TypeOK
    BY DEF RefInv
<1> QED BY <1>1, Invariance, PTL

\* The search for leaks in ~ThreadState() is all that can make a reference count wrong: as
\* long as it drops only what was lost, the count of every greenlet is the number of the
\* references to it, so that nothing is freed while something refers to it.
THEOREM RefcountExactHolds == Spec /\ []LeaksAreLost => []RefcountExact
<1>1. RefInv => RefcountExact
    BY DEF RefInv
<1> QED BY <1>1, Invariance, PTL

\* Without optional cleanup there is no such search, and the counts are exact.
THEOREM RefcountExactWithoutCleanup ==
    ASSUME OptionalCleanup = FALSE
    PROVE  Spec => [](TypeOK /\ RefcountExact)
<1>1. LeaksAreLost
    BY DEF LeaksAreLost
<1>2. RefInv => TypeOK /\ RefcountExact
    BY DEF RefInv
<1> QED BY <1>1, <1>2, Invariance, PTL
=============================================================================

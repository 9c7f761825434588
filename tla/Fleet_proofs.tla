----------------------------- MODULE Fleet_proofs -----------------------------
(***************************************************************************)
(* Proofs about the servers of a workspace together, for any number of     *)
(* entries and processes, any configuration, cyclic ones too, any policy   *)
(* and holder of the port and any calls: one process is one entry's, a     *)
(* port is freed of nothing of ours, every start and job works through a   *)
(* list that respects `dependsOn`, and dependencies come first.            *)
(*                                                                         *)
(* The last two rest on what the walks of src/services/dependencies.ts     *)
(* make of any configuration, which the first half proves: each call marks *)
(* one server more, so as many levels of calls as there are servers do.    *)
(***************************************************************************)
EXTENDS Fleet, TLAPS, FiniteSetTheorems, WellFoundedInduction, SequenceTheorems

-----------------------------------------------------------------------------
(* Counting up *)

\* A set of numbers that holds any holds a least one.
LEMMA Least ==
    ASSUME NEW C \in SUBSET Nat, C # {}
    PROVE  \E m \in C : \A n \in C : m <= n
  <1> DEFINE R == StrictSubsetOrdering(Nat)
             F == FiniteSubsetsOf(Nat)
             T == {0..(n - 1) : n \in C}
  <1>1. IsWellFoundedOn(R, F)
    BY FS_StrictSubsetOrderingWellFounded
  <1>2. T \subseteq F /\ T # {}
    <2>1. \A n \in C : IsFiniteSet(0..(n - 1)) /\ 0..(n-1) \in SUBSET Nat
      BY FS_Interval
    <2> QED
      BY <2>1 DEF FiniteSubsetsOf
  <1>3. \E x \in T : \A y \in T : ~ (<<y, x>> \in R)
    <2> HIDE DEF R, F, T
    <2> QED
      BY <1>1, <1>2, WFMin
  <1>4. PICK m \in C : \A n \in C : <<0..(n - 1), 0..(m - 1)>> \notin R
    BY <1>3
  <1>5. ASSUME NEW n \in C, n < m
        PROVE  FALSE
    <2>1. 0..(n-1) \subseteq 0..(m-1) /\ n \in 0..(m-1) /\ n \notin 0..(n-1)
      BY <1>5
    <2>2. 0..(n-1) \in SUBSET Nat /\ 0..(m-1) \in SUBSET Nat /\ 0..(n-1) # 0..(m-1)
      BY <2>1
    <2> QED
      BY <1>4, <1>5, <2>1, <2>2 DEF StrictSubsetOrdering
  <1> QED
    BY <1>4, <1>5

\* Induction, up to a bound.
LEMMA UpTo ==
    ASSUME NEW N \in Nat, NEW T, 0 \in T, \A n \in 0..(N - 1) : n \in T => n + 1 \in T
    PROVE  \A n \in 0..N : n \in T
  <1> DEFINE C == {n \in 0..N : n \notin T}
  <1> SUFFICES ASSUME C # {}
               PROVE  FALSE
    OBVIOUS
  <1>0. C \in SUBSET Nat
    OBVIOUS
  <1>1. PICK m \in C : \A n \in C : m <= n
    <2> HIDE DEF C
    <2> QED
      BY <1>0, Least
  <1>2. m - 1 \in 0..(N - 1) /\ m - 1 \notin C
    BY <1>1
  <1> QED
    BY <1>1, <1>2

\* A loop of N turns from z, the n-th by G[n, _]: there is a function that takes it.
Turns(N, z, G, f) == f = [n \in 0..N |-> IF n = 0 THEN z ELSE G[n][f[n - 1]]]

\* Such a function exists: it is built turn by turn.
LEMMA TurnsExist ==
    ASSUME NEW N \in Nat, NEW S, NEW z \in S, NEW G \in [0..N -> [S -> S]]
    PROVE  \E f \in [0..N -> S] : Turns(N, z, G, f)
  <1> DEFINE Good(f, i) == f[i] = IF i = 0 THEN z ELSE G[i][f[i - 1]]
             T == {n \in 0..N : \E f \in [0..N -> S] : \A i \in 0..n : Good(f, i)}
  <1>1. \A n \in 0..N : n \in T
    <2>1. 0 \in T
      <3>1. [n \in 0..N |-> z] \in [0..N -> S] /\ \A i \in 0..0 : Good([n \in 0..N |-> z], i)
        OBVIOUS
      <3> HIDE DEF Good
      <3> QED
        BY <3>1
    <2>2. ASSUME NEW n \in 0..(N - 1), n \in T
          PROVE  n + 1 \in T
      <3>1. PICK f \in [0..N -> S] : \A i \in 0..n : Good(f, i)
        BY <2>2
      <3> DEFINE g == [f EXCEPT ![n + 1] = G[n + 1][f[n]]]
      <3>2. g \in [0..N -> S]
        OBVIOUS
      <3>3. ASSUME NEW i \in 0..(n + 1)
            PROVE  Good(g, i)
        <4>1. CASE i = n + 1
          BY <4>1
        <4>2. CASE i \in 0..n
          BY <3>1, <4>2
        <4> QED
          BY <4>1, <4>2
      <3> HIDE DEF Good, g
      <3> QED
        BY <3>2, <3>3
    <2> HIDE DEF T
    <2> QED
      BY <2>1, <2>2, UpTo
  <1>2. \E f \in [0..N -> S] : \A i \in 0..N : Good(f, i)
    <2>1. N \in T
      <3> HIDE DEF T
      <3> QED
        BY <1>1
    <2> QED
      BY <2>1
  <1> QED
    BY <1>2 DEF Turns

-----------------------------------------------------------------------------
(* A loop over a list *)

\* What the turns of a loop over a list come to, one by one.
Loop(visit, walked, servers, A, f) ==
    /\ f \in [0..Len(servers) -> A] /\ f[0] = walked
    /\ \A i \in 1..Len(servers) : f[i] = visit[servers[i]][f[i - 1]]
    /\ Through(visit, walked, servers) = f[Len(servers)]

\* A loop over a list ends where its last turn does.
LEMMA ThroughLoops ==
    ASSUME NEW A, NEW D, NEW visit \in [D -> [A -> A]], NEW walked \in A, NEW servers \in Seq(D)
    PROVE  \E f : Loop(visit, walked, servers, A, f)
  <1> DEFINE N == Len(servers)
             G == [n \in 0..N |-> [a \in A |-> IF n = 0 THEN walked ELSE visit[servers[n]][a]]]
             Is(f) == f = [i \in 0..N |-> IF i = 0 THEN walked ELSE visit[servers[i]][f[i - 1]]]
             after == CHOOSE f : Is(f)
  <1>1. N \in Nat /\ G \in [0..N -> [A -> A]]
    OBVIOUS
  <1>2. \A n \in 0..N, a \in A : G[n][a] = IF n = 0 THEN walked ELSE visit[servers[n]][a]
    OBVIOUS
  <1>3. PICK f \in [0..N -> A] : Turns(N, walked, G, f)
    <2> HIDE DEF G, N
    <2> QED
      BY <1>1, TurnsExist
  <1>4. Is(f)
    BY <1>2, <1>3 DEF Turns
  <1>5. Is(after)
    BY <1>4
  <1>6. \A i \in 0..N : after[i] = IF i = 0 THEN walked ELSE visit[servers[i]][after[i - 1]]
    <2> HIDE DEF after, N
    <2> QED
      BY <1>5
  <1> DEFINE T == {i \in 0..N : after[i] \in A}
  <1>7. \A i \in 0..N : i \in T
    <2> HIDE DEF after
    <2>1. \A i \in 0..(N - 1) : i \in T => i + 1 \in T
      BY <1>6
    <2>2. 0 \in T
      BY <1>6
    <2> HIDE DEF N, T
    <2> QED
      BY <1>1, <2>1, <2>2, UpTo
  <1>8. after \in [0..N -> A]
    <2> HIDE DEF after
    <2> QED
      BY <1>5, <1>7
  <1>9. Through(visit, walked, servers) = after[N]
    BY DEF Through
  <1>10. after[0] = walked /\ \A i \in 1..N : after[i] = visit[servers[i]][after[i - 1]]
    <2> HIDE DEF after
    <2> QED
      BY <1>6
  <1> HIDE DEF after
  <1>11. Loop(visit, walked, servers, A, after)
    BY <1>8, <1>9, <1>10 DEF Loop
  <1> QED
    BY <1>11

\* A loop ends in what its body's calls end in.
LEMMA ThroughTyped ==
    ASSUME NEW A, NEW D, NEW visit \in [D -> [A -> A]], NEW walked \in A, NEW servers \in Seq(D)
    PROVE  Through(visit, walked, servers) \in A
  <1>1. PICK f : Loop(visit, walked, servers, A, f)
    BY ThroughLoops
  <1>2. Len(servers) \in 0..Len(servers)
    OBVIOUS
  <1> QED
    BY <1>1, <1>2 DEF Loop

-----------------------------------------------------------------------------
(* The walks of src/services/dependencies.ts *)

\* A configuration of finitely many servers.
IsGraph(g) == IsFiniteSet(DOMAIN g) /\ g \in [DOMAIN g -> Seq(Ids(g))]

\* What marking and placing a server make of a walk.
LEMMA WalkedTyped ==
    ASSUME NEW g, NEW w \in Walked(g), NEW d \in Ids(g)
    PROVE  /\ Marked(w, d) \in Walked(g) /\ Marked(w, d).seen = w.seen \cup {d}
           /\ Marked(w, d).list = w.list
           /\ d \in DOMAIN g => /\ Placed(w, d) \in Walked(g) /\ Placed(w, d).seen = w.seen
                                /\ Placed(w, d).list = Append(w.list, d)
  BY SMTT(30) DEF Walked, Marked, Placed

\* One call of visit(), given what the calls it makes do.
Level(g, skipped, n, v) ==
    [d \in Ids(g) |-> [w \in Walked(g) |->
        IF n = 0 \/ d \in w.seen THEN w
        ELSE IF d \notin DOMAIN g \ skipped THEN Marked(w, d)
        ELSE Placed(Through(v, Marked(w, d), g[d]), d)]]

\* A call makes a walk of a walk, given that the calls below do.
LEMMA LevelTyped ==
    ASSUME NEW g, IsGraph(g), NEW skipped, NEW n \in Nat, NEW v,
           n = 0 \/ v \in [Ids(g) -> [Walked(g) -> Walked(g)]]
    PROVE  Level(g, skipped, n, v) \in [Ids(g) -> [Walked(g) -> Walked(g)]]
  <1> SUFFICES ASSUME NEW d \in Ids(g), NEW w \in Walked(g), n # 0, d \in DOMAIN g
               PROVE  Placed(Through(v, Marked(w, d), g[d]), d) \in Walked(g)
    BY WalkedTyped DEF Level
  <1>1. g[d] \in Seq(Ids(g)) /\ Marked(w, d) \in Walked(g)
    BY WalkedTyped DEF IsGraph
  <1>2. v \in [Ids(g) -> [Walked(g) -> Walked(g)]]
    OBVIOUS
  <1>3. Through(v, Marked(w, d), g[d]) \in Walked(g)
    BY ONLY <1>1, <1>2, ThroughTyped
  <1> QED
    BY <1>3, WalkedTyped

\* The calls of visit(), by how deep they still go.
Deep(g) == Cardinality(DOMAIN g) + 1

\* Visit is the deepest of as many levels of calls as there are servers, and one more.
LEMMA VisitLevels ==
    ASSUME NEW g, IsGraph(g), NEW skipped
    PROVE  \E f \in [0..Deep(g) -> [Ids(g) -> [Walked(g) -> Walked(g)]]] :
              /\ \A n \in 0..Deep(g) : f[n] = Level(g, skipped, n, f[n - 1])
              /\ Visit(g, skipped) = f[Deep(g)]
  <1> DEFINE N == Deep(g)
             S == [Ids(g) -> [Walked(g) -> Walked(g)]]
             z == [d \in Ids(g) |-> [w \in Walked(g) |-> w]]
             G == [n \in 0..N |-> [v \in S |-> Level(g, skipped, n, v)]]
             Is(f) == f = [n \in 0..N |-> Level(g, skipped, n, f[n - 1])]
             visit == CHOOSE f : Is(f)
  <1>1. N \in Nat /\ z \in S
    BY FS_CardinalityType DEF IsGraph, Deep
  <1>2. G \in [0..N -> [S -> S]]
    <2>1. \A n \in 0..N, v \in S : Level(g, skipped, n, v) \in S
      <3> TAKE n \in 0..N, v \in S
      <3>1. n \in Nat
        BY <1>1
      <3> QED
        BY <3>1, LevelTyped
    <2> HIDE DEF N, S
    <2> QED
      BY <2>1
  <1>3. \A v : Level(g, skipped, 0, v) = z
    BY DEF Level
  <1>4. PICK f \in [0..N -> S] : Turns(N, z, G, f)
    <2> HIDE DEF N, S, z, G
    <2> QED
      BY <1>1, <1>2, TurnsExist
  <1>5. Is(f)
    <2>1. \A n \in 0..N : f[n] = IF n = 0 THEN z ELSE G[n][f[n - 1]]
      BY <1>4 DEF Turns
    <2>2. \A n \in 0..N : f[n] = Level(g, skipped, n, f[n - 1])
      <3> TAKE n \in 0..N
      <3>1. CASE n = 0
        BY <1>3, <2>1, <3>1
      <3>2. CASE n # 0
        <4>1. f[n - 1] \in S
          <5> HIDE DEF N, S
          <5> QED
            BY <1>1, <3>2
        <4> HIDE DEF S
        <4> QED
          BY <2>1, <3>2, <4>1
      <3> QED
        BY <3>1, <3>2
    <2> HIDE DEF N, S
    <2> QED
      BY <2>2
  <1>6. Is(visit)
    BY <1>5
  <1> HIDE DEF visit
  <1>7. \A n \in 0..N : visit[n] = Level(g, skipped, n, visit[n - 1])
    BY <1>6
  <1> DEFINE T == {n \in 0..N : visit[n] \in S}
  <1>8. \A n \in 0..N : n \in T
    <2>1. 0 \in T
      BY <1>1, <1>3, <1>7
    <2>2. ASSUME NEW n \in 0..(N - 1), n \in T
          PROVE  n + 1 \in T
      <3>1. n \in Nat /\ n + 1 \in Nat /\ n + 1 \in 0..N /\ n + 1 - 1 = n
        BY <1>1
      <3>2. visit[n + 1] = Level(g, skipped, n + 1, visit[n])
        <4> HIDE DEF N
        <4> QED
          BY <1>7, <3>1
      <3>3. visit[n] \in S
        BY <2>2
      <3>4. Level(g, skipped, n + 1, visit[n]) \in S
        BY <3>1, <3>3, LevelTyped
      <3> QED
        BY <3>1, <3>2, <3>4
    <2> HIDE DEF T, N
    <2> QED
      BY <1>1, <2>1, <2>2, UpTo
  <1>9. visit \in [0..N -> S]
    BY <1>6, <1>8
  <1>10. Visit(g, skipped) = visit[N]
    BY DEF Visit, Deep, Level, visit
  <1> QED
    BY <1>7, <1>9, <1>10

-----------------------------------------------------------------------------
(* What a walk promises *)

\* Reach: it holds what is named, it is closed, and it is the least such set.
LEMMA ReachIsLeast ==
    ASSUME NEW g, NEW s \in DOMAIN g
    PROVE  /\ Names(g, s) \subseteq Reach(g, s) /\ Reach(g, s) \subseteq DOMAIN g
           /\ \A d \in Reach(g, s) : Names(g, d) \subseteq Reach(g, s)
           /\ \A S \in SUBSET DOMAIN g : Names(g, s) \subseteq S /\ Closed(g, S) => Reach(g, s) \subseteq S
  BY DEF Reach, Names, Closed

\* Every server's names stand before it.
NamesFirst(g, list) ==
    \A i \in 1..Len(list) : \A y \in Names(g, list[i]) : \E j \in 1..(i - 1) : list[j] = y

\* A list is sound that holds none of the skipped and none twice, whose servers' names were
\* seen and, in a configuration without cycles, come before them.
Sound(g, skipped, w) ==
    /\ w \in Walked(g)
    /\ ToSet(w.list) \subseteq w.seen \ skipped
    /\ \A i, j \in 1..Len(w.list) : w.list[i] = w.list[j] => i = j
    /\ \A x \in ToSet(w.list) : Names(g, x) \subseteq w.seen
    /\ Acyclic(g) => NamesFirst(g, w.list)

\* The servers whose own are being walked, and the skipped.
Pending(g, skipped, w) == ((w.seen \ ToSet(w.list)) \cap DOMAIN g) \cup skipped

\* A server that everything pending has below it.
Below(g, skipped, w, d) == d \in DOMAIN g => \A o \in Pending(g, skipped, w) : d \in Reach(g, o)

\* There are fewer servers to mark than calls to make.
Fits(g, skipped, n, w) == Cardinality((DOMAIN g \ skipped) \ w.seen) < n

\* Servers that hold all they name, and those of S that are configured.
Holds(g, S) == {C \in SUBSET DOMAIN g : Closed(g, C) /\ S \cap DOMAIN g \subseteq C}

\* What is listed from w to r is of any such servers.
Within(g, S, w, r) == \A C \in Holds(g, S) : ToSet(r.list) \subseteq ToSet(w.list) \cup C

\* What a call promises.
Visits(g, skipped, w, d, r) ==
    /\ Sound(g, skipped, r) /\ w.seen \subseteq r.seen /\ d \in r.seen
    /\ Pending(g, skipped, r) = Pending(g, skipped, w)
    /\ Within(g, {d}, w, r)

AllVisit(g, skipped, n, v) ==
    \A d \in Ids(g), w \in Walked(g) :
        Sound(g, skipped, w) /\ Below(g, skipped, w, d) /\ Fits(g, skipped, n, w)
            => Visits(g, skipped, w, d, v[d][w])

\* The more is seen, the less there is to mark.
LEMMA FitsStill ==
    ASSUME NEW g, IsGraph(g), NEW skipped, NEW n \in Nat, NEW w, Fits(g, skipped, n, w),
           NEW x, w.seen \subseteq x.seen
    PROVE  Fits(g, skipped, n, x)
  <1> DEFINE K == (DOMAIN g \ skipped) \ w.seen
             L == (DOMAIN g \ skipped) \ x.seen
  <1>1. IsFiniteSet(K) /\ L \in SUBSET K
    BY FS_Subset DEF IsGraph
  <1>2. Cardinality(L) <= Cardinality(K) /\ Cardinality(K) \in Nat /\ Cardinality(L) \in Nat
    <2> HIDE DEF K, L
    <2> QED
      BY <1>1, FS_Subset, FS_CardinalityType
  <1> QED
    BY <1>2 DEF Fits

\* What a loop promises.
Looped(g, skipped, w, s, x) ==
    /\ \A i \in 1..Len(s) : s[i] \in x.seen
    /\ Sound(g, skipped, x) /\ w.seen \subseteq x.seen
    /\ Pending(g, skipped, x) = Pending(g, skipped, w)
    /\ Within(g, ToSet(s), w, x)

AllBelow(g, skipped, w, s) == \A i \in 1..Len(s) : Below(g, skipped, w, s[i])

\* A loop over servers everything pending has below it.
LEMMA LoopVisits ==
    ASSUME NEW g, IsGraph(g), NEW skipped, NEW n \in Nat,
           NEW v \in [Ids(g) -> [Walked(g) -> Walked(g)]], AllVisit(g, skipped, n, v),
           NEW w, Sound(g, skipped, w), Fits(g, skipped, n, w), NEW s \in Seq(Ids(g)),
           AllBelow(g, skipped, w, s)
    PROVE  Looped(g, skipped, w, s, Through(v, w, s))
  <1>1. PICK f : Loop(v, w, s, Walked(g), f)
    <2>1. w \in Walked(g)
      BY DEF Sound
    <2> QED
      BY ONLY <2>1, v \in [Ids(g) -> [Walked(g) -> Walked(g)]], s \in Seq(Ids(g)), ThroughLoops
  <1> DEFINE Done(i) == /\ \A j \in 1..i : s[j] \in f[i].seen
                        /\ Sound(g, skipped, f[i]) /\ w.seen \subseteq f[i].seen
                        /\ Pending(g, skipped, f[i]) = Pending(g, skipped, w)
                        /\ Within(g, ToSet(s), w, f[i])
             N == Len(s)
             T == {i \in 0..N : Done(i)}
  <1>2. N \in Nat
    OBVIOUS
  <1>3. 0 \in T
    BY <1>1, <1>2 DEF Loop, Within
  <1>4. ASSUME NEW i \in 0..(N - 1), i \in T
        PROVE  i + 1 \in T
    <2>1. i + 1 \in 1..N /\ i + 1 - 1 = i /\ s[i + 1] \in Ids(g)
      BY <1>2
    <2>2. f[i + 1] = v[s[i + 1]][f[i]]
      BY <1>1, <2>1 DEF Loop
    <2>3. f[i] \in Walked(g) /\ Sound(g, skipped, f[i])
      BY <1>4 DEF Sound
    <2>4. Below(g, skipped, f[i], s[i + 1])
      BY <1>4, <2>1 DEF Below, AllBelow
    <2>5. Fits(g, skipped, n, f[i])
      BY <1>4, FitsStill
    <2>6. Visits(g, skipped, f[i], s[i + 1], f[i + 1])
      BY <2>1, <2>2, <2>3, <2>4, <2>5 DEF AllVisit
    <2>7. Within(g, ToSet(s), w, f[i + 1])
      <3>1. Holds(g, ToSet(s)) \subseteq Holds(g, {s[i + 1]})
        BY <2>1 DEF Holds, ToSet
      <3>2. Within(g, ToSet(s), w, f[i]) /\ Within(g, {s[i + 1]}, f[i], f[i + 1])
        BY <1>4, <2>6 DEF Visits
      <3> QED
        BY <3>1, <3>2 DEF Within
    <2>8. Done(i + 1)
      BY <1>4, <2>1, <2>6, <2>7 DEF Visits
    <2> QED
      BY <2>1, <2>8
  <1>5. N \in T
    <2>1. \A i \in 0..(N - 1) : i \in T => i + 1 \in T
      BY <1>4
    <2> HIDE DEF T, N
    <2>2. \A i \in 0..N : i \in T
      BY <1>2, <1>3, <2>1, UpTo
    <2> QED
      BY <1>2, <2>2
  <1>6. Through(v, w, s) = f[N]
    BY <1>1 DEF Loop
  <1> QED
    BY <1>5, <1>6 DEF Looped

\* To mark a server keeps a walk sound.
LEMMA MarkedSound ==
    ASSUME NEW g, NEW skipped, NEW w, Sound(g, skipped, w), NEW d \in Ids(g)
    PROVE  Sound(g, skipped, Marked(w, d))
  <1> DEFINE m == Marked(w, d)
  <1>1. m \in Walked(g) /\ m.seen = w.seen \cup {d} /\ m.list = w.list
    BY WalkedTyped DEF Sound
  <1> HIDE DEF m
  <1>2. ToSet(m.list) \subseteq m.seen \ skipped
    BY <1>1 DEF Sound
  <1>3. \A x \in ToSet(m.list) : Names(g, x) \subseteq m.seen
    BY <1>1 DEF Sound
  <1>4. \A i, j \in 1..Len(m.list) : m.list[i] = m.list[j] => i = j
    BY <1>1 DEF Sound
  <1>5. Acyclic(g) => NamesFirst(g, m.list)
    BY <1>1 DEF Sound
  <1>6. Sound(g, skipped, m)
    BY <1>1, <1>2, <1>3, <1>4, <1>5 DEF Sound
  <1> QED
    BY <1>6 DEF m

\* A server placed after its names are seen, in a walk in which only it is pending beyond what was.
LEMMA PlacedSound ==
    ASSUME NEW g, IsGraph(g), NEW skipped, NEW x, Sound(g, skipped, x), NEW d \in DOMAIN g \ skipped,
           d \in x.seen, d \notin ToSet(x.list), Names(g, d) \subseteq x.seen,
           \A o \in Pending(g, skipped, x) \ {d} : d \in Reach(g, o),
           skipped \subseteq DOMAIN g
    PROVE  /\ Sound(g, skipped, Placed(x, d)) /\ Placed(x, d).seen = x.seen
           /\ Pending(g, skipped, Placed(x, d)) = Pending(g, skipped, x) \ {d}
  <1> DEFINE r == Placed(x, d)
             L == x.list
             M == r.list
  <1>1. /\ r \in Walked(g) /\ r.seen = x.seen /\ M = Append(L, d)
        /\ L \in Seq(DOMAIN g) /\ x.seen \in SUBSET Ids(g)
    <2>1. d \in Ids(g) /\ x \in Walked(g)
      BY DEF Ids, Sound
    <2>2. L \in Seq(DOMAIN g) /\ x.seen \in SUBSET Ids(g)
      BY <2>1 DEF Walked
    <2> QED
      BY <2>1, <2>2, WalkedTyped
  <1>2. /\ Len(M) = Len(L) + 1 /\ M[Len(L) + 1] = d /\ Len(L) \in Nat
        /\ \A i \in 1..Len(L) : M[i] = L[i]
    BY <1>1
  <1>3. ToSet(M) = ToSet(L) \cup {d} /\ \A i \in 1..Len(L) : L[i] \in ToSet(L)
    BY <1>1, <1>2 DEF ToSet
  <1>4. \A i, j \in 1..Len(M) : M[i] = M[j] => i = j
    BY <1>2, <1>3 DEF Sound
  <1>5. ASSUME Acyclic(g), NEW i \in 1..Len(M), NEW y \in Names(g, M[i])
        PROVE  \E j \in 1..(i - 1) : M[j] = y
    <2>1. CASE i \in 1..Len(L)
      <3>1. M[i] = L[i]
        BY <1>2, <2>1
      <3>2. PICK j \in 1..(i - 1) : L[j] = y
        BY <1>5, <2>1, <3>1 DEF Sound, NamesFirst
      <3> QED
        BY <1>2, <2>1, <3>2
    <2>2. CASE i = Len(L) + 1
      <3>1. y \in Names(g, d) /\ y \in DOMAIN g /\ y \in x.seen
        BY <1>2, <1>5, <2>2 DEF Names
      <3>2. y \notin Reach(g, y)
        BY <1>5, <3>1 DEF Acyclic
      <3>3. y # d
        BY <3>1, <3>2, ReachIsLeast
      <3>4. d \notin Reach(g, y)
        BY <3>1, <3>2, ReachIsLeast
      <3>5. y \in ToSet(L)
        BY <3>1, <3>3, <3>4 DEF Pending
      <3>6. PICK j \in 1..Len(L) : L[j] = y
        BY <1>1, <3>5 DEF ToSet
      <3> QED
        BY <1>2, <2>2, <3>6
    <2> QED
      BY <1>2, <2>1, <2>2
  <1>6. Sound(g, skipped, r)
    BY <1>1, <1>3, <1>4, <1>5 DEF Sound, NamesFirst
  <1>7. Pending(g, skipped, r) = Pending(g, skipped, x) \ {d}
    BY <1>1, <1>3 DEF Pending
  <1> QED
    BY <1>1, <1>6, <1>7

\* Every level does, if the one below it does.
LEMMA LevelVisits ==
    ASSUME NEW g, IsGraph(g), NEW skipped \in SUBSET DOMAIN g, NEW n \in Nat,
           NEW v \in [Ids(g) -> [Walked(g) -> Walked(g)]], AllVisit(g, skipped, n, v)
    PROVE  AllVisit(g, skipped, n + 1, Level(g, skipped, n + 1, v))
  <1> SUFFICES ASSUME NEW d \in Ids(g), NEW w \in Walked(g),
                      Sound(g, skipped, w), Below(g, skipped, w, d), Fits(g, skipped, n + 1, w)
               PROVE  Visits(g, skipped, w, d, Level(g, skipped, n + 1, v)[d][w])
    BY DEF AllVisit
  <1> DEFINE r == Level(g, skipped, n + 1, v)[d][w]
             m == Marked(w, d)
  <1>1. CASE d \in w.seen
    <2>1. r = w
      BY <1>1 DEF Level
    <2> QED
      BY <1>1, <2>1 DEF Visits, Within
  <1>2. CASE d \notin w.seen /\ d \notin DOMAIN g \ skipped
    <2>1. r = m
      BY <1>2 DEF Level
    <2>2. m.seen = w.seen \cup {d} /\ m.list = w.list
      BY WalkedTyped
    <2>3. Pending(g, skipped, m) = Pending(g, skipped, w)
      BY <1>2, <2>2 DEF Pending
    <2> QED
      BY <2>1, <2>2, <2>3, MarkedSound DEF Visits, Within
  <1>3. CASE d \notin w.seen /\ d \in DOMAIN g \ skipped
    <2> DEFINE x == Through(v, m, g[d])
    <2>1. r = Placed(x, d)
      BY <1>3 DEF Level
    <2>2. m.seen = w.seen \cup {d} /\ m.list = w.list /\ Sound(g, skipped, m)
      BY WalkedTyped, MarkedSound
    <2>3. d \notin ToSet(w.list) /\ d \notin Pending(g, skipped, w)
      BY <1>3 DEF Sound, Pending
    <2>4. Pending(g, skipped, m) = Pending(g, skipped, w) \cup {d}
      BY <1>3, <2>2, <2>3 DEF Pending
    <2>5. Fits(g, skipped, n, m)
      <3> DEFINE K == (DOMAIN g \ skipped) \ w.seen
      <3>1. IsFiniteSet(K) /\ d \in K /\ (DOMAIN g \ skipped) \ m.seen = K \ {d}
        BY <1>3, <2>2, FS_Subset DEF IsGraph
      <3>2. Cardinality(K \ {d}) = Cardinality(K) - 1 /\ Cardinality(K) \in Nat
        BY <3>1, FS_RemoveElement, FS_CardinalityType
      <3>3. Cardinality(K) < n + 1
        BY DEF Fits
      <3> HIDE DEF K
      <3>4. Cardinality(K \ {d}) < n
        BY <3>2, <3>3
      <3> QED
        BY <3>1, <3>4 DEF Fits
    <2>6. g[d] \in Seq(Ids(g)) /\ \A i \in 1..Len(g[d]) : g[d][i] \in DOMAIN g => g[d][i] \in Names(g, d)
      BY <1>3 DEF IsGraph, Names, ToSet
    <2>7. \A o \in Pending(g, skipped, m) : Names(g, d) \subseteq Reach(g, o)
      <3>1. Pending(g, skipped, w) \subseteq DOMAIN g
        BY DEF Pending
      <3> QED
        BY <1>3, <2>4, <3>1, ReachIsLeast DEF Below
    <2>8. AllBelow(g, skipped, m, g[d])
      BY <2>6, <2>7 DEF Below, AllBelow
    <2> HIDE DEF x, m
    <2>a. Looped(g, skipped, m, g[d], x)
      <3> DEFINE s == g[d]
      <3>1. s \in Seq(Ids(g)) /\ AllBelow(g, skipped, m, s)
        BY <2>6, <2>8
      <3>2. x = Through(v, m, s)
        BY DEF x
      <3> HIDE DEF s
      <3>3. Looped(g, skipped, m, s, Through(v, m, s))
        BY ONLY IsGraph(g), n \in Nat, v \in [Ids(g) -> [Walked(g) -> Walked(g)]], AllVisit(g, skipped, n, v),
                <2>2, <2>5, <3>1, LoopVisits
      <3> QED
        BY <3>2, <3>3 DEF s
    <2>9. /\ \A i \in 1..Len(g[d]) : g[d][i] \in x.seen
          /\ Sound(g, skipped, x) /\ m.seen \subseteq x.seen
          /\ Pending(g, skipped, x) = Pending(g, skipped, m)
      BY <2>a DEF Looped
    <2>10. d \in x.seen /\ d \notin ToSet(x.list) /\ Names(g, d) \subseteq x.seen
      <3>1. d \in Pending(g, skipped, x) /\ d \notin skipped
        BY <1>3, <2>4, <2>9
      <3>2. Names(g, d) \subseteq {g[d][i] : i \in 1..Len(g[d])}
        BY <2>6 DEF Names, ToSet
      <3> QED
        BY <2>9, <3>1, <3>2 DEF Pending
    <2>11. \A o \in Pending(g, skipped, x) \ {d} : d \in Reach(g, o)
      BY <1>3, <2>4, <2>9 DEF Below
    <2>12. /\ Sound(g, skipped, r) /\ r.seen = x.seen
           /\ Pending(g, skipped, r) = Pending(g, skipped, x) \ {d}
      BY <1>3, <2>1, <2>9, <2>10, <2>11, PlacedSound
    <2>13. Within(g, {d}, w, r)
      <3> SUFFICES ASSUME NEW C \in Holds(g, {d})
                   PROVE  ToSet(r.list) \subseteq ToSet(w.list) \cup C
        BY DEF Within
      <3>1. d \in C /\ C \in Holds(g, ToSet(g[d]))
        BY <1>3 DEF Holds, Closed, Names
      <3>2. ToSet(x.list) \subseteq ToSet(w.list) \cup C
        BY <2>2, <2>a, <3>1 DEF Looped, Within
      <3>3. r.list = Append(x.list, d) /\ x.list \in Seq(DOMAIN g)
        BY <2>1, <2>9 DEF Placed, Sound, Walked
      <3> HIDE DEF r
      <3>4. \A y \in ToSet(r.list) : y = d \/ y \in ToSet(x.list)
        <4> DEFINE L == x.list
        <4>1. L \in Seq(DOMAIN g) /\ r.list = Append(L, d)
          BY <3>3
        <4> HIDE DEF L
        <4>2. ToSet(Append(L, d)) \subseteq ToSet(L) \cup {d}
          BY <4>1 DEF ToSet
        <4> QED
          BY <4>1, <4>2 DEF L
      <3> QED
        BY <3>1, <3>2, <3>4
    <2> QED
      BY <2>2, <2>3, <2>4, <2>9, <2>10, <2>12, <2>13 DEF Visits
  <1> QED
    BY <1>1, <1>2, <1>3

\* So visit() keeps its promise from the top.
LEMMA VisitRight ==
    ASSUME NEW g, IsGraph(g), NEW skipped \in SUBSET DOMAIN g
    PROVE  /\ Visit(g, skipped) \in [Ids(g) -> [Walked(g) -> Walked(g)]]
           /\ AllVisit(g, skipped, Deep(g), Visit(g, skipped)) /\ Deep(g) \in Nat
  <1> DEFINE N == Deep(g)
             S == [Ids(g) -> [Walked(g) -> Walked(g)]]
  <1>1. PICK f \in [0..N -> S] :
              /\ \A n \in 0..N : f[n] = Level(g, skipped, n, f[n - 1])
              /\ Visit(g, skipped) = f[N]
    BY VisitLevels
  <1>2. N \in Nat
    BY FS_CardinalityType DEF IsGraph, Deep
  <1> HIDE DEF N, S
  <1> DEFINE T == {n \in 0..N : AllVisit(g, skipped, n, f[n])}
  <1>3. 0 \in T
    <2>1. \A w : ~Fits(g, skipped, 0, w)
      <3> TAKE w
      <3>1. IsFiniteSet((DOMAIN g \ skipped) \ w.seen)
        BY FS_Subset DEF IsGraph
      <3> QED
        BY <3>1, FS_CardinalityType DEF Fits
    <2> QED
      BY <1>2, <2>1 DEF AllVisit
  <1>4. ASSUME NEW n \in 0..(N - 1), n \in T
        PROVE  n + 1 \in T
    <2>1. n \in 0..N /\ n + 1 \in 0..N /\ n \in Nat /\ n + 1 - 1 = n
      BY <1>2
    <2>2. f[n + 1] = Level(g, skipped, n + 1, f[n])
      BY <1>1, <2>1
    <2>3. f[n] \in [Ids(g) -> [Walked(g) -> Walked(g)]] /\ AllVisit(g, skipped, n, f[n])
      BY <1>1, <1>4, <2>1 DEF S
    <2>4. AllVisit(g, skipped, n + 1, Level(g, skipped, n + 1, f[n]))
      BY ONLY IsGraph(g), skipped \in SUBSET DOMAIN g, <2>1, <2>3, LevelVisits
    <2> QED
      BY <2>1, <2>2, <2>4
  <1>5. \A n \in 0..N : n \in T
    <2> HIDE DEF T
    <2> QED
      BY <1>2, <1>3, <1>4, UpTo
  <1> QED
    BY <1>1, <1>2, <1>5 DEF N, S

-----------------------------------------------------------------------------
(* What dependenciesOf and orderByDependencies make *)

\* Where names stand first, everything below a server does.
LEMMA NamesFirstIsTopological ==
    ASSUME NEW g, NEW list \in Seq(DOMAIN g), NamesFirst(g, list),
           \A i, j \in 1..Len(list) : list[i] = list[j] => i = j
    PROVE  IsTopological(g, list)
  <1> SUFFICES ASSUME NEW i \in 1..Len(list), NEW j \in 1..Len(list), i < j
               PROVE  list[i] # list[j] /\ list[j] \notin Reach(g, list[i])
    BY DEF IsTopological
  <1> DEFINE S == {list[k] : k \in 1..(i - 1)}
  <1>1. S \in SUBSET DOMAIN g /\ list[i] \in DOMAIN g
    OBVIOUS
  <1>2. Names(g, list[i]) \subseteq S
    BY DEF NamesFirst
  <1>3. Closed(g, S)
    <2> SUFFICES ASSUME NEW k \in 1..(i - 1), NEW y \in Names(g, list[k])
                 PROVE  y \in S
      BY DEF Closed
    <2>0. k \in 1..Len(list) /\ k <= i - 1
      OBVIOUS
    <2>1. PICK l \in 1..(k - 1) : list[l] = y
      BY <2>0 DEF NamesFirst
    <2> QED
      BY <2>0, <2>1
  <1>4. Reach(g, list[i]) \subseteq S
    <2> HIDE DEF S
    <2> QED
      BY <1>1, <1>2, <1>3, ReachIsLeast
  <1>5. list[j] \notin S
    OBVIOUS
  <1> QED
    BY <1>4, <1>5

\* What a walk over a list of servers makes.
LEMMA WalkRight ==
    ASSUME NEW g, IsGraph(g), NEW skipped \in SUBSET DOMAIN g, NEW s \in Seq(Ids(g)),
           AllBelow(g, skipped, Nothing, s)
    PROVE  LET list == Through(Visit(g, skipped), Nothing, s).list IN
           /\ list \in Seq(DOMAIN g)
           /\ \A i \in 1..Len(s) : s[i] \in DOMAIN g => s[i] \in ToSet(list) \cup skipped
           /\ \A x \in ToSet(list) : Names(g, x) \subseteq ToSet(list) \cup skipped
           /\ \A C \in Holds(g, ToSet(s)) : ToSet(list) \subseteq C \ skipped
           /\ \A i, j \in 1..Len(list) : list[i] = list[j] => i = j
           /\ Acyclic(g) => IsTopological(g, list)
  <1> DEFINE v == Visit(g, skipped)
             n == Deep(g)
             x == Through(v, Nothing, s)
  <1>1. n \in Nat /\ v \in [Ids(g) -> [Walked(g) -> Walked(g)]] /\ AllVisit(g, skipped, n, v)
    BY VisitRight
  <1>2. Nothing.list = <<>> /\ Nothing.seen = {} /\ Nothing \in Walked(g) /\ ToSet(Nothing.list) = {}
    BY DEF Nothing, Walked, ToSet
  <1>3. Sound(g, skipped, Nothing)
    BY <1>2 DEF Sound, NamesFirst
  <1>4. Fits(g, skipped, n, Nothing)
    <2>1. (DOMAIN g \ skipped) \ Nothing.seen = DOMAIN g \ skipped /\ DOMAIN g \ skipped \in SUBSET DOMAIN g
      BY <1>2
    <2>2. Cardinality(DOMAIN g \ skipped) <= Cardinality(DOMAIN g)
          /\ Cardinality(DOMAIN g \ skipped) \in Nat /\ Cardinality(DOMAIN g) \in Nat
      BY <2>1, FS_Subset, FS_CardinalityType DEF IsGraph
    <2>3. Cardinality(DOMAIN g \ skipped) < n
      BY <2>2 DEF Deep
    <2> HIDE DEF n
    <2> QED
      BY <2>1, <2>3 DEF Fits
  <1> HIDE DEF v, n
  <1>5. Looped(g, skipped, Nothing, s, x)
    BY ONLY IsGraph(g), s \in Seq(Ids(g)), AllBelow(g, skipped, Nothing, s),
            <1>1, <1>3, <1>4, LoopVisits
  <1> HIDE DEF x
  <1>6. Pending(g, skipped, x) = skipped
    BY <1>2, <1>5 DEF Looped, Pending
  <1>7. \A d \in DOMAIN g : d \in x.seen => d \in ToSet(x.list) \cup skipped
    BY <1>6 DEF Pending
  <1>8. x.list \in Seq(DOMAIN g)
    BY <1>5 DEF Looped, Sound, Walked
  <1>9. \A i \in 1..Len(s) : s[i] \in DOMAIN g => s[i] \in ToSet(x.list) \cup skipped
    BY <1>5, <1>7 DEF Looped
  <1>10. \A y \in ToSet(x.list) : Names(g, y) \subseteq ToSet(x.list) \cup skipped
    BY <1>5, <1>7 DEF Looped, Sound, Names
  <1>11. Acyclic(g) => IsTopological(g, x.list)
    BY <1>5, <1>8, NamesFirstIsTopological DEF Looped, Sound
  <1>12. \A C \in Holds(g, ToSet(s)) : ToSet(x.list) \subseteq C \ skipped
    BY <1>2, <1>5 DEF Looped, Within, Sound
  <1>13. \A i, j \in 1..Len(x.list) : x.list[i] = x.list[j] => i = j
    BY <1>5 DEF Looped, Sound
  <1> QED
    BY <1>8, <1>9, <1>10, <1>11, <1>12, <1>13 DEF v, x

\* What is below servers, with them, is closed.
LEMMA ReachHolds ==
    ASSUME NEW g, NEW S \in SUBSET DOMAIN g
    PROVE  /\ S \cup UNION {Reach(g, d) : d \in S} \in Holds(g, S)
           /\ \A e \in DOMAIN g : Reach(g, e) \in Holds(g, Names(g, e))
  <1>1. ASSUME NEW e \in DOMAIN g
        PROVE  Reach(g, e) \in SUBSET DOMAIN g /\ Names(g, e) \subseteq Reach(g, e) /\ Closed(g, Reach(g, e))
    BY ReachIsLeast DEF Reach, Closed
  <1>2. Closed(g, S \cup UNION {Reach(g, d) : d \in S})
    BY <1>1 DEF Closed
  <1> QED
    BY <1>1, <1>2 DEF Holds

\* dependenciesOf: just what is below the server, each once, and in an order that starts in turn.
THEOREM DependenciesRight ==
    ASSUME NEW g, IsGraph(g), NEW e \in DOMAIN g
    PROVE  LET list == DependenciesOf(g, e) IN
           /\ list \in Seq(DOMAIN g) /\ ToSet(list) = Reach(g, e) \ {e}
           /\ \A i, j \in 1..Len(list) : list[i] = list[j] => i = j
           /\ Acyclic(g) => IsTopological(g, list)
  <1> DEFINE s == g[e]
             list == DependenciesOf(g, e)
             S == ToSet(list) \cup {e}
  <1>1. s \in Seq(Ids(g)) /\ \A i \in 1..Len(s) : s[i] \in DOMAIN g => s[i] \in Names(g, e)
    BY DEF IsGraph, Names, ToSet
  <1>2. AllBelow(g, {e}, Nothing, s)
    <2>1. Pending(g, {e}, Nothing) = {e}
      BY DEF Pending, Nothing
    <2> QED
      BY <1>1, <2>1, ReachIsLeast DEF AllBelow, Below
  <1>3. list = Through(Visit(g, {e}), Nothing, s).list
    BY DEF DependenciesOf
  <1> HIDE DEF list
  <1>4. /\ list \in Seq(DOMAIN g)
        /\ \A i \in 1..Len(s) : s[i] \in DOMAIN g => s[i] \in ToSet(list) \cup {e}
        /\ \A x \in ToSet(list) : Names(g, x) \subseteq ToSet(list) \cup {e}
        /\ \A C \in Holds(g, ToSet(s)) : ToSet(list) \subseteq C \ {e}
        /\ \A i, j \in 1..Len(list) : list[i] = list[j] => i = j
        /\ Acyclic(g) => IsTopological(g, list)
    <2>1. {e} \in SUBSET DOMAIN g
      OBVIOUS
    <2> HIDE DEF s
    <2> QED
      BY ZenonT(60), <1>1, <1>2, <1>3, <2>1, WalkRight
  <1>5. Names(g, e) \subseteq S
    BY <1>4 DEF Names, ToSet
  <1>6. S \in SUBSET DOMAIN g /\ Closed(g, S)
    BY <1>4, <1>5 DEF Closed, ToSet
  <1>7. Reach(g, e) \subseteq S
    <2> HIDE DEF S
    <2> QED
      BY <1>5, <1>6, ReachIsLeast
  <1>8. ToSet(list) \subseteq Reach(g, e) \ {e}
    <2>1. Reach(g, e) \in Holds(g, ToSet(s))
      BY ReachHolds DEF Holds, Names
    <2> QED
      BY <1>4, <2>1
  <1> QED
    BY <1>4, <1>7, <1>8 DEF list

\* orderByDependencies: just the servers asked for and what is below them, each once, and in an
\* order that starts in turn.
THEOREM OrderRight ==
    ASSUME NEW g, IsGraph(g), NEW s \in Seq(DOMAIN g)
    PROVE  LET list == OrderByDependencies(g, s) IN
           /\ list \in Seq(DOMAIN g)
           /\ ToSet(list) = ToSet(s) \cup UNION {Reach(g, e) : e \in ToSet(s)}
           /\ \A i, j \in 1..Len(list) : list[i] = list[j] => i = j
           /\ Acyclic(g) => IsTopological(g, list)
  <1>1. s \in Seq(Ids(g)) /\ ToSet(s) \in SUBSET DOMAIN g
    BY DEF Ids, ToSet
  <1>2. AllBelow(g, {}, Nothing, s)
    BY DEF AllBelow, Below, Pending, Nothing
  <1> DEFINE list == OrderByDependencies(g, s)
             S == ToSet(list)
  <1>3. list = Through(Visit(g, {}), Nothing, s).list
    BY DEF OrderByDependencies
  <1> HIDE DEF list
  <1>4. /\ list \in Seq(DOMAIN g)
        /\ \A i \in 1..Len(s) : s[i] \in DOMAIN g => s[i] \in ToSet(list) \cup {}
        /\ \A x \in ToSet(list) : Names(g, x) \subseteq ToSet(list) \cup {}
        /\ \A C \in Holds(g, ToSet(s)) : ToSet(list) \subseteq C \ {}
        /\ \A i, j \in 1..Len(list) : list[i] = list[j] => i = j
        /\ Acyclic(g) => IsTopological(g, list)
    <2>1. {} \in SUBSET DOMAIN g
      OBVIOUS
    <2> QED
      BY <1>1, <1>2, <1>3, <2>1, WalkRight
  <1>5. ToSet(s) \subseteq S /\ S \in SUBSET DOMAIN g /\ Closed(g, S)
    BY <1>4 DEF ToSet, Closed
  <1>6. \A e \in ToSet(s) : Reach(g, e) \subseteq S
    <2> SUFFICES ASSUME NEW e \in ToSet(s)
                 PROVE  Reach(g, e) \subseteq S
      OBVIOUS
    <2>1. e \in DOMAIN g /\ Names(g, e) \subseteq S
      BY <1>1, <1>5 DEF Closed
    <2> HIDE DEF S
    <2> QED
      BY <1>5, <2>1, ReachIsLeast
  <1>7. S \subseteq ToSet(s) \cup UNION {Reach(g, e) : e \in ToSet(s)}
    BY <1>1, <1>4, ReachHolds
  <1> QED
    BY <1>4, <1>5, <1>6, <1>7 DEF list, S

-----------------------------------------------------------------------------
(* The model's steps *)

\* No step changes what a world is.
LEMMA WorldStays == [Next]_vars => UNCHANGED world
  BY DEF Next, Elsewhere, vars

\* So what is configured stays.
LEMMA ConfiguredStays == [Next]_vars => Configured' = Configured
  BY WorldStays DEF Configured

-----------------------------------------------------------------------------
(* Who supervises what *)

\* What a world, a process and a handle are.
Typed ==
    /\ world \in World
    /\ owner \in [Procs -> Entries \cup {"stranger", "dead"}]
    /\ handle \in [Entries -> Procs \cup {NoProc}]

\* The process an entry holds was started as the entry, or as one it cannot tell from itself.
HandlesRecognised == \A e \in Entries : handle[e] # NoProc => owner[handle[e]] \in LooksLike(e)

Holding == Typed /\ HandlesRecognised

\* What an entry takes for its own is never a name no process has.
LEMMA LooksAlive ==
    ASSUME Typed, NEW e \in Entries
    PROVE  e \in LooksLike(e) /\ "dead" \notin LooksLike(e)
  BY ConstantsAssumption DEF Typed, World, LooksLike

\* The steps that touch neither the handles nor what the processes were started as.
LEMMA HoldingStays == Holding /\ UNCHANGED <<world, owner, handle>> => Holding'
  BY DEF Holding, Typed, HandlesRecognised, LooksLike

\* While a name for a process is left, Fresh is one.
LEMMA FreshIsDead ==
    ASSUME Live # Procs
    PROVE  Fresh \in Procs /\ owner[Fresh] = "dead"
  <1>1. \E p \in Procs : p \notin Live
    BY DEF Live
  <1> QED
    BY <1>1 DEF Fresh, Live

\* Nobody holds it yet.
LEMMA FreshIsNobodys ==
    ASSUME Holding, Live # Procs, NEW e \in Entries
    PROVE  handle[e] # Fresh
  <1>1. Fresh \in Procs /\ owner[Fresh] = "dead"
    BY FreshIsDead
  <1> HIDE DEF Fresh
  <1> QED
    BY <1>1, LooksAlive, ConstantsAssumption DEF Holding, HandlesRecognised

\* A spawned process is started as its entry.
LEMMA SpawnsHolds ==
    ASSUME Holding, UNCHANGED world, NEW e \in Entries, Spawns(e)
    PROVE  Holding'
  <1>1. Fresh \in Procs /\ \A f \in Entries : handle[f] # Fresh
    BY FreshIsDead, FreshIsNobodys DEF Spawns
  <1>2. owner' = [owner EXCEPT ![Fresh] = e] /\ handle' = [handle EXCEPT ![e] = Fresh]
    BY DEF Spawns, Set
  <1> HIDE DEF Fresh
  <1>3. Typed'
    BY <1>1, <1>2 DEF Holding, Typed
  <1>4. ASSUME NEW f \in Entries, handle'[f] # NoProc
        PROVE  owner'[handle'[f]] \in LooksLike(f)
    <2>1. CASE f = e
      BY <1>1, <1>2, <2>1, LooksAlive DEF Holding, Typed
    <2>2. CASE f # e
      BY <1>1, <1>2, <1>4, <2>2 DEF Holding, Typed, HandlesRecognised
    <2> QED
      BY <2>1, <2>2
  <1> QED
    BY <1>3, <1>4 DEF Holding, HandlesRecognised, LooksLike

\* A process that is gone is nobody's any more.
LEMMA GoneHolds ==
    ASSUME Holding, UNCHANGED world, NEW p \in Procs, ProcessGone(p),
           owner' \in [Procs -> Entries \cup {"stranger", "dead"}],
           \A e \in Entries : handle[e] # NoProc /\ handle[e] # p => owner'[handle[e]] = owner[handle[e]]
    PROVE  Holding'
  <1>1. handle' = [e \in Entries |-> IF handle[e] = p THEN NoProc ELSE handle[e]]
    BY DEF ProcessGone
  <1>2. Typed'
    BY <1>1 DEF Holding, Typed
  <1>3. \A e \in Entries : handle'[e] # NoProc => handle'[e] = handle[e] /\ handle[e] # p
    BY <1>1
  <1> QED
    BY <1>2, <1>3 DEF Holding, HandlesRecognised, LooksLike

\* A server that finds its port taken leaves no process behind.
LEMMA BindsHolds ==
    ASSUME Holding, UNCHANGED world, NEW e \in Entries, Binds(e)
    PROVE  Holding'
  <1>1. CASE Contested(e)
    <2>1. /\ handle[e] \in Procs /\ ProcessGone(handle[e])
          /\ owner' = [owner EXCEPT ![handle[e]] = "dead"]
      BY <1>1 DEF Binds, Set, Holding, Typed
    <2> QED
      BY <2>1, GoneHolds DEF Holding, Typed
  <1>2. CASE ~Contested(e)
    BY <1>2, HoldingStays DEF Binds
  <1> QED
    BY <1>1, <1>2

\* Nor does one that ends.
LEMMA EndsHolds ==
    ASSUME Holding, UNCHANGED world, NEW p \in Procs, Ends(p)
    PROVE  Holding'
  <1>1. owner' = [owner EXCEPT ![p] = "dead"] /\ ProcessGone(p)
    BY DEF Ends, Set
  <1> QED
    BY <1>1, GoneHolds DEF Holding, Typed

\* A successor is nobody's yet, and the child it replaces is gone.
LEMMA DetachesHolds ==
    ASSUME Holding, UNCHANGED world, NEW e \in Entries, Detaches(e)
    PROVE  Holding'
  <1>1. Fresh \in Procs /\ \A f \in Entries : handle[f] # Fresh
    BY FreshIsDead, FreshIsNobodys DEF Detaches
  <1>2. /\ handle[e] \in Procs /\ ProcessGone(handle[e])
        /\ owner' = [owner EXCEPT ![Fresh] = owner[handle[e]], ![handle[e]] = "dead"]
    BY DEF Detaches, Holding, Typed
  <1> HIDE DEF Fresh
  <1> QED
    BY <1>1, <1>2, GoneHolds DEF Holding, Typed

\* A start takes over a listener only if it looks like its own.
LEMMA DecidedHolds ==
    ASSUME Holding, UNCHANGED world, NEW e \in Entries, PortDecided(e)
    PROVE  Holding'
  <1>1. CASE UNCHANGED <<owner, handle>>
    BY <1>1, HoldingStays
  <1>2. CASE \E p \in Own(e) : Adopts(e, p)
    <2>1. PICK p \in Own(e) : Adopts(e, p)
      BY <1>2
    <2>2. p \in Procs /\ owner[p] \in LooksLike(e)
      BY <2>1 DEF Own, Foreign, Listed, Live
    <2>3. UNCHANGED owner /\ handle' = [handle EXCEPT ![e] = p]
      BY <2>1 DEF Adopts, Set
    <2> QED
      BY <2>2, <2>3, ConstantsAssumption DEF Holding, Typed, HandlesRecognised, LooksLike
  <1>3. \/ UNCHANGED <<owner, handle>>
        \/ \E p \in Own(e) : Adopts(e, p)
    BY DEF PortDecided, KillDecides, FollowDecides, ReclaimDecides, Stops, GoesAhead, IsBlocked
  <1> QED
    BY <1>1, <1>2, <1>3

\* Every step leaves each entry only processes it recognises.
THEOREM HoldingKept == Holding /\ [Next]_vars => Holding'
  <1> SUFFICES ASSUME Holding, [Next]_vars
               PROVE  Holding'
    OBVIOUS
  <1>0. UNCHANGED world
    BY WorldStays
  <1>1. CASE \E e \in Entries : UserStart(e) \/ UserStop(e) \/ Frees(e) \/ BecomesHealthy(e)
    BY <1>0, <1>1, HoldingStays DEF UserStart, UserStop, BeginsStop, Frees, BecomesHealthy, entryVars
  <1>2. CASE \E e \in Entries : StartStep(e)
    <2>1. PICK e \in Entries : StartStep(e)
      BY <1>2
    <2>2. CASE Spawns(e)
      BY <1>0, <2>2, SpawnsHolds
    <2>3. CASE SeesToDependency(e) \/ DependencySettled(e) \/ DependenciesDone(e) \/ PortProbed(e)
      BY <1>0, <2>3, HoldingStays
         DEF SeesToDependency, DependencySettled, DependenciesDone, PortProbed, entryVars
    <2>4. CASE HoldersStopped(e)
      BY <1>0, <2>4, HoldingStays DEF HoldersStopped, GoesAhead, IsBlocked
    <2> QED
      BY <2>1, <2>2, <2>3, <2>4 DEF StartStep
  <1>3. CASE \E e \in Entries : Binds(e) \/ Detaches(e)
    BY <1>0, <1>3, BindsHolds, DetachesHolds
  <1>4. CASE \E p \in Procs : Ends(p)
    BY <1>0, <1>4, EndsHolds
  <1>5. CASE FreeEnds \/ JobAsked \/ JobGoesOn \/ FreeDecided
    BY <1>0, <1>5, HoldingStays DEF FreeEnds, JobAsked, JobGoesOn, FreeDecided, entryVars
  <1>6. CASE StartAllStep \/ StopAllStep
    BY <1>0, <1>6, HoldingStays DEF StartAllStep, StopAllStep, BeginsStop
  <1>7. CASE \E e \in Entries : PortDecided(e)
    BY <1>0, <1>7, DecidedHolds
  <1>8. CASE UNCHANGED vars
    BY <1>0, <1>8, HoldingStays DEF vars, entryVars
  <1> QED
    BY <1>1, <1>2, <1>3, <1>4, <1>5, <1>6, <1>7, <1>8 DEF Next

\* Nobody holds a process at first.
LEMMA HoldingFromInit == Init => Holding
  BY ConstantsAssumption DEF Init, World, Holding, Typed, HandlesRecognised

-----------------------------------------------------------------------------
(* Types of what a start, a freePort and the processes are *)

Basic == ProcessesOK /\ StartsOK

\* The initial states are typed.
LEMMA BasicFromInit == Init => Basic
  BY ConstantsAssumption DEF Init, World, Basic, ProcessesOK, StartsOK, Resting

\* What configures a world.
LEMMA WorldTyped ==
    ASSUME world \in Worlds
    PROVE  /\ world.present \in SUBSET Entries /\ world.dependsOn \in [Entries -> Seq(Entries)]
           /\ world.policy \in [Entries -> Policy] /\ world.quick \in BOOLEAN
  BY ConstantsAssumption DEF World

\* The flag goes down with the start that raised it, and its callers wait.
LEMMA ReturnsBasic ==
    ASSUME StartsOK, NEW e \in Entries, StartReturns(e)
    PROVE  /\ starting' \in [Entries -> BOOLEAN]
           /\ at' \in [Entries -> {"idle", "deps", "called", "wait", "probe", "list", "kill", "spawn"}]
           /\ \A c \in Entries : starting'[c] <=> at'[c] # "idle"
           /\ \A c \in Entries : at'[c] \in {at[c], "idle", "wait"}
           /\ at'[e] = "idle"
  BY DEF StartsOK, StartReturns, CallerOf, Set

\* A start that begins raises its flag with its place.
LEMMA BeginsBasic ==
    ASSUME Basic, NEW e, BeginsStart(e), at' = Set(at, e, "deps"), UNCHANGED <<pids, free>>
    PROVE  StartsOK'
  BY WorldTyped DEF Basic, ProcessesOK, StartsOK, BeginsStart, Set

\* A start that begins another's start waits in its place, and the other begins.
LEMMA SeesBasic ==
    ASSUME Basic, NEW e \in Entries, SeesToDependency(e)
    PROVE  StartsOK'
  <1> DEFINE d == Head(todo[e])
  <1>1. CASE BeginsStart(d) /\ at' = [at EXCEPT ![e] = "called", ![d] = "deps"]
    <2>1. d \in Entries /\ d # e
      BY <1>1, WorldTyped DEF Basic, ProcessesOK, StartsOK, BeginsStart, StartAccepted, SeesToDependency
    <2>2. starting' = [starting EXCEPT ![d] = TRUE] /\ UNCHANGED <<pids, free>> /\ at[e] = "deps"
      BY <1>1 DEF BeginsStart, Set, SeesToDependency
    <2> QED
      BY <1>1, <2>1, <2>2 DEF Basic, StartsOK
  <1>2. CASE at' = Set(at, e, "wait") /\ UNCHANGED starting
    BY <1>2 DEF Basic, StartsOK, Set, SeesToDependency
  <1>3. CASE UNCHANGED <<at, starting>>
    BY <1>3 DEF Basic, StartsOK, SeesToDependency
  <1> QED
    BY <1>1, <1>2, <1>3 DEF SeesToDependency

\* The steps of a start that go to a named place with the flag up.
LEMMA GoesToBasic ==
    ASSUME Basic, NEW e \in Entries, NEW place \in {"deps", "probe", "list", "kill", "spawn"},
           at[e] # "idle", at' = Set(at, e, place), NEW P \in SUBSET Procs,
           pids' \in {pids, Set(pids, e, P)}, UNCHANGED <<starting, free>>
    PROVE  StartsOK'
  BY DEF Basic, StartsOK, Set

\* What is supervised are processes.
LEMMA SupervisedAreProcs == ProcessesOK => Supervised \in SUBSET Procs
  BY DEF ProcessesOK, Supervised

\* What is listed are processes.
LEMMA ListedAreProcs == Listed \in SUBSET Procs
  BY DEF Listed, Live

\* Every step keeps the types of the starts, and the flag up as long as the start.
THEOREM StartsOKKept == Basic /\ [Next]_vars => StartsOK'
  <1> SUFFICES ASSUME Basic, [Next]_vars
               PROVE  StartsOK'
    OBVIOUS
  <1>0. ASSUME UNCHANGED <<starting, at, pids, free>>
        PROVE  StartsOK'
    BY <1>0 DEF Basic, StartsOK
  <1>1. ASSUME NEW e \in Entries, UserStart(e)
        PROVE  StartsOK'
    BY <1>1, BeginsBasic DEF UserStart
  <1>2. ASSUME NEW e \in Entries, UserStop(e) \/ BecomesHealthy(e) \/ Binds(e) \/ Detaches(e)
        PROVE  StartsOK'
    BY <1>0, <1>2 DEF UserStop, BeginsStop, BecomesHealthy, Binds, Detaches, startVars
  <1>3. ASSUME NEW e \in Entries, Frees(e)
        PROVE  StartsOK'
    BY <1>3, SupervisedAreProcs DEF Basic, StartsOK, Frees, entryVars, startVars
  <1>4. ASSUME NEW e \in Entries, StartStep(e)
        PROVE  StartsOK'
    <2>1. CASE SeesToDependency(e)
      BY <2>1, SeesBasic
    <2>2. CASE DependencySettled(e)
      BY <2>2, GoesToBasic DEF DependencySettled, entryVars
    <2>3. CASE DependenciesDone(e)
      BY <2>3, GoesToBasic DEF DependenciesDone
    <2>4. CASE PortProbed(e)
      BY <2>4, GoesToBasic, SupervisedAreProcs DEF PortProbed, entryVars, Basic
    <2>5. CASE HoldersStopped(e)
      <3>1. CASE GoesAhead(e)
        BY <2>5, <3>1, GoesToBasic DEF HoldersStopped, GoesAhead
      <3>2. CASE IsBlocked(e)
        BY <2>5, <3>2, ReturnsBasic DEF HoldersStopped, IsBlocked, Basic, StartsOK, Set
      <3> QED
        BY <2>5, <3>1, <3>2 DEF HoldersStopped
    <2>6. CASE Spawns(e)
      BY <2>6, ReturnsBasic DEF Spawns, Basic, StartsOK
    <2> QED
      BY <1>4, <2>1, <2>2, <2>3, <2>4, <2>5, <2>6 DEF StartStep
  <1>5. ASSUME NEW p \in Procs, Ends(p)
        PROVE  StartsOK'
    BY <1>0, <1>5 DEF Ends, startVars
  <1>6. CASE FreeEnds \/ JobAsked \/ JobGoesOn
    <2>1. UNCHANGED <<starting, at, pids>> /\ free' \in {free, Resting}
      BY <1>6 DEF FreeEnds, JobAsked, JobGoesOn, entryVars, startVars
    <2> QED
      BY <2>1 DEF Basic, StartsOK, Resting
  <1>7. CASE StartAllStep
    BY <1>0, <1>7, BeginsBasic DEF StartAllStep
  <1>8. CASE StopAllStep
    BY <1>0, <1>8 DEF StopAllStep, BeginsStop, startVars
  <1>9. CASE FreeDecided
    <2>1. UNCHANGED <<starting, at, pids>>
      BY <1>9 DEF FreeDecided, startVars
    <2>2. \/ free' = [free EXCEPT !.at = "kill", !.pids = Foreign(free.pids)]
          \/ free' = Resting
      BY <1>9 DEF FreeDecided
    <2>3. Foreign(free.pids) \in SUBSET Procs
      BY ListedAreProcs DEF Foreign
    <2>4. free' \in [at : {"idle", "list", "kill"}, entry : Entries \cup {NoProc}, pids : SUBSET Procs]
      <3>1. CASE free' = [free EXCEPT !.at = "kill", !.pids = Foreign(free.pids)]
        BY <2>3, <3>1 DEF Basic, StartsOK
      <3>2. CASE free' = Resting
        BY <3>2 DEF Resting
      <3> QED
        BY <2>2, <3>1, <3>2
    <2> QED
      BY <2>1, <2>4 DEF Basic, StartsOK
  <1>10. ASSUME NEW e \in Entries, PortDecided(e)
         PROVE  StartsOK'
    <2>1. at[e] = "list" /\ UNCHANGED free
      BY <1>10 DEF PortDecided
    <2>2. CASE GoesAhead(e)
      BY <2>1, <2>2, GoesToBasic DEF GoesAhead
    <2>3. CASE Stops(e, Foreign(pids[e])) \/ Stops(e, Own(e))
      BY <2>1, <2>3, GoesToBasic, ListedAreProcs DEF Stops, Foreign, Own
    <2>4. CASE IsBlocked(e) \/ \E p \in Own(e) : Adopts(e, p)
      BY <2>1, <2>4, ReturnsBasic DEF IsBlocked, Adopts, Basic, StartsOK, Set
    <2> QED
      BY <1>10, <2>2, <2>3, <2>4 DEF PortDecided, KillDecides, FollowDecides, ReclaimDecides
  <1>11. CASE UNCHANGED vars
    BY <1>0, <1>11 DEF vars, entryVars, startVars
  <1> QED
    BY <1>1, <1>2, <1>3, <1>4, <1>5, <1>6, <1>7, <1>8, <1>9, <1>10, <1>11 DEF Next

\* A process that is named Fresh is one of the processes.
LEMMA FreshIsAProc == Live # Procs => Fresh \in Procs
  BY FreshIsDead

\* Every step keeps the types of the processes and the entries' state.
THEOREM ProcessesOKKept == Basic /\ [Next]_vars => ProcessesOK'
  <1> SUFFICES ASSUME Basic, [Next]_vars
               PROVE  ProcessesOK'
    OBVIOUS
  <1>0. /\ world' \in Worlds
        /\ world \in Worlds
    BY WorldStays DEF Basic, ProcessesOK
  <1> DEFINE Statuses == {"stopped", "starting", "running", "stopping", "crashed", "conflict"}
  \* What a step does, as far as types go.
  <1>a. ASSUME UNCHANGED <<owner, holder, status, handle, healthy, cleared>>, calls' \in {calls, calls + 1},
               calls' = calls \/ calls < MaxCalls
        PROVE  ProcessesOK'
    BY <1>0, <1>a, ConstantsAssumption DEF Basic, ProcessesOK
  <1>b. ASSUME UNCHANGED <<owner, handle, healthy, calls>>, holder' \in {holder, NoProc},
               cleared' \in SUBSET Procs, NEW e, NEW s \in Statuses,
               status' \in {status, [status EXCEPT ![e] = s]}
        PROVE  ProcessesOK'
    BY <1>0, <1>b DEF Basic, ProcessesOK
  <1>1. ASSUME NEW e \in Entries, UserStart(e) \/ Frees(e)
        PROVE  ProcessesOK'
    BY <1>1, <1>a DEF UserStart, Frees, entryVars
  <1>2. ASSUME NEW e, BeginsStop(e), calls' = calls \/ (calls < MaxCalls /\ calls' = calls + 1)
        PROVE  ProcessesOK'
    <2>1. calls' \in 0..MaxCalls
      BY <1>2, ConstantsAssumption DEF Basic, ProcessesOK
    <2>2. \E s \in Statuses : status' = [status EXCEPT ![e] = s]
      BY <1>2 DEF BeginsStop, Set
    <2>3. UNCHANGED <<owner, holder, handle, healthy, cleared>>
      BY <1>2 DEF BeginsStop
    <2> QED
      BY <1>0, <2>1, <2>2, <2>3 DEF Basic, ProcessesOK
  <1>3. ASSUME NEW e \in Entries, StartStep(e)
        PROVE  ProcessesOK'
    <2>1. CASE SeesToDependency(e) \/ DependencySettled(e) \/ PortProbed(e)
      BY <2>1, <1>a DEF SeesToDependency, DependencySettled, PortProbed, entryVars
    <2>2. CASE DependenciesDone(e)
      BY <1>0, <2>2 DEF DependenciesDone, Basic, ProcessesOK, Set
    <2>3. CASE HoldersStopped(e)
      BY <2>3, <1>b DEF HoldersStopped, GoesAhead, IsBlocked, Basic, ProcessesOK, Set
    <2>4. CASE Spawns(e)
      BY <1>0, <2>4, FreshIsAProc DEF Spawns, Basic, ProcessesOK, Set
    <2> QED
      BY <1>3, <2>1, <2>2, <2>3, <2>4 DEF StartStep
  <1>4. ASSUME NEW e \in Entries, Binds(e)
        PROVE  ProcessesOK'
    <2>1. handle[e] \in Procs
      BY <1>4 DEF Basic, ProcessesOK, Binds
    <2>2. CASE Contested(e)
      <3>1. /\ owner' = [owner EXCEPT ![handle[e]] = "dead"] /\ ProcessGone(handle[e])
            /\ UNCHANGED <<holder, calls>>
        BY <1>4, <2>2 DEF Binds, Set
      <3> QED
        BY <1>0, <2>1, <3>1 DEF ProcessGone, Basic, ProcessesOK
    <2>3. CASE ~Contested(e)
      BY <1>0, <1>4, <2>1, <2>3 DEF Binds, Basic, ProcessesOK, Set
    <2> QED
      BY <2>2, <2>3
  <1>5. ASSUME NEW e \in Entries, BecomesHealthy(e)
        PROVE  ProcessesOK'
    BY <1>0, <1>5 DEF BecomesHealthy, Basic, ProcessesOK, Set
  <1>6. ASSUME NEW e \in Entries, Detaches(e)
        PROVE  ProcessesOK'
    BY <1>0, <1>6, FreshIsAProc, ConstantsAssumption DEF Detaches, ProcessGone, Basic, ProcessesOK
  <1>7. ASSUME NEW p \in Procs, Ends(p)
        PROVE  ProcessesOK'
    BY <1>0, <1>7 DEF Ends, ProcessGone, Basic, ProcessesOK, Set
  <1>8. CASE FreeEnds \/ FreeDecided
    <2>1. Foreign(free.pids) \in SUBSET Procs
      BY ListedAreProcs DEF Foreign
    <2>2. CASE FreeEnds
      BY <1>b, <2>2 DEF FreeEnds, Unblocked, Basic, ProcessesOK, Set
    <2>3. CASE FreeDecided
      BY <1>b, <2>1, <2>3 DEF FreeDecided, Unblocked, Basic, ProcessesOK, Set
    <2> QED
      BY <1>8, <2>2, <2>3
  <1>9. CASE JobAsked \/ JobGoesOn \/ StartAllStep
    BY <1>9, <1>a DEF JobAsked, JobGoesOn, StartAllStep, entryVars
  <1>10. CASE StopAllStep
    BY <1>2, <1>10 DEF StopAllStep
  <1>11. ASSUME NEW e \in Entries, PortDecided(e)
         PROVE  ProcessesOK'
    <2>0. calls' = calls /\ Foreign(pids[e]) \in SUBSET Procs /\ Own(e) \in SUBSET Procs
      BY <1>11, ListedAreProcs DEF PortDecided, Foreign, Own
    <2>1. CASE IsBlocked(e)
      BY <1>b, <2>0, <2>1 DEF IsBlocked, Basic, ProcessesOK, Set
    <2>2. CASE GoesAhead(e) /\ holder' \in {holder, NoProc}
      BY <1>b, <2>0, <2>2 DEF GoesAhead, Basic, ProcessesOK
    <2>3. CASE Stops(e, Foreign(pids[e])) \/ Stops(e, Own(e))
      BY <1>b, <2>0, <2>3 DEF Stops, Basic, ProcessesOK
    <2>4. CASE \E p \in Own(e) : Adopts(e, p)
      BY <1>0, <2>0, <2>4 DEF Adopts, Basic, ProcessesOK, Set
    <2> QED
      BY <1>11, <2>1, <2>2, <2>3, <2>4 DEF PortDecided, KillDecides, FollowDecides, ReclaimDecides
  <1>12. CASE UNCHANGED vars
    BY <1>12, <1>a DEF vars, entryVars
  <1>13. ASSUME NEW e \in Entries, UserStop(e)
         PROVE  ProcessesOK'
    BY <1>2, <1>13 DEF UserStop
  <1> QED
    BY <1>1, <1>3, <1>4, <1>5, <1>6, <1>7, <1>8, <1>9, <1>10, <1>11, <1>12, <1>13 DEF Next

\* Those types hold of every behaviour (startEntry's flag, preflight, freePort).
THEOREM BasicTypes == Spec => []Basic
  BY BasicFromInit, StartsOKKept, ProcessesOKKept, PTL DEF Spec, Basic

-----------------------------------------------------------------------------
(* What is signalled to free the port *)

\* Where listing takes no time, one call at most is between its two reads, and what it read
\* of the supervised is still so.
ReadIsNow ==
    world.quick =>
        /\ \A e \in Entries : at[e] = "list" => pids[e] = Supervised /\ free.at # "list"
        /\ \A e, f \in Entries : at[e] = "list" /\ at[f] = "list" => e = f
        /\ free.at = "list" => free.pids = Supervised

\* The steps at which nobody begins to list, taken when nobody is listing.
LEMMA NobodyLists ==
    ASSUME world.quick => Undisturbed, UNCHANGED world,
           \A e \in Entries : at'[e] = "list" => at[e] = "list",
           free'.at = "list" => free.at = "list"
    PROVE  ReadIsNow'
  BY DEF ReadIsNow, Undisturbed

\* A start that finds the port busy reads who supervises what.
LEMMA ProbedReads ==
    ASSUME Basic, ReadIsNow, Elsewhere, NEW e \in Entries, PortProbed(e)
    PROVE  ReadIsNow'
  <1>1. CASE Contested(e)
    <2>1. /\ at' = [at EXCEPT ![e] = "list"] /\ pids' = [pids EXCEPT ![e] = Supervised]
          /\ UNCHANGED <<free, handle, world>>
      BY <1>1 DEF PortProbed, Set, entryVars, Elsewhere
    <2>2. Supervised' = Supervised
      BY <2>1 DEF Supervised
    <2> QED
      BY <2>1, <2>2 DEF ReadIsNow, Elsewhere, Undisturbed, Basic, StartsOK
  <1>2. CASE ~Contested(e)
    BY <1>2, NobodyLists DEF PortProbed, Set, Elsewhere, Basic, StartsOK
  <1> QED
    BY <1>1, <1>2

\* One that decides has listed; nobody else has.
LEMMA DecidedReads ==
    ASSUME Basic, ReadIsNow, UNCHANGED world, NEW e \in Entries, PortDecided(e)
    PROVE  ReadIsNow'
  <1>1. at[e] = "list" /\ UNCHANGED free
    BY DEF PortDecided
  <1>2. /\ \A f \in Entries \ {e} : at'[f] = "list" => at[f] = "list"
        /\ at'[e] # "list"
    <2>1. CASE GoesAhead(e) \/ Stops(e, Foreign(pids[e])) \/ Stops(e, Own(e))
      BY <2>1 DEF GoesAhead, Stops, Set, Basic, StartsOK
    <2>2. CASE IsBlocked(e) \/ \E p \in Own(e) : Adopts(e, p)
      BY <2>2, ReturnsBasic DEF IsBlocked, Adopts, Basic
    <2> QED
      BY <2>1, <2>2 DEF PortDecided, KillDecides, FollowDecides, ReclaimDecides
  <1> QED
    BY <1>1, <1>2 DEF ReadIsNow

\* Where listing takes no time, what a start or a freePort read is what is supervised.
THEOREM ReadKept == Basic /\ ReadIsNow /\ [Next]_vars => ReadIsNow'
  <1> SUFFICES ASSUME Basic, ReadIsNow, [Next]_vars
               PROVE  ReadIsNow'
    OBVIOUS
  <1>0. ASSUME Elsewhere, UNCHANGED <<at, free>>
        PROVE  ReadIsNow'
    BY <1>0, NobodyLists DEF Elsewhere
  <1>1. ASSUME Elsewhere, NEW e \in Entries, UserStart(e)
        PROVE  ReadIsNow'
    BY <1>1, NobodyLists DEF UserStart, Set, Elsewhere, Basic, StartsOK
  <1>2. ASSUME Elsewhere, NEW e \in Entries, UserStop(e) \/ BecomesHealthy(e) \/ Binds(e) \/ Detaches(e)
        PROVE  ReadIsNow'
    BY <1>0, <1>2 DEF UserStop, BeginsStop, BecomesHealthy, Binds, Detaches, startVars
  <1>3. ASSUME Elsewhere, NEW e \in Entries, Frees(e)
        PROVE  ReadIsNow'
    <2>1. UNCHANGED <<at, handle, world>> /\ free' = [at |-> "list", entry |-> e, pids |-> Supervised]
      BY <1>3 DEF Frees, entryVars, startVars, Elsewhere
    <2>2. Supervised' = Supervised
      BY <2>1 DEF Supervised
    <2> QED
      BY <1>3, <2>1, <2>2 DEF ReadIsNow, Elsewhere, Undisturbed
  <1>4. ASSUME Elsewhere, NEW e \in Entries, StartStep(e)
        PROVE  ReadIsNow'
    <2>1. CASE SeesToDependency(e) \/ DependencySettled(e) \/ DependenciesDone(e)
      BY <1>4, <2>1, NobodyLists
         DEF SeesToDependency, DependencySettled, DependenciesDone, Set, Elsewhere, Basic, StartsOK
    <2>2. CASE PortProbed(e)
      BY <1>4, <2>2, ProbedReads
    <2>3. CASE HoldersStopped(e)
      <3>1. CASE GoesAhead(e)
        BY <1>4, <2>3, <3>1, NobodyLists DEF HoldersStopped, GoesAhead, Set, Elsewhere, Basic, StartsOK
      <3>2. CASE IsBlocked(e)
        BY <1>4, <2>3, <3>2, NobodyLists, ReturnsBasic DEF HoldersStopped, IsBlocked, Elsewhere, Basic
      <3> QED
        BY <2>3, <3>1, <3>2 DEF HoldersStopped
    <2>4. CASE Spawns(e)
      BY <1>4, <2>4, NobodyLists, ReturnsBasic DEF Spawns, Elsewhere, Basic
    <2> QED
      BY <1>4, <2>1, <2>2, <2>3, <2>4 DEF StartStep
  <1>5. ASSUME Elsewhere, NEW p \in Procs, Ends(p)
        PROVE  ReadIsNow'
    BY <1>0, <1>5 DEF Ends, startVars
  <1>6. CASE Elsewhere /\ (FreeEnds \/ JobAsked \/ JobGoesOn)
    BY <1>6, NobodyLists DEF FreeEnds, JobAsked, JobGoesOn, startVars, Resting, Elsewhere
  <1>7. CASE Elsewhere /\ StartAllStep
    BY <1>7, NobodyLists DEF StartAllStep, Set, Elsewhere, Basic, StartsOK
  <1>8. CASE Elsewhere /\ StopAllStep
    BY <1>0, <1>8 DEF StopAllStep, BeginsStop, startVars
  <1>9. CASE UNCHANGED world /\ FreeDecided
    <2>1. free.at = "list" /\ UNCHANGED at
      BY <1>9 DEF FreeDecided, startVars
    <2>2. CASE free' = [free EXCEPT !.at = "kill", !.pids = Foreign(free.pids)]
      <3>1. free'.at = "kill"
        BY <2>2 DEF Basic, StartsOK
      <3> QED
        BY <1>9, <2>1, <3>1 DEF ReadIsNow
    <2>3. CASE free' = Resting
      BY <1>9, <2>1, <2>3 DEF ReadIsNow, Resting
    <2> QED
      BY <1>9, <2>2, <2>3 DEF FreeDecided
  <1>10. ASSUME UNCHANGED world, NEW e \in Entries, PortDecided(e)
         PROVE  ReadIsNow'
    BY <1>10, DecidedReads
  <1>11. CASE UNCHANGED vars
    BY <1>11 DEF vars, entryVars, startVars, ReadIsNow, Supervised
  <1> QED
    BY <1>1, <1>2, <1>3, <1>4, <1>5, <1>6, <1>7, <1>8, <1>9, <1>10, <1>11 DEF Next

\* A step signals nothing but what it finds listening and not supervised.
LEMMA SignalsForeign ==
    ASSUME Basic, [Next]_vars
    PROVE  \/ cleared' \subseteq cleared
           \/ \E e \in Entries : at[e] = "list" /\ cleared' \subseteq cleared \cup Foreign(pids[e])
           \/ free.at = "list" /\ cleared' \subseteq cleared \cup Foreign(free.pids)
  <1>1. CASE \E e \in Entries : \/ UserStart(e) \/ UserStop(e) \/ Frees(e) \/ Binds(e)
                                \/ BecomesHealthy(e) \/ Detaches(e)
    BY <1>1 DEF UserStart, UserStop, BeginsStop, Frees, Binds, BecomesHealthy, Detaches, ProcessGone
  <1>2. CASE \E e \in Entries : StartStep(e)
    BY <1>2 DEF StartStep, SeesToDependency, DependencySettled, DependenciesDone, PortProbed,
                HoldersStopped, GoesAhead, IsBlocked, Spawns
  <1>3. CASE \E p \in Procs : Ends(p)
    BY <1>3 DEF Ends, ProcessGone
  <1>4. CASE FreeEnds \/ JobAsked \/ StartAllStep \/ StopAllStep \/ JobGoesOn
    BY <1>4 DEF FreeEnds, JobAsked, StartAllStep, StopAllStep, BeginsStop, JobGoesOn
  <1>5. CASE FreeDecided
    BY <1>5 DEF FreeDecided
  <1>6. CASE \E e \in Entries : PortDecided(e)
    BY <1>6 DEF PortDecided, KillDecides, FollowDecides, ReclaimDecides, Stops, GoesAhead, IsBlocked,
                Adopts, Own
  <1>7. CASE UNCHANGED vars
    BY <1>7 DEF vars
  <1> QED
    BY <1>1, <1>2, <1>3, <1>4, <1>5, <1>6, <1>7 DEF Next

\* No process of ours is signalled to free the port, as long as nothing happens between the
\* reading of who supervises what and of who listens.
THEOREM OursAreSpared == Spec => QuickSparesOurs
  <1>1. Basic /\ ReadIsNow /\ [Next]_vars
            => (world.quick => (cleared' \ cleared) \cap Supervised = {})
    BY SignalsForeign DEF ReadIsNow, Foreign
  <1>2. Init => ReadIsNow
    BY DEF Init, ReadIsNow, Resting
  <1>3. Spec => []ReadIsNow
    BY <1>2, ReadKept, BasicTypes, PTL DEF Spec
  <1> QED
    BY <1>1, <1>3, BasicTypes, PTL DEF Spec, QuickSparesOurs

(* No process of two entries *)

\* Where listing takes no time, no two entries hold one process.
HeldAlone ==
    world.quick => \A e, f \in Entries : handle[e] # NoProc /\ handle[e] = handle[f] => e = f

\* The steps that give no entry a process.
LEMMA NothingGained ==
    ASSUME HeldAlone, UNCHANGED world, \A e \in Entries : handle'[e] \in {handle[e], NoProc}
    PROVE  HeldAlone'
  BY DEF HeldAlone

\* The step that gives one a process no other has.
LEMMA OneGained ==
    ASSUME HeldAlone, Typed, UNCHANGED world, NEW e \in Entries, NEW p,
           handle' = [handle EXCEPT ![e] = p],
           world.quick => \A f \in Entries \ {e} : handle[f] # p
    PROVE  HeldAlone'
  BY DEF HeldAlone, Typed

\* A start takes over only what nobody supervises: what it read is still so.
THEOREM HeldAloneKept == Holding /\ ReadIsNow /\ HeldAlone /\ [Next]_vars => HeldAlone'
  <1> SUFFICES ASSUME Holding, ReadIsNow, HeldAlone, [Next]_vars
               PROVE  HeldAlone'
    OBVIOUS
  <1>0. UNCHANGED world
    BY WorldStays
  <1>1. CASE \E e \in Entries : UserStart(e) \/ UserStop(e) \/ Frees(e) \/ BecomesHealthy(e)
    BY <1>0, <1>1, NothingGained DEF UserStart, UserStop, BeginsStop, Frees, BecomesHealthy, entryVars
  <1>2. ASSUME NEW e \in Entries, StartStep(e)
        PROVE  HeldAlone'
    <2>1. CASE Spawns(e)
      <3>1. handle' = [handle EXCEPT ![e] = Fresh] /\ \A f \in Entries : handle[f] # Fresh
        BY <2>1, FreshIsNobodys DEF Spawns, Set
      <3> HIDE DEF Fresh
      <3> QED
        BY <1>0, <3>1, OneGained DEF Holding
    <2>2. CASE SeesToDependency(e) \/ DependencySettled(e) \/ DependenciesDone(e) \/ PortProbed(e)
      BY <1>0, <2>2, NothingGained
         DEF SeesToDependency, DependencySettled, DependenciesDone, PortProbed, entryVars
    <2>3. CASE HoldersStopped(e)
      BY <1>0, <2>3, NothingGained DEF HoldersStopped, GoesAhead, IsBlocked
    <2> QED
      BY <1>2, <2>1, <2>2, <2>3 DEF StartStep
  <1>3. CASE \/ \E e \in Entries : Binds(e) \/ Detaches(e)
             \/ \E p \in Procs : Ends(p)
    BY <1>0, <1>3, NothingGained DEF Binds, Detaches, Ends, ProcessGone
  <1>4. CASE FreeEnds \/ JobAsked \/ JobGoesOn \/ FreeDecided \/ StartAllStep \/ StopAllStep
    BY <1>0, <1>4, NothingGained
       DEF FreeEnds, JobAsked, JobGoesOn, FreeDecided, StartAllStep, StopAllStep, BeginsStop, entryVars
  <1>5. ASSUME NEW e \in Entries, PortDecided(e)
        PROVE  HeldAlone'
    <2>1. CASE UNCHANGED handle
      BY <1>0, <2>1, NothingGained
    <2>2. ASSUME NEW p \in Own(e), Adopts(e, p)
          PROVE  HeldAlone'
      <3>1. p \in Procs /\ p \notin pids[e]
        BY DEF Own, Foreign, Listed, Live
      <3>2. world.quick => p \notin Supervised
        BY <1>5, <3>1 DEF ReadIsNow, PortDecided
      <3>3. handle' = [handle EXCEPT ![e] = p]
        BY <2>2 DEF Adopts, Set
      <3> QED
        BY <1>0, <3>1, <3>2, <3>3, OneGained, ConstantsAssumption DEF Holding, Supervised
    <2> QED
      BY <1>5, <2>1, <2>2
         DEF PortDecided, KillDecides, FollowDecides, ReclaimDecides, Stops, GoesAhead, IsBlocked
  <1>6. CASE UNCHANGED vars
    BY <1>0, <1>6, NothingGained DEF vars, entryVars
  <1> QED
    BY <1>1, <1>2, <1>3, <1>4, <1>5, <1>6 DEF Next

\* An entry holds nothing it does not recognise, and, where listing takes no time, nothing another
\* holds: supervisedPids is what keeps two entries with one command line apart.
THEOREM NoProcessIsShared == Spec => []OneSupervisor
  <1>1. Holding /\ HeldAlone => OneSupervisor
    BY DEF Holding, HandlesRecognised, HeldAlone, OneSupervisor
  <1>2. Init => HeldAlone /\ ReadIsNow
    BY DEF Init, HeldAlone, ReadIsNow, Resting
  <1> QED
    BY <1>1, <1>2, HoldingFromInit, HoldingKept, ReadKept, HeldAloneKept, BasicTypes, PTL DEF Spec

-----------------------------------------------------------------------------
(* The lists of a start and of a job *)

\* A world's configuration is one the walks are right on.
LEMMA WorldGraph ==
    ASSUME world \in Worlds
    PROVE  IsGraph(Configured) /\ DOMAIN Configured = world.present /\ world.present \in SUBSET Entries
  <1> DEFINE g == Configured
  <1>1. DOMAIN g = world.present /\ world.present \in SUBSET Entries
        /\ \A s \in DOMAIN g : g[s] \in Seq(Entries)
    BY WorldTyped DEF Configured
  <1>2. g = [s \in DOMAIN g |-> g[s]]
    BY DEF Configured
  <1> HIDE DEF g
  <1>3. \A s \in DOMAIN g : g[s] \in Seq(Ids(g))
    <2> TAKE s \in DOMAIN g
    <2>1. \A i \in 1..Len(g[s]) : g[s][i] \in Ids(g)
      BY <1>1 DEF Ids, ToSet
    <2> QED
      BY <1>1, <2>1
  <1>4. IsFiniteSet(DOMAIN g)
    BY <1>1, FS_Subset, ConstantsAssumption
  <1>5. IsGraph(g)
    BY <1>2, <1>3, <1>4 DEF IsGraph
  <1> QED
    BY <1>1, <1>5 DEF g

\* The list a start begins with is one of entries.
LEMMA DependenciesTyped ==
    ASSUME world \in Worlds, NEW e \in world.present
    PROVE  DependenciesOf(Configured, e) \in Seq(Entries)
  <1> DEFINE g == Configured
  <1>1. IsGraph(g) /\ DOMAIN g = world.present /\ world.present \in SUBSET Entries
    BY WorldGraph
  <1> HIDE DEF g
  <1>2. DependenciesOf(g, e) \in Seq(world.present)
    BY <1>1, DependenciesRight
  <1>3. DependenciesOf(g, e) \in Seq(Entries)
    BY <1>1, <1>2
  <1> QED
    BY <1>3 DEF g

\* The places of a start that still sees to its dependencies.
Seeing == {"deps", "called", "wait"}

\* A start that waits waits for somebody, and a job that waits is at an entry.
Coming ==
    /\ \A e \in Entries : at[e] \in {"called", "wait"} => todo[e] # <<>>
    /\ job \in {"starting", "stopping"} => left # <<>>

\* What a step does to a start's lists: nothing, ...
Kept(e) ==
    /\ todo'[e] = todo[e]
    /\ at'[e] \in Seeing => at[e] \in Seeing /\ gaveUp'[e] = gaveUp[e] /\ seenUp[e] \subseteq seenUp'[e]
    /\ at'[e] \in {"called", "wait"} => todo[e] # <<>>

\* ... or it makes them, ...
Begun(e) ==
    /\ e \in world.present /\ todo'[e] = DependenciesOf(Configured, e) /\ at'[e] = "deps" /\ seenUp'[e] = Up

\* ... or it is done with the first dependency.
Served(e) ==
    /\ todo[e] # <<>> /\ todo'[e] = Tail(todo[e]) /\ at[e] \in {"wait", "deps"} /\ at'[e] = "deps"
    /\ seenUp'[e] = seenUp[e] /\ gaveUp[e] \subseteq gaveUp'[e]
    /\ Head(todo[e]) \in Up \cup gaveUp'[e] \cup world.disabled

Moves ==
    /\ todo' \in [Entries -> Seq(Entries)]
    /\ gaveUp' \in [Entries -> SUBSET Entries] /\ seenUp' \in [Entries -> SUBSET Entries]
    /\ \A e \in Entries : Kept(e) \/ Begun(e) \/ Served(e)

Lists == ListsOK /\ Coming

\* Steps that go on with the same lists.
LEMMA KeptAll ==
    ASSUME Lists, UNCHANGED <<todo, gaveUp, seenUp>>,
           \A f \in Entries : \/ at'[f] = at[f] \/ at'[f] \notin Seeing
                              \/ at[f] \in Seeing /\ todo[f] # <<>>
    PROVE  Moves
  BY DEF Lists, ListsOK, Coming, Kept, Moves, Seeing

\* A start that begins, whoever called it.
LEMMA BeginsMoves ==
    ASSUME Basic, Lists, NEW d \in Entries, BeginsStart(d), at'[d] = "deps",
           \A f \in Entries \ {d} : \/ at'[f] = at[f]
                                    \/ at[f] \in Seeing /\ todo[f] # <<>>
    PROVE  Moves
  <1>1. /\ todo' = [todo EXCEPT ![d] = DependenciesOf(Configured, d)]
        /\ gaveUp' = [gaveUp EXCEPT ![d] = {}] /\ seenUp' = [seenUp EXCEPT ![d] = Up]
    BY DEF BeginsStart, Set
  <1>2. DependenciesOf(Configured, d) \in Seq(Entries) /\ Up \in SUBSET Entries
    BY DependenciesTyped DEF Basic, ProcessesOK, Up, BeginsStart
  <1>3. Begun(d)
    BY <1>1 DEF Begun, BeginsStart, Lists, ListsOK
  <1>4. \A f \in Entries \ {d} : Kept(f)
    BY <1>1 DEF Kept, Lists, ListsOK, Coming, Seeing
  <1>5. todo' \in [Entries -> Seq(Entries)]
    BY <1>1, <1>2 DEF Lists, ListsOK
  <1>6. gaveUp' \in [Entries -> SUBSET Entries] /\ seenUp' \in [Entries -> SUBSET Entries]
    BY <1>1, <1>2 DEF Lists, ListsOK
  <1> QED
    BY <1>3, <1>4, <1>5, <1>6 DEF Moves

\* A dependency that is up, or was given up on, leaves the list.
LEMMA SettledMoves ==
    ASSUME Basic, Lists, NEW e \in Entries, DependencySettled(e)
    PROVE  Moves
  <1> DEFINE d == Head(todo[e])
  <1>1. todo[e] # <<>> /\ todo[e] \in Seq(Entries) /\ at[e] = "wait"
    BY DEF Lists, ListsOK, Coming, DependencySettled
  <1>2. d \in Entries /\ Tail(todo[e]) \in Seq(Entries)
    BY <1>1
  <1>3. /\ todo' = [todo EXCEPT ![e] = Tail(todo[e])] /\ at' = [at EXCEPT ![e] = "deps"]
        /\ UNCHANGED seenUp
    BY DEF DependencySettled, Set
  <1>4. \/ d \in Up /\ UNCHANGED gaveUp
        \/ gaveUp' = [gaveUp EXCEPT ![e] = gaveUp[e] \cup {d}]
    BY DEF DependencySettled, Set
  <1> HIDE DEF d
  <1>5. gaveUp' \in [Entries -> SUBSET Entries] /\ gaveUp[e] \subseteq gaveUp'[e] /\ d \in Up \cup gaveUp'[e]
        /\ \A f \in Entries \ {e} : gaveUp'[f] = gaveUp[f]
    <2>0. gaveUp \in [Entries -> SUBSET Entries]
      BY DEF Lists, ListsOK
    <2>1. CASE d \in Up /\ UNCHANGED gaveUp
      BY <2>0, <2>1
    <2>2. CASE gaveUp' = [gaveUp EXCEPT ![e] = gaveUp[e] \cup {d}]
      BY <1>2, <2>0, <2>2
    <2> QED
      BY <1>4, <2>1, <2>2
  <1>6. Served(e)
    BY <1>1, <1>3, <1>5 DEF Served, d, Basic, StartsOK, Lists, ListsOK
  <1>7. \A f \in Entries \ {e} : Kept(f)
    BY <1>3, <1>5 DEF Kept, Basic, StartsOK, Lists, ListsOK, Coming
  <1>8. todo' \in [Entries -> Seq(Entries)] /\ seenUp' \in [Entries -> SUBSET Entries]
    BY <1>2, <1>3 DEF Lists, ListsOK
  <1> QED
    BY <1>5, <1>6, <1>7, <1>8 DEF Moves

\* So does a disabled one.
LEMMA PassedMoves ==
    ASSUME Basic, Lists, NEW e \in Entries, at[e] = "deps", todo[e] # <<>>,
           Head(todo[e]) \in world.disabled, todo' = Set(todo, e, Tail(todo[e])),
           UNCHANGED <<at, gaveUp, seenUp>>
    PROVE  Moves
  <1>1. todo[e] \in Seq(Entries) /\ Tail(todo[e]) \in Seq(Entries)
    BY DEF Lists, ListsOK
  <1>2. todo' = [todo EXCEPT ![e] = Tail(todo[e])]
    BY DEF Set
  <1>3. Served(e)
    BY <1>2 DEF Served, Lists, ListsOK
  <1>4. \A f \in Entries \ {e} : Kept(f)
    BY <1>2 DEF Kept, Lists, ListsOK, Coming
  <1> QED
    BY <1>1, <1>2, <1>3, <1>4 DEF Moves, Lists, ListsOK

\* A start that returns lets its callers wait; nobody's list changes.
LEMMA ReturnsMoves ==
    ASSUME Basic, Lists, NEW e \in Entries, StartReturns(e), UNCHANGED <<todo, gaveUp, seenUp>>
    PROVE  Moves
  <1>1. \A f \in Entries : at'[f] = at[f] \/ at'[f] = "idle" \/ at[f] = "called"
    BY DEF StartReturns, CallerOf
  <1>2. \A f \in Entries : \/ at'[f] = at[f] \/ at'[f] \notin Seeing
                           \/ at[f] \in Seeing /\ todo[f] # <<>>
    BY <1>1 DEF Lists, Coming, Seeing
  <1> QED
    BY <1>2, KeptAll

\* A start that has left its dependencies behind.
LEMMA GoesMoves ==
    ASSUME Basic, Lists, NEW e \in Entries, NEW place, place \notin Seeing, at' = Set(at, e, place),
           UNCHANGED <<todo, gaveUp, seenUp>>
    PROVE  Moves
  <1>1. \A f \in Entries : at'[f] = at[f] \/ at'[f] \notin Seeing
    BY DEF Basic, StartsOK, Set
  <1> QED
    BY <1>1, KeptAll

\* Every step does one of the three to each start's lists.
LEMMA StartMoves == Basic /\ Lists /\ [Next]_vars => Moves
  <1> SUFFICES ASSUME Basic, Lists, [Next]_vars
               PROVE  Moves
    OBVIOUS
  <1>0. ASSUME UNCHANGED <<at, todo, gaveUp, seenUp>>
        PROVE  Moves
    BY <1>0, KeptAll
  <1>1. ASSUME NEW e \in Entries, UserStart(e)
        PROVE  Moves
    BY <1>1, BeginsMoves DEF UserStart, Set, Basic, StartsOK
  <1>2. ASSUME NEW e \in Entries, UserStop(e) \/ Binds(e) \/ Detaches(e) \/ Frees(e)
        PROVE  Moves
    BY <1>0, <1>2 DEF UserStop, BeginsStop, Binds, Detaches, Frees, startVars
  <1>3. ASSUME NEW e \in Entries, SeesToDependency(e)
        PROVE  Moves
    <2> DEFINE d == Head(todo[e])
    <2>1. at[e] = "deps" /\ todo[e] # <<>>
      BY <1>3 DEF SeesToDependency
    <2>2. CASE BeginsStart(d) /\ at' = [at EXCEPT ![e] = "called", ![d] = "deps"]
      <3>1. d \in Entries /\ BeginsStart(d)
        BY <2>2, WorldTyped DEF BeginsStart, Basic, ProcessesOK
      <3>2. at'[d] = "deps" /\ \A f \in Entries \ {d} : at'[f] = at[f] \/ f = e
        BY <2>2, <3>1 DEF Basic, StartsOK
      <3> HIDE DEF d
      <3> QED
        BY <2>1, <3>1, <3>2, BeginsMoves DEF Seeing
    <2>3. CASE at' = Set(at, e, "wait") /\ UNCHANGED <<todo, gaveUp, seenUp>>
      <3>1. \A f \in Entries : at'[f] = at[f] \/ f = e
        BY <2>3 DEF Basic, StartsOK, Set
      <3> QED
        BY <2>1, <2>3, <3>1, KeptAll DEF Seeing
    <2>4. CASE /\ d \in world.disabled /\ todo' = Set(todo, e, Tail(todo[e]))
               /\ UNCHANGED <<at, gaveUp, seenUp>>
      BY <2>1, <2>4, PassedMoves
    <2> QED
      BY <1>3, <2>2, <2>3, <2>4 DEF SeesToDependency
  <1>4. ASSUME NEW e \in Entries, DependencySettled(e)
        PROVE  Moves
    BY <1>4, SettledMoves
  <1>5. ASSUME NEW e \in Entries, DependenciesDone(e)
        PROVE  Moves
    <2>1. /\ at' = [at EXCEPT ![e] = "probe"] /\ todo' = todo
          /\ gaveUp' = [gaveUp EXCEPT ![e] = {}] /\ seenUp' = [seenUp EXCEPT ![e] = {}]
      BY <1>5 DEF DependenciesDone, Set
    <2>2. \A f \in Entries : Kept(f)
      BY <2>1 DEF Kept, Seeing, Basic, StartsOK, Lists, ListsOK, Coming
    <2> QED
      BY <2>1, <2>2 DEF Moves, Lists, ListsOK
  <1>6. ASSUME NEW e \in Entries, PortProbed(e)
        PROVE  Moves
    BY <1>6, GoesMoves DEF PortProbed, Seeing
  <1>7. ASSUME NEW e \in Entries, HoldersStopped(e)
        PROVE  Moves
    BY <1>7, GoesMoves, ReturnsMoves DEF HoldersStopped, GoesAhead, IsBlocked, Seeing
  <1>8. ASSUME NEW e \in Entries, Spawns(e)
        PROVE  Moves
    BY <1>8, ReturnsMoves DEF Spawns
  <1>9. ASSUME NEW e \in Entries, BecomesHealthy(e)
        PROVE  Moves
    <2>1. /\ UNCHANGED <<at, todo, gaveUp>>
          /\ seenUp' = [f \in Entries |-> IF at[f] \in Seeing THEN seenUp[f] \cup {e} ELSE {}]
      BY <1>9 DEF BecomesHealthy, Seeing
    <2>2. \A f \in Entries : Kept(f)
      BY <2>1 DEF Kept, Lists, Coming
    <2>3. seenUp' \in [Entries -> SUBSET Entries]
      BY <2>1 DEF Lists, ListsOK
    <2> QED
      BY <2>1, <2>2, <2>3 DEF Moves, Lists, ListsOK
  <1>10. ASSUME NEW p \in Procs, Ends(p)
         PROVE  Moves
    BY <1>0, <1>10 DEF Ends, startVars
  <1>11. CASE FreeEnds \/ FreeDecided \/ JobAsked \/ JobGoesOn \/ StopAllStep
    BY <1>0, <1>11 DEF FreeEnds, FreeDecided, JobAsked, JobGoesOn, StopAllStep, BeginsStop, startVars
  <1>12. CASE StartAllStep
    <2>1. CASE BeginsStart(Head(left)) /\ at' = Set(at, Head(left), "deps")
      <3> DEFINE d == Head(left)
      <3>1. d \in Entries /\ BeginsStart(d)
        BY <2>1, WorldTyped DEF BeginsStart, Basic, ProcessesOK
      <3>2. at'[d] = "deps" /\ \A f \in Entries \ {d} : at'[f] = at[f]
        BY <2>1, <3>1 DEF Basic, StartsOK, Set
      <3> HIDE DEF d
      <3> QED
        BY <3>1, <3>2, BeginsMoves
    <2>2. CASE UNCHANGED <<at, todo, gaveUp, seenUp>>
      BY <1>0, <2>2
    <2> QED
      BY <1>12, <2>1, <2>2 DEF StartAllStep
  <1>13. ASSUME NEW e \in Entries, PortDecided(e)
         PROVE  Moves
    <2>1. UNCHANGED <<todo, gaveUp, seenUp>>
      BY <1>13 DEF PortDecided
    <2>2. CASE IsBlocked(e) \/ \E p \in Own(e) : Adopts(e, p)
      BY <2>1, <2>2, ReturnsMoves DEF IsBlocked, Adopts
    <2>3. CASE GoesAhead(e)
      BY <2>1, <2>3, GoesMoves DEF GoesAhead, Seeing
    <2>4. CASE Stops(e, Foreign(pids[e])) \/ Stops(e, Own(e))
      BY <2>1, <2>4, GoesMoves DEF Stops, Seeing
    <2> QED
      BY <1>13, <2>2, <2>3, <2>4 DEF PortDecided, KillDecides, FollowDecides, ReclaimDecides
  <1>14. CASE UNCHANGED vars
    BY <1>0, <1>14 DEF vars, startVars
  <1> QED
    BY <1>1, <1>2, <1>3, <1>4, <1>5, <1>6, <1>7, <1>8, <1>9, <1>10, <1>11, <1>12, <1>13, <1>14
    DEF Next, StartStep

\* What a step does to a job's list.
StartJobs == {"startAll", "starting"}
StopJobs == {"stopAll", "stopping"}

JobMoves ==
    /\ job' \in {"none"} \cup StartJobs \cup StopJobs
    /\ job' \in {"starting", "stopping"} => left' # <<>>
    /\ \/ left' = left \/ (left # <<>> /\ left' = Tail(left))
       \/ (left' = StartOrder /\ job' \in StartJobs) \/ (left' = StopOrder /\ job' \in StopJobs)
    /\ (left' = StartOrder /\ job' \in StartJobs) \/ (job' \in StartJobs => job \in StartJobs)
    /\ (left' = StopOrder /\ job' \in StopJobs) \/ (job' \in StopJobs => job \in StopJobs)

\* Every step moves a job's list so.
LEMMA JobMovesOn == Lists /\ [Next]_vars => JobMoves
  <1> SUFFICES ASSUME Lists, [Next]_vars
               PROVE  JobMoves
    OBVIOUS
  <1> USE DEF StartJobs, StopJobs
  <1>0. job \in {"none"} \cup StartJobs \cup StopJobs /\ (job \in {"starting", "stopping"} => left # <<>>)
    BY DEF Lists, ListsOK, Coming
  <1>1. ASSUME UNCHANGED jobVars
        PROVE  JobMoves
    BY <1>0, <1>1 DEF JobMoves, jobVars
  <1>2. ASSUME NEW e \in Entries,
               \/ UserStart(e) \/ UserStop(e) \/ Frees(e) \/ StartStep(e)
               \/ Binds(e) \/ BecomesHealthy(e) \/ Detaches(e) \/ PortDecided(e)
        PROVE  JobMoves
    BY <1>1, <1>2 DEF UserStart, UserStop, Frees, StartStep, SeesToDependency, DependencySettled,
        DependenciesDone, PortProbed, HoldersStopped, Spawns, Binds, BecomesHealthy, Detaches, PortDecided
  <1>3. ASSUME NEW p \in Procs, Ends(p)
        PROVE  JobMoves
    BY <1>1, <1>3 DEF Ends
  <1>4. CASE FreeEnds \/ FreeDecided \/ UNCHANGED vars
    BY <1>1, <1>4 DEF FreeEnds, FreeDecided, vars
  <1>5. CASE JobAsked
    BY <1>5 DEF JobAsked, JobMoves
  <1>6. CASE StartAllStep
    BY <1>6 DEF StartAllStep, JobMoves
  <1>7. CASE StopAllStep
    BY <1>7 DEF StopAllStep, JobMoves
  <1>8. CASE JobGoesOn
    BY <1>0, <1>8 DEF JobGoesOn, JobMoves
  <1> QED
    BY <1>2, <1>3, <1>4, <1>5, <1>6, <1>7, <1>8 DEF Next

\* The servers configured, in whatever order they are configured in.
LEMMA PresentListed ==
    ASSUME NEW S \in SUBSET Entries
    PROVE  SetToSeq(S) \in Seq(S)
  <1> DEFINE n == Cardinality(S)
             s == SetToSeq(S)
  <1>1. IsFiniteSet(S)
    BY FS_Subset, ConstantsAssumption
  <1>2. PICK m \in Nat : ExistsBijection(1..m, S)
    BY <1>1, FS_NatBijection
  <1>3. m = n
    BY <1>2, FS_CountingElements
  <1>4. \E f \in [1..n -> S] : IsInjective(f)
    BY <1>2, <1>3 DEF ExistsBijection, Bijection, Injection, IsInjective
  <1>5. s \in [1..n -> S]
    BY <1>4 DEF SetToSeq
  <1> HIDE DEF s, n
  <1>6. s \in Seq(S)
    BY <1>2, <1>3, <1>5
  <1> QED
    BY <1>6 DEF s

\* What Reverse makes of a list.
LEMMA ReverseTyped ==
    ASSUME NEW S, NEW list \in Seq(S)
    PROVE  /\ Reverse(list) \in Seq(S) /\ Len(Reverse(list)) = Len(list)
           /\ \A i \in 1..Len(list) : Reverse(list)[i] = list[Len(list) - i + 1]
  BY DEF Reverse

\* The orders of startAll and stopAll, over the servers configured.
LEMMA OrdersTyped ==
    ASSUME world \in Worlds
    PROVE  /\ StartOrder \in Seq(Entries) /\ StopOrder \in Seq(Entries)
           /\ StopOrder = Reverse(StartOrder)
           /\ Acyclic(Configured) => IsTopological(Configured, StartOrder)
  <1> DEFINE g == Configured
             s == SetToSeq(world.present)
  <1>1. /\ IsGraph(g) /\ DOMAIN g = world.present /\ s \in Seq(world.present)
        /\ world.present \in SUBSET Entries
    BY WorldGraph, PresentListed
  <1>2. StartOrder = OrderByDependencies(g, s) /\ StopOrder = Reverse(OrderByDependencies(g, s))
    BY DEF StartOrder, StopOrder
  <1> HIDE DEF g, s
  <1>3. /\ OrderByDependencies(g, s) \in Seq(world.present)
        /\ Acyclic(g) => IsTopological(g, OrderByDependencies(g, s))
    BY <1>1, OrderRight
  <1>a. OrderByDependencies(g, s) \in Seq(Entries)
    BY <1>1, <1>3
  <1>4. Reverse(OrderByDependencies(g, s)) \in Seq(Entries)
    BY <1>a, ReverseTyped
  <1> QED
    BY <1>2, <1>3, <1>a, <1>4 DEF g

\* No list is begun at first.
LEMMA ListsFromInit == Init => Lists
  BY DEF Init, Lists, ListsOK, Coming

\* Every step keeps the lists lists of entries, and nobody waits for nobody.
THEOREM ListsKept == Basic /\ Lists /\ [Next]_vars => Lists'
  <1> SUFFICES ASSUME Basic, Lists, [Next]_vars
               PROVE  Lists'
    OBVIOUS
  <1>1. Moves /\ JobMoves
    BY StartMoves, JobMovesOn
  <1>2. \A e \in Entries : at'[e] \in {"called", "wait"} => todo'[e] # <<>>
    BY <1>1 DEF Moves, Kept, Begun, Served
  <1>3. left' \in Seq(Entries)
    <2>1. left \in Seq(Entries) /\ (left # <<>> => Tail(left) \in Seq(Entries))
      BY DEF Lists, ListsOK
    <2>2. StartOrder \in Seq(Entries) /\ StopOrder \in Seq(Entries)
      BY OrdersTyped DEF Basic, ProcessesOK
    <2> QED
      BY <1>1, <2>1, <2>2 DEF JobMoves
  <1>4. job' \in {"none", "startAll", "starting", "stopAll", "stopping"}
    BY <1>1 DEF JobMoves, StartJobs, StopJobs
  <1> QED
    BY <1>1, <1>2, <1>3, <1>4 DEF Lists, ListsOK, Coming, Moves, JobMoves

Typing == Basic /\ Lists

\* The types, and that whoever waits waits for somebody.
LEMMA TypingKept == Spec => []Typing
  <1>1. Basic /\ [Next]_vars => Basic'
    BY StartsOKKept, ProcessesOKKept DEF Basic
  <1>2. Init => Typing
    BY BasicFromInit, ListsFromInit DEF Typing
  <1>3. Typing /\ [Next]_vars => Typing'
    BY <1>1, ListsKept DEF Typing
  <1> QED
    BY <1>2, <1>3, PTL DEF Spec

\* Every reachable state is typed: the processes, the starts and every list.
THEOREM TypeCorrect == Spec => []TypeOK
  <1>1. Typing => TypeOK
    BY DEF Typing, Basic, Lists, TypeOK
  <1> QED
    BY <1>1, TypingKept, PTL

-----------------------------------------------------------------------------
(* Orders *)

\* What is left of an order is an order.
LEMMA TailIsTopological ==
    ASSUME NEW g, NEW S, NEW list \in Seq(S), list # <<>>, IsTopological(g, list)
    PROVE  IsTopological(g, Tail(list))
  <1>1. Len(Tail(list)) = Len(list) - 1 /\ \A i \in 1..Len(Tail(list)) : Tail(list)[i] = list[i + 1]
    OBVIOUS
  <1>2. Len(list) \in Nat
    OBVIOUS
  <1> DEFINE t == Tail(list)
  <1> HIDE DEF t
  <1>3. IsTopological(g, t)
    BY <1>1, <1>2 DEF IsTopological, t
  <1> QED
    BY <1>3 DEF t

\* So is what is left of one that is worked through backwards.
LEMMA TailIsTopologicalReversed ==
    ASSUME NEW g, NEW S, NEW list \in Seq(S), list # <<>>, IsTopological(g, Reverse(list))
    PROVE  IsTopological(g, Reverse(Tail(list)))
  <1> DEFINE t == Tail(list)
             r == Reverse(list)
             u == Reverse(t)
             n == Len(list)
  <1>1. /\ t \in Seq(S) /\ Len(t) = n - 1 /\ n \in Nat
        /\ \A i \in 1..(n - 1) : t[i] = list[i + 1]
    OBVIOUS
  <1>2. Len(r) = n /\ \A i \in 1..n : r[i] = list[n - i + 1]
    BY ReverseTyped
  <1> HIDE DEF t, r, n
  <1>3. Len(u) = Len(t) /\ \A i \in 1..Len(t) : u[i] = t[Len(t) - i + 1]
    BY <1>1, ReverseTyped
  <1> HIDE DEF u
  <1>4. Len(u) = n - 1 /\ \A i \in 1..(n - 1) : u[i] = r[i]
    <2>1. ASSUME NEW i \in 1..(n - 1)
          PROVE  u[i] = r[i]
      <3> DEFINE k == n - i
      <3>1. k \in 1..(n - 1) /\ Len(t) - i + 1 = k /\ n - i + 1 = k + 1 /\ i \in 1..n
        BY <1>1
      <3> HIDE DEF k
      <3>2. u[i] = t[k] /\ r[i] = list[k + 1]
        BY <1>1, <1>2, <1>3, <3>1
      <3> QED BY <1>1, <3>1, <3>2
    <2> QED BY <1>1, <1>3, <2>1
  <1>5. IsTopological(g, r)
    BY DEF r
  <1>6. IsTopological(g, u)
    BY <1>1, <1>2, <1>4, <1>5 DEF IsTopological
  <1> QED
    BY <1>6 DEF u, t

\* The reverse of a reverse is the list.
LEMMA ReversedTwice ==
    ASSUME NEW S, NEW list \in Seq(S)
    PROVE  Reverse(Reverse(list)) = list
  BY DEF Reverse

\* Every step keeps every list in order: it makes one by a walk, or takes the first away.
THEOREM OrdersKept == Typing /\ OrderRespected /\ [Next]_vars => OrderRespected'
  <1> SUFFICES ASSUME Typing, OrderRespected, [Next]_vars, Acyclic(Configured)
               PROVE  OrderRespected'
    BY ConfiguredStays DEF OrderRespected
  <1> DEFINE g == Configured
  <1>1. Configured' = g /\ world \in Worlds /\ Acyclic(g) /\ Moves /\ JobMoves
    BY ConfiguredStays, StartMoves, JobMovesOn DEF Typing, Basic, ProcessesOK
  <1>2. ASSUME NEW e \in Entries
        PROVE  IsTopological(g, todo'[e])
    <2>1. todo[e] \in Seq(Entries) /\ IsTopological(g, todo[e])
      BY <1>1 DEF Typing, Lists, ListsOK, OrderRespected
    <2>2. CASE Kept(e)
      BY <2>1, <2>2 DEF Kept
    <2>3. CASE Begun(e)
      <3>1. IsGraph(g) /\ e \in DOMAIN g
        BY <1>1, <2>3, WorldGraph DEF Begun
      <3>2. todo'[e] = DependenciesOf(g, e)
        BY <2>3 DEF Begun
      <3> HIDE DEF g
      <3> QED
        BY <1>1, <3>1, <3>2, DependenciesRight
    <2>4. CASE Served(e)
      <3>1. todo'[e] = Tail(todo[e]) /\ todo[e] # <<>>
        BY <2>4 DEF Served
      <3> DEFINE list == todo[e]
      <3>2. list \in Seq(Entries) /\ IsTopological(g, list) /\ list # <<>> /\ todo'[e] = Tail(list)
        BY <2>1, <3>1
      <3> HIDE DEF list, g
      <3> QED
        BY <3>2, TailIsTopological
    <2> QED
      BY <1>1, <2>2, <2>3, <2>4 DEF Moves
  <1>3. /\ left \in Seq(Entries) /\ StartOrder \in Seq(Entries)
        /\ StopOrder = Reverse(StartOrder) /\ IsTopological(g, StartOrder)
        /\ job \in StartJobs => IsTopological(g, left)
        /\ job \in StopJobs => IsTopological(g, Reverse(left))
    BY <1>1, OrdersTyped DEF Typing, Lists, ListsOK, OrderRespected, StartJobs, StopJobs
  <1>4. Reverse(StopOrder) = StartOrder
    BY <1>3, ReversedTwice
  <1> HIDE DEF g
  <1>5. job' \in StartJobs => IsTopological(g, left')
    <2> SUFFICES ASSUME job' \in StartJobs
                 PROVE  IsTopological(g, left')
      OBVIOUS
    <2>1. job' \notin StopJobs
      BY DEF StartJobs, StopJobs
    <2>2. CASE left' = StartOrder
      BY <1>3, <2>2
    <2>3. CASE left' # StartOrder
      <3>1. IsTopological(g, left) /\ (left' = left \/ (left # <<>> /\ left' = Tail(left)))
        BY <1>1, <1>3, <2>1, <2>3 DEF JobMoves
      <3> QED
        BY <1>3, <3>1, TailIsTopological
    <2> QED
      BY <2>2, <2>3
  <1>6. job' \in StopJobs => IsTopological(g, Reverse(left'))
    <2> SUFFICES ASSUME job' \in StopJobs
                 PROVE  IsTopological(g, Reverse(left'))
      OBVIOUS
    <2>1. job' \notin StartJobs
      BY DEF StartJobs, StopJobs
    <2>2. CASE left' = StopOrder
      BY <1>3, <1>4, <2>2
    <2>3. CASE left' # StopOrder
      <3>1. IsTopological(g, Reverse(left)) /\ (left' = left \/ (left # <<>> /\ left' = Tail(left)))
        BY <1>1, <1>3, <2>1, <2>3 DEF JobMoves
      <3> QED
        BY <1>3, <3>1, TailIsTopologicalReversed
    <2> QED
      BY <2>2, <2>3
  <1> QED
    BY <1>1, <1>2, <1>5, <1>6 DEF OrderRespected, StartJobs, StopJobs, g

\* Every list a start or a job works through is in an order that respects `dependsOn`.
THEOREM StartsAndStopsInOrder == Spec => []OrderRespected
  <1>1. Init => OrderRespected
    <2>1. \A g : IsTopological(g, <<>>)
      BY DEF IsTopological
    <2> QED
      BY <2>1 DEF Init, OrderRespected
  <1> QED
    BY <1>1, TypingKept, OrdersKept, PTL DEF Spec

-----------------------------------------------------------------------------
(* Dependencies first *)

\* A server that is starting has not yet been found healthy.
NotYet == \A e \in Entries : status[e] = "starting" => ~healthy[e]

SeeingTo == {e \in Entries : at[e] \in Seeing}

\* A start has seen whoever is up.
Seen == \A e \in SeeingTo : Up \subseteq seenUp[e]

\* Whatever a start needs is still to be seen to, was seen up, or was waited for in vain.
Covered ==
    \A e \in SeeingTo :
        Reach(Configured, e) \ ({e} \cup world.disabled)
            \subseteq ToSet(todo[e]) \cup seenUp[e] \cup gaveUp[e]

\* No step but a health check's makes a server one that is up.
LEMMA UpShrinks ==
    ASSUME Basic, NotYet, Next, ~ \E e \in Entries : BecomesHealthy(e)
    PROVE  NotYet' /\ Up' \subseteq Up
  <1> USE DEF NotYet, Up
  <1>0. /\ status \in [Entries -> {"stopped", "starting", "running", "stopping", "crashed", "conflict"}]
        /\ healthy \in [Entries -> BOOLEAN]
    BY DEF Basic, ProcessesOK
  <1>1. ASSUME UNCHANGED <<status, healthy>>
        PROVE  NotYet' /\ Up' \subseteq Up
    BY <1>1
  <1>2. ASSUME NEW e, NEW s \in {"stopped", "starting", "running", "stopping", "crashed", "conflict"},
               status' \in {status, [status EXCEPT ![e] = s]},
               \/ UNCHANGED healthy /\ s \notin {"starting", "running"}
               \/ healthy' = [healthy EXCEPT ![e] = FALSE]
               \/ UNCHANGED healthy /\ status[e] = "starting" /\ s = "running"
        PROVE  NotYet' /\ Up' \subseteq Up
    BY <1>0, <1>2
  <1>b. ASSUME NEW p, ProcessGone(p)
        PROVE  NotYet' /\ Up' \subseteq Up
    BY <1>0, <1>b DEF ProcessGone
  <1>3. ASSUME NEW e \in Entries, UserStart(e) \/ Frees(e)
        PROVE  NotYet' /\ Up' \subseteq Up
    BY <1>1, <1>3 DEF UserStart, Frees, entryVars
  <1>4. ASSUME NEW e, BeginsStop(e)
        PROVE  NotYet' /\ Up' \subseteq Up
    BY <1>2, <1>4 DEF BeginsStop, Set
  <1>5. ASSUME NEW e \in Entries, StartStep(e)
        PROVE  NotYet' /\ Up' \subseteq Up
    <2>1. CASE SeesToDependency(e) \/ DependencySettled(e) \/ PortProbed(e) \/ Spawns(e)
      BY <1>1, <2>1 DEF SeesToDependency, DependencySettled, PortProbed, Spawns, entryVars
    <2>2. CASE DependenciesDone(e)
      BY <1>2, <2>2 DEF DependenciesDone, Set
    <2>3. CASE HoldersStopped(e)
      BY <1>1, <1>2, <2>3 DEF HoldersStopped, GoesAhead, IsBlocked, Set
    <2> QED
      BY <1>5, <2>1, <2>2, <2>3 DEF StartStep
  <1>6. ASSUME NEW e \in Entries, Binds(e)
        PROVE  NotYet' /\ Up' \subseteq Up
    BY <1>2, <1>6, <1>b DEF Binds, Set
  <1>7. ASSUME NEW e \in Entries, Detaches(e)
        PROVE  NotYet' /\ Up' \subseteq Up
    BY <1>7, <1>b DEF Detaches
  <1>8. ASSUME NEW p \in Procs, Ends(p)
        PROVE  NotYet' /\ Up' \subseteq Up
    BY <1>8, <1>b DEF Ends
  <1>9. CASE FreeEnds \/ FreeDecided
    BY <1>1, <1>2, <1>9 DEF FreeEnds, FreeDecided, Unblocked, Set
  <1>10. CASE JobAsked \/ StartAllStep \/ JobGoesOn
    BY <1>1, <1>10 DEF JobAsked, StartAllStep, JobGoesOn, entryVars
  <1>11. ASSUME NEW e \in Entries, PortDecided(e)
         PROVE  NotYet' /\ Up' \subseteq Up
    <2>1. CASE IsBlocked(e)
      BY <1>2, <2>1 DEF IsBlocked, Set
    <2>2. CASE GoesAhead(e) \/ Stops(e, Foreign(pids[e])) \/ Stops(e, Own(e))
      BY <1>1, <2>2 DEF GoesAhead, Stops
    <2>3. CASE \E p \in Own(e) : Adopts(e, p)
      BY <1>2, <2>3 DEF Adopts, Set
    <2> QED
      BY <1>11, <2>1, <2>2, <2>3 DEF PortDecided, KillDecides, FollowDecides, ReclaimDecides
  <1>12. CASE StopAllStep
    BY <1>4, <1>12 DEF StopAllStep
  <1> QED
    BY <1>3, <1>4, <1>5, <1>6, <1>7, <1>8, <1>9, <1>10, <1>11, <1>12 DEF Next, UserStop

\* A start has seen whoever is up, from its beginning on and whenever one gets up.
LEMMA UpIsSeen == Typing /\ NotYet /\ Seen /\ [Next]_vars => NotYet' /\ Seen'
  <1> SUFFICES ASSUME Typing, NotYet, Seen, [Next]_vars
               PROVE  NotYet' /\ Seen'
    OBVIOUS
  <1>1. ASSUME NEW e \in Entries, BecomesHealthy(e)
        PROVE  NotYet' /\ Seen'
    <2>1. /\ status[e] = "running" /\ healthy' = [healthy EXCEPT ![e] = TRUE]
          /\ UNCHANGED <<status, at>>
          /\ seenUp' = [f \in Entries |-> IF at[f] \in Seeing THEN seenUp[f] \cup {e} ELSE {}]
      BY <1>1 DEF BecomesHealthy, Set, Seeing
    <2>2. NotYet' /\ Up' = Up \cup {e}
      BY <2>1 DEF NotYet, Up, Typing, Basic, ProcessesOK
    <2>3. Seen'
      BY <2>1, <2>2 DEF Seen, SeeingTo
    <2> QED
      BY <2>2, <2>3
  <1>2. ASSUME Next, ~ \E e \in Entries : BecomesHealthy(e)
        PROVE  NotYet' /\ Seen'
    <2>1. NotYet' /\ Up' \subseteq Up
      BY <1>2, UpShrinks DEF Typing
    <2>2. ASSUME NEW e \in Entries, at'[e] \in Seeing
          PROVE  Up \subseteq seenUp'[e]
      <3>1. Kept(e) \/ Begun(e) \/ Served(e)
        BY StartMoves DEF Typing, Moves
      <3> QED
        BY <2>2, <3>1 DEF Kept, Begun, Served, Seen, SeeingTo, Seeing
    <2> QED
      BY <2>1, <2>2 DEF Seen, SeeingTo
  <1>3. CASE UNCHANGED vars
    BY <1>3 DEF vars, entryVars, startVars, NotYet, Seen, SeeingTo, Up
  <1> QED
    BY <1>1, <1>2, <1>3

\* Done with the first of a list, the rest are left.
LEMMA FirstOfList ==
    ASSUME NEW S, NEW list \in Seq(S), list # <<>>
    PROVE  ToSet(list) = {Head(list)} \cup ToSet(Tail(list))
  <1>1. /\ Len(Tail(list)) = Len(list) - 1 /\ Len(list) \in Nat /\ Len(list) > 0 /\ Head(list) = list[1]
        /\ \A i \in 1..Len(Tail(list)) : Tail(list)[i] = list[i + 1]
        /\ Tail(list) \in Seq(S)
    OBVIOUS
  <1> DEFINE t == Tail(list)
  <1>2. \A x : x \in ToSet(list) <=> \E i \in 1..Len(list) : list[i] = x
    BY DEF ToSet
  <1>a. t \in Seq(S)
    BY <1>1
  <1> HIDE DEF t
  <1>3. \A x : x \in ToSet(t) <=> \E i \in 1..Len(t) : t[i] = x
    BY <1>a DEF ToSet
  <1>4. ASSUME NEW x \in ToSet(list)
        PROVE  x = Head(list) \/ x \in ToSet(t)
    <2>1. PICK i \in 1..Len(list) : list[i] = x
      BY <1>2, <1>4
    <2>2. CASE i # 1
      <3>1. i - 1 \in 1..Len(t) /\ t[i - 1] = x
        BY <1>1, <2>1, <2>2 DEF t
      <3> QED
        BY <1>3, <3>1
    <2> QED
      BY <1>1, <2>1, <2>2
  <1>5. ASSUME NEW x, x = Head(list) \/ x \in ToSet(t)
        PROVE  x \in ToSet(list)
    <2>1. CASE x = Head(list)
      BY <1>1, <1>2, <2>1
    <2>2. CASE x \in ToSet(t)
      <3>1. PICK i \in 1..Len(t) : t[i] = x
        BY <1>3, <2>2
      <3>2. i + 1 \in 1..Len(list) /\ list[i + 1] = x
        BY <1>1, <3>1 DEF t
      <3> QED
        BY <1>2, <3>2
    <2> QED
      BY <1>5, <2>1, <2>2
  <1> QED
    BY <1>4, <1>5 DEF t

\* Nothing a start needs is forgotten: it leaves the list seen up or given up on.
LEMMA CoveredKept == Typing /\ Seen /\ Covered /\ [Next]_vars => Covered'
  <1> SUFFICES ASSUME Typing, Seen, Covered, [Next]_vars, NEW e \in Entries, at'[e] \in Seeing
               PROVE  Reach(Configured, e) \ ({e} \cup world.disabled)
                          \subseteq ToSet(todo'[e]) \cup seenUp'[e] \cup gaveUp'[e]
    BY ConfiguredStays, WorldStays DEF Covered, SeeingTo
  <1> DEFINE g == Configured
             R == Reach(g, e) \ ({e} \cup world.disabled)
  <1>1. Kept(e) \/ Begun(e) \/ Served(e)
    BY StartMoves DEF Typing, Moves
  <1>2. CASE Kept(e)
    BY <1>2 DEF Kept, Covered, SeeingTo
  <1>3. CASE Begun(e)
    <2>1. IsGraph(g) /\ e \in DOMAIN g
      BY <1>3, WorldGraph DEF Begun, Typing, Basic, ProcessesOK
    <2>2. todo'[e] = DependenciesOf(g, e)
      BY <1>3 DEF Begun
    <2> HIDE DEF g
    <2>3. R \subseteq ToSet(todo'[e])
      BY <2>1, <2>2, DependenciesRight
    <2> QED
      BY <2>3 DEF g
  <1>4. CASE Served(e)
    <2>1. /\ todo'[e] = Tail(todo[e]) /\ todo[e] # <<>> /\ seenUp'[e] = seenUp[e] /\ gaveUp[e] \subseteq gaveUp'[e]
          /\ Head(todo[e]) \in Up \cup gaveUp'[e] \cup world.disabled /\ e \in SeeingTo
      BY <1>4 DEF Served, SeeingTo, Seeing
    <2>2. R \subseteq ToSet(todo[e]) \cup seenUp[e] \cup gaveUp[e] /\ Up \subseteq seenUp[e]
      BY <2>1 DEF Covered, Seen
    <2>3. ToSet(todo[e]) = {Head(todo[e])} \cup ToSet(Tail(todo[e]))
      BY <2>1, FirstOfList DEF Typing, Lists, ListsOK
    <2>4. R \cap world.disabled = {}
      OBVIOUS
    <2> HIDE DEF R
    <2>5. R \subseteq ToSet(todo'[e]) \cup seenUp'[e] \cup gaveUp'[e]
      BY <2>1, <2>2, <2>3, <2>4
    <2> QED
      BY <2>5 DEF R
  <1> QED
    BY <1>1, <1>2, <1>3, <1>4

StartInv == Typing /\ NotYet /\ Seen /\ Covered

\* The invariant of the starts that see to their dependencies.
THEOREM StartInvKept == Spec => []StartInv
  <1>1. Init => StartInv
    <2>1. Init => Typing
      BY BasicFromInit, ListsFromInit DEF Typing
    <2>2. Init => NotYet /\ Seen /\ Covered
      BY DEF Init, NotYet, Seen, Covered, SeeingTo, Seeing
    <2> QED
      BY <2>1, <2>2 DEF StartInv
  <1>2. Typing /\ [Next]_vars => Typing'
    BY StartsOKKept, ProcessesOKKept, ListsKept DEF Typing, Basic
  <1>3. StartInv /\ [Next]_vars => StartInv'
    BY <1>2, UpIsSeen, CoveredKept DEF StartInv
  <1> QED
    BY <1>1, <1>3, PTL DEF Spec

\* Only a start that is done with its dependencies goes from them to the port.
LEMMA OnlyDone ==
    ASSUME Typing, [Next]_vars, NEW e \in Entries, at[e] = "deps", at'[e] = "probe"
    PROVE  todo[e] = <<>>
  <1>0. at \in [Entries -> {"idle", "deps", "called", "wait", "probe", "list", "kill", "spawn"}]
    BY DEF Typing, Basic, StartsOK
  <1>1. CASE Elsewhere /\ \E d \in Entries : StartStep(d)
    <2>1. PICK d \in Entries : StartStep(d)
      BY <1>1
    <2>2. CASE SeesToDependency(d)
      BY <1>0, <2>2 DEF SeesToDependency, Set
    <2>3. CASE DependencySettled(d)
      BY <1>0, <2>3 DEF DependencySettled, Set
    <2>4. CASE DependenciesDone(d)
      BY <1>0, <2>4 DEF DependenciesDone, Set
    <2>5. CASE PortProbed(d)
      BY <1>0, <2>5 DEF PortProbed, Set
    <2>6. CASE HoldersStopped(d)
      BY <1>0, <2>6 DEF HoldersStopped, GoesAhead, IsBlocked, StartReturns, Set
    <2>7. CASE Spawns(d)
      BY <1>0, <2>7 DEF Spawns, StartReturns
    <2> QED
      BY <2>1, <2>2, <2>3, <2>4, <2>5, <2>6, <2>7 DEF StartStep
  <1>2. CASE \E d \in Entries : UserStart(d)
    BY <1>0, <1>2 DEF UserStart, Set
  <1>3. CASE \E d \in Entries : PortDecided(d)
    <2>1. PICK d \in Entries : PortDecided(d)
      BY <1>3
    <2>2. IsBlocked(d) \/ (\E p \in Own(d) : Adopts(d, p)) \/ GoesAhead(d) \/ \E P : Stops(d, P)
      BY <2>1 DEF PortDecided, KillDecides, FollowDecides, ReclaimDecides
    <2>3. at'[e] \in {"idle", "wait", "spawn", "kill"} \/ at'[e] = at[e]
      BY <1>0, <2>2 DEF IsBlocked, Adopts, GoesAhead, Stops, StartReturns, Set
    <2> QED
      BY <2>3
  <1>4. CASE StartAllStep
    BY <1>0, <1>4 DEF StartAllStep, Set
  <1>5. CASE UNCHANGED at
    BY <1>5
  <1>6. ASSUME NEW d \in Entries, UserStop(d) \/ Frees(d) \/ Binds(d) \/ BecomesHealthy(d) \/ Detaches(d)
        PROVE  UNCHANGED at
    BY <1>6 DEF UserStop, BeginsStop, Frees, Binds, BecomesHealthy, Detaches, startVars
  <1>7. ASSUME NEW p \in Procs, Ends(p)
        PROVE  UNCHANGED at
    BY <1>7 DEF Ends, startVars
  <1>8. ASSUME FreeEnds \/ FreeDecided \/ JobAsked \/ StopAllStep \/ JobGoesOn \/ UNCHANGED vars
        PROVE  UNCHANGED at
    BY <1>8 DEF FreeEnds, FreeDecided, JobAsked, StopAllStep, BeginsStop, JobGoesOn, startVars, vars
  <1> QED
    BY <1>1, <1>2, <1>3, <1>4, <1>5, <1>6, <1>7, <1>8 DEF Next

\* A server is spawned only after all it depends on was up or given its time (startDependencies).
THEOREM DependenciesComeFirst == Spec => DependencyFirst
  <1> DEFINE A == \A e \in Entries : at[e] = "deps" /\ at'[e] = "probe"
                    => Reach(Configured, e) \ ({e} \cup world.disabled) \subseteq seenUp[e] \cup gaveUp[e]
  <1>1. StartInv /\ [Next]_vars => [A]_vars
    <2> SUFFICES ASSUME StartInv, [Next]_vars, NEW e \in Entries, at[e] = "deps", at'[e] = "probe"
                 PROVE  Reach(Configured, e) \ ({e} \cup world.disabled) \subseteq seenUp[e] \cup gaveUp[e]
      OBVIOUS
    <2>1. todo[e] = <<>>
      BY OnlyDone DEF StartInv
    <2>2. ToSet(todo[e]) = {}
      BY <2>1 DEF ToSet
    <2> QED
      BY <2>2 DEF StartInv, Covered, SeeingTo, Seeing
  <1> QED
    BY <1>1, StartInvKept, PTL DEF Spec, DependencyFirst
=============================================================================

----------------------------- MODULE Dependencies -----------------------------
(***************************************************************************)
(* The walks over `dependsOn` that decide in which order servers start and *)
(* stop (src/services/dependencies.ts).  A configuration is a function     *)
(* from server ids to the sequence of ids each one names; it may name      *)
(* itself, a cycle, or a server that does not exist.                       *)
(***************************************************************************)
EXTENDS Naturals, Sequences, FiniteSets, SequencesExt

\* The ids a configuration holds or names.
Ids(dependsOn) == DOMAIN dependsOn \cup UNION {ToSet(dependsOn[s]) : s \in DOMAIN dependsOn}

\* What a walk has seen, and the list it makes.
Walked(dependsOn) == [seen : SUBSET Ids(dependsOn), list : Seq(DOMAIN dependsOn)]
Nothing == [seen |-> {}, list |-> <<>>]

Marked(walked, server) == [walked EXCEPT !.seen = @ \cup {server}]
Placed(walked, server) == [walked EXCEPT !.list = Append(@, server)]

\* A loop over a list of servers, each visited in its turn.
Through(visit, walked, servers) ==
    LET after[i \in 0..Len(servers)] ==
            IF i = 0 THEN walked ELSE visit[servers[i]][after[i - 1]]
    IN after[Len(servers)]

\* Slip, and the shape the code once had: a server is listed before its own are walked.
Visit_PushesFirst(dependsOn, skipped) ==
    LET visit[n \in 0..(Cardinality(DOMAIN dependsOn) + 1)] ==
            [d \in Ids(dependsOn) |-> [walked \in Walked(dependsOn) |->
                IF n = 0 \/ d \in walked.seen THEN walked
                ELSE IF d \notin DOMAIN dependsOn \ skipped THEN Marked(walked, d)
                ELSE Through(visit[n - 1], Placed(Marked(walked, d), d), dependsOn[d])]]
    IN visit[Cardinality(DOMAIN dependsOn) + 1]

\* visit() and walk(): a server after everything it names, each once, and none of the skipped.
\* n is how many calls deep it still goes: each marks one server more.
Visit(dependsOn, skipped) ==
    LET visit[n \in 0..(Cardinality(DOMAIN dependsOn) + 1)] ==
            [d \in Ids(dependsOn) |-> [walked \in Walked(dependsOn) |->
                IF n = 0 \/ d \in walked.seen THEN walked
                ELSE IF d \notin DOMAIN dependsOn \ skipped THEN Marked(walked, d)
                ELSE Placed(Through(visit[n - 1], Marked(walked, d), dependsOn[d]), d)]]
    IN visit[Cardinality(DOMAIN dependsOn) + 1]

\* orderByDependencies over the servers of a sequence, in that order.
OrderByDependencies(dependsOn, servers) ==
    Through(Visit(dependsOn, {}), Nothing, servers).list

\* A cycle leads back to the server itself, which is not its own dependency.
DependenciesOf(dependsOn, server) ==
    Through(Visit(dependsOn, {server}), Nothing, dependsOn[server]).list

-----------------------------------------------------------------------------
(* What the walks promise, in terms of the relation alone *)

Names(dependsOn, s) == ToSet(dependsOn[s]) \cap DOMAIN dependsOn

Closed(dependsOn, S) == \A s \in S : Names(dependsOn, s) \subseteq S

\* Everything below s: the least closed set that holds what it names.
Reach(dependsOn, s) ==
    {d \in DOMAIN dependsOn :
        \A S \in SUBSET DOMAIN dependsOn :
            Names(dependsOn, s) \subseteq S /\ Closed(dependsOn, S) => d \in S}

Acyclic(dependsOn) == \A s \in DOMAIN dependsOn : s \notin Reach(dependsOn, s)

\* Each element once, and after every element of the list it depends on.
IsTopological(dependsOn, list) ==
    \A i, j \in 1..Len(list) :
        i < j => list[i] # list[j] /\ list[j] \notin Reach(dependsOn, list[i])
=============================================================================

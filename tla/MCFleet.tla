------------------------------- MODULE MCFleet -------------------------------
(* Fleet over every dependency graph of three servers, and over pairs that contest a port. *)
EXTENDS Fleet

CONSTANTS web, api, db, p1, p2, p3

Graph(wi, ai, di) == [e \in Entries |-> SetToSeq(CASE e = web -> wi [] e = api -> ai [] e = db -> di)]

Still == [present |-> Entries, disabled |-> {}, dependsOn |-> Graph({}, {}, {}), wants |-> {},
          policy |-> [e \in Entries |-> "block"], alike |-> [e \in Entries |-> {}],
          holder |-> NoProc, holderOf |-> "stranger", quick |-> TRUE]

\* Dependencies alone: a diamond's half, a cycle, and servers that name themselves; then one
\* that is named and not configured, and a chain with a disabled link.
GraphWorlds ==
    {[Still EXCEPT !.dependsOn = g] :
        g \in {Graph({api, db}, {db}, {}), Graph({api}, {web}, {}), Graph({web, db}, {}, {api}),
              Graph({web, api}, {}, {db})}}
    \cup {[Still EXCEPT !.present = {web, api}, !.dependsOn = Graph({api, db}, {db}, {api})],
          [Still EXCEPT !.dependsOn = Graph({api}, {db}, {}), !.disabled = {api}]}

\* The port: two servers want it, and something already has it.
Pair(pw, pa, h, q) == [Still EXCEPT !.present = {web, api}, !.wants = {web, api},
                                    !.policy[web] = pw, !.policy[api] = pa,
                                    !.holder = h, !.holderOf = web, !.quick = q]

\* Two servers with one command line, which is also what somebody started by hand.
Twins(of, q) == [Pair("follow", "follow", p1, q) EXCEPT
                    !.alike[web] = {api, "stranger"}, !.alike[api] = {web, "stranger"}, !.holderOf = of]

PortWorlds == {Pair(pw, "kill", p1, q) : pw \in {"follow", "reclaim", "warn"}, q \in BOOLEAN}
              \cup {Pair("kill", "block", h, TRUE) : h \in {p1, Docker, Hidden}}
              \cup {Twins(web, q) : q \in BOOLEAN} \cup {Twins("stranger", TRUE)}

MCWorlds == GraphWorlds \cup PortWorlds
=============================================================================

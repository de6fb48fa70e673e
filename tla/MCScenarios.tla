----------------------------- MODULE MCScenarios -----------------------------
(***************************************************************************)
(* What the stores hold and what is asked, for ContextSelection under TLC. *)
(* A record differs from an ordinary memory, or an ordinary state held, in *)
(* the fields its scenarios vary: the project it is of, its lifecycle, its *)
(* successor (by), its claim, its time (0: none), whether the query (hits, *)
(* says), an alias or the graph (linked) finds it, what it refers to and   *)
(* what it costs.                                                          *)
(***************************************************************************)
EXTENDS ContextSelection, TLC

Memory == [source |-> "memory", project |-> "here", status |-> "active", by |-> 0, claim |-> 0, time |-> 1,
           declared |-> TRUE, hits |-> 1, alias |-> FALSE, linked |-> FALSE, says |-> 3, secret |-> FALSE,
           kind |-> "decision", ref |-> 0, cost |-> 1]
State == [Memory EXCEPT !.source = "state", !.kind = "blocker"]
Question == [history |-> "ACTIVE_ONLY", global |-> TRUE, graph |-> "fresh", sweep |-> FALSE, query |-> TRUE,
             needs |-> {}, base |-> 1, budget |-> 6, optional |-> 6, framing |-> 0, omit |-> TRUE, states |-> 2, shadow |-> FALSE]

\* Chains and duplicates of three memories, one blocker of a memory.
Chained ==
  {[items |-> (1 :> [Memory EXCEPT !.by = b1, !.status = IF b1 = 0 THEN "active" ELSE "superseded", !.claim = c1, !.time = t])
           @@ (2 :> [Memory EXCEPT !.by = b2, !.status = IF b2 = 0 THEN "resolved" ELSE "superseded", !.claim = c1, !.project = p])
           @@ (3 :> [Memory EXCEPT !.by = b3, !.status = IF b3 = 0 THEN "active" ELSE "superseded", !.claim = c3, !.declared = d])
           @@ (4 :> [State EXCEPT !.ref = r]),
    ask |-> [Question EXCEPT !.history = "ACTIVE_PLUS_RELEVANT_HISTORY", !.shadow = s, !.budget = 9]] :
     b1 \in {0, 2, 3, 9}, b2 \in {0, 1, 3}, b3 \in {0, 1, 2}, c1 \in {0, 1}, c3 \in {0, 1}, t \in {0, 2},
     p \in {"here", "global"}, d \in BOOLEAN, r \in {0, 1, 2, 3}, s \in BOOLEAN}

\* What is found: tiers, the graph and the budget of the router.
Found ==
  {[items |-> (1 :> [Memory EXCEPT !.hits = h, !.kind = "requirement"])
           @@ (2 :> [Memory EXCEPT !.project = p, !.hits = g, !.alias = a, !.secret = x])
           @@ (3 :> [Memory EXCEPT !.project = q, !.hits = 0, !.linked = TRUE, !.alias = b, !.says = 1]),
    ask |-> [Question EXCEPT !.global = w, !.graph = r, !.sweep = z, !.needs = {"constraint"}]] :
     h \in 0..2, g \in 0..1, p \in {"here", "other", "global"}, q \in {"here", "other"}, a \in BOOLEAN,
     b \in BOOLEAN, x \in BOOLEAN, w \in BOOLEAN, r \in {"fresh", "stale"}, z \in BOOLEAN}

\* What is chosen: needs, relevance, secrets and budgets.
Chosen ==
  {[items |-> (1 :> [Memory EXCEPT !.kind = k, !.says = u, !.cost = 2])
           @@ (2 :> [Memory EXCEPT !.claim = 1, !.secret = x])
           @@ (3 :> [State EXCEPT !.kind = "milestone", !.says = v])
           @@ (4 :> [State EXCEPT !.kind = l, !.secret = y, !.says = 0]),
    ask |-> [Question EXCEPT !.query = w, !.needs = n, !.budget = m[1], !.framing = m[2], !.optional = o, !.omit = z, !.states = q]] :
     k \in {"decision", "requirement"}, u \in {1, 3}, x \in BOOLEAN, v \in {0, 3}, l \in {"milestone", "blocker"}, y \in BOOLEAN,
     w \in BOOLEAN, n \in {{}, {"state"}, {"constraint", "decision"}}, m \in {<<0, 0>>, <<3, 0>>, <<5, 0>>, <<5, 2>>}, q \in 1..2, o \in {2, 6}, z \in BOOLEAN}

MCScenarios == <<Chained, Found, Chosen>>

\* Chains only, of memories of one project that say different things.
MCChains ==
  <<{s \in Chained : ~s.ask.shadow /\ \A i \in 1..3 : s.items[i].claim = 0 /\ s.items[i].project = "here"}>>
=============================================================================

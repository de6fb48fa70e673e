------------------------------- MODULE MCViews -------------------------------
(***************************************************************************)
(* The project state, the views of the memory, and the router that reads   *)
(* them all in one run: they share no variable, the initial state chooses  *)
(* what moves.  Of the views, the graph, the index, the search with writes *)
(* (its provider answers), the search with time that passes and the search *)
(* that cuts its answers move alone; of the router, requests of one plan,  *)
(* with more changes, and of two.                                          *)
(***************************************************************************)
EXTENDS MCProjectState, SearchViews, ContextRoute

VARIABLE focus

MCOwner == <<"global", "here", "global">>
MCTopics == [t \in Texts \union {0} |-> IF t = 2 THEN {"topic"} ELSE {}]
MCLife == <<2, 2, 2>>
\* The processes of every part have the same names.
MCSymmetry == Permutations(Servers)
OnePlan == CHOOSE plan \in Plans : TRUE

\* With more changes two requests are never in the same component at once.
OnePlanApart ==
  /\ \A c \in Callers : caller'[c].plan \in {OnePlan, "none"}
  /\ \A c, d \in Callers : caller'[c].plan # "none" /\ caller'[c].phase = caller'[d].phase
                           /\ caller'[d].plan # "none" => c = d

FocusInit ==
  /\ Init /\ ViewsInit /\ RouteInit
  /\ focus \in {"state", "ranked", "writes", "time", "graph", "index", "one plan", "two plans"}
  /\ focus \in {"state", "graph"} => index = NoVectors
  /\ focus = "ranked" => index # NoVectors /\ memories[2].status = "none"
  /\ focus \notin {"graph", "index", "ranked"} => memories[1].status = "active"
  /\ focus # "ranked" => memories[3].status = "none"

\* Only where answers are cut there are two memories of one scope.
Third == past'[Len(past')][3].status # "none"

\* Questions of one scope, of its memories, by servers that can build the graph.
OneScope ==
  /\ \A s \in Servers : request'[s].scope = "default" /\ answer'[s].kind \notin {"failed", "degraded"}
  /\ \A m \in Facts : past'[Len(past')][m].status # "none" => Owner[m] = "global"

FocusNext ==
  /\ \/ focus = "state" /\ Next
     \/ focus # "state" /\ UNCHANGED vars
  /\ \/ /\ focus \in {"one plan", "two plans"} /\ RouteNext
        /\ IF focus = "one plan" THEN OnePlanApart
           ELSE changes' < MaxChanges
     \/ focus \notin {"one plan", "two plans"} /\ UNCHANGED routeVars
  /\ \/ focus \in {"state", "one plan", "two plans"} /\ UNCHANGED viewVars
     \/ focus = "index" /\ (Indexing \/ WrittenElsewhere)
     \* One server alone.
     \/ /\ focus = "ranked"
        /\ WrittenElsewhere \/ \E s \in Servers : Searching(s) \/ Building(s)
        /\ OneScope /\ \E s \in Servers : request'[s] = Unasked /\ ~Running(s)'
     \/ focus = "writes" /\ (\E s \in Servers : Searching(s) \/ Building(s) \/ Writing(s)) /\ OneScope
        /\ UNCHANGED provider
     \/ focus = "time" /\ (Tick \/ \E s \in Servers : Searching(s) \/ Building(s)) /\ OneScope
     \/ /\ focus = "graph"
        /\ \/ ProjectChanges \/ WrittenElsewhere
           \/ \E s \in Servers : Graphing(s) \/ Building(s) \/ Writing(s) \/ Stops(s)
  /\ focus # "ranked" => ~Third
  /\ UNCHANGED focus

FocusSpec == FocusInit /\ [][FocusNext]_<<vars, viewVars, routeVars, focus>>
=============================================================================

----------------------------- MODULE ContextRoute -----------------------------
(***************************************************************************)
(* The task-aware route to a context (context_router, authority,           *)
(* context_compiler_v2, composed by compile_task of                        *)
(* brain_eleven/runtime/context.py): a task is composed, routed, resolved  *)
(* and compiled by four components that each read the memory, the state    *)
(* and the registry for themselves, without a lock, and keep what they     *)
(* made in two caches that every caller shares.  What is read is           *)
(* abstracted to its revision.                                             *)
(***************************************************************************)
EXTENDS Integers, Sequences

CONSTANTS Callers,      \* requests
          Plans,        \* what may be asked, by the fingerprint of its plan
          RouterCacheSize,    \* entries a cache keeps (32)
          Retries,      \* retry_on_revision_change of the router
          MaxChanges    \* bound on changes of the three sources

ASSUME RouteAssumption == RouterCacheSize \in Nat \ {0} /\ Retries \in Nat /\ MaxChanges \in Nat

VARIABLES source,             \* the revisions of the three stores, and of the graph
          routes, verdicts,   \* the two caches
          caller,             \* a request; its history "stood" holds what stood together
                              \* since it began
          changes

routeVars == <<source, routes, verdicts, caller, changes>>

Revisions == [memory |-> source.memory, state |-> source.state, registry |-> source.registry]
NoRevisions == [memory |-> 0, state |-> 0, registry |-> 0]
NoRoute == [plan |-> "none", from |-> NoRevisions, graph |-> FALSE]
Waiting == [at |-> "idle", phase |-> "compose", plan |-> "none", task |-> NoRevisions,
            got |-> NoRevisions, retried |-> 0, result |-> NoRoute, route |-> NoRoute,
            stood |-> {}]

\* The stores are written by others; the registry may archive the project;
\* the projection of the graph is rebuilt from the memory.
SourceChanges ==
  /\ changes < MaxChanges /\ changes' = changes + 1
  /\ \/ source' = [source EXCEPT !.memory = @ + 1]
     \/ source' = [source EXCEPT !.state = @ + 1]
     \/ \E archived \in BOOLEAN : source' = [source EXCEPT !.registry = @ + 1, !.archived = archived]
     \/ source.graph # source.memory /\ source' = [source EXCEPT !.graph = source.memory]
  /\ caller' = [c \in Callers |-> IF caller[c].at \in {"idle", "ended"} THEN caller[c]
                                  ELSE [caller[c] EXCEPT !.stood = @ \union {Revisions'}]]
  /\ UNCHANGED <<routes, verdicts>>

-----------------------------------------------------------------------------
(* The caches: RouterCache and AuthorityCache.                             *)

\* Bug: the fingerprint leaves out what tells two plans apart.
RouteKeyOfAny(plan) == "plan"

\* _fingerprint and _cache_key.
RouteKey(plan) == plan

\* A file of the cache: an entry for each key, and the keys by their last access.
Keys == {RouteKey(plan) : plan \in Plans}
NoCache == [entries |-> [key \in Keys |-> NoRoute], used |-> <<>>]

Newest(cache, key) == Append(SelectSeq(cache.used, LAMBDA other : other # key), key)
NewestOf(used) == IF Len(used) > RouterCacheSize THEN Tail(used) ELSE used
Store(cache, result) ==
  LET stored == RouteKey(result.plan)
      used == NewestOf(Newest(cache, stored))
      kept == {used[i] : i \in DOMAIN used} IN
  [entries |-> [key \in Keys |-> IF key = stored THEN result
                                 ELSE IF key \in kept THEN cache.entries[key] ELSE NoRoute],
   used |-> used]

\* Bug: an entry of other revisions is a hit.
HitsOfAnyRevision(cache, plan, from) == {cache.entries[RouteKey(plan)]} \ {NoRoute}

\* An entry of another revision is not a hit, and not removed either.
Hits(cache, plan, from) == {r \in {cache.entries[RouteKey(plan)]} \ {NoRoute} : r.from = from}

\* A hit makes its key the newest, if it is still there.
Touch(cache, plan, from) ==
  IF Hits(cache, plan, from) = {} THEN cache
  ELSE [cache EXCEPT !.used = Newest(cache, RouteKey(plan))]

RouteInit ==
  /\ source = [memory |-> 1, state |-> 1, registry |-> 1, archived |-> FALSE, graph |-> 1]
  /\ routes = NoCache /\ verdicts = NoCache
  /\ caller = [c \in Callers |-> Waiting] /\ changes = 0

CacheOf(c) == IF caller[c].phase = "route" THEN routes ELSE verdicts

-----------------------------------------------------------------------------
(* One caller.                                                             *)

Does(c, new) == caller' = [caller EXCEPT ![c] = new]
Goes(c, at) == Does(c, [caller[c] EXCEPT !.at = at])
\* STALE_INPUT, SCOPE_ERROR, FAILED or an exception: nothing is returned.
EndsRequest(c) == Does(c, [Waiting EXCEPT !.at = "ended"])
Shared == <<source, routes, verdicts, changes>>

\* compose: the registry, the state and the registry again.
BeginsRequest(c, plan) ==
  /\ caller[c].at = "idle"
  /\ Does(c, [caller[c] EXCEPT !.at = "analyzing", !.plan = plan, !.task.registry = source.registry,
                           !.stood = {Revisions}])
  /\ UNCHANGED Shared
ReadsTaskState(c) ==
  /\ caller[c].at = "analyzing"
  /\ Does(c, [caller[c] EXCEPT !.at = "composing", !.task.state = source.state])
  /\ UNCHANGED Shared
Composes(c) ==
  /\ caller[c].at = "composing"
  /\ IF caller[c].task.registry # source.registry THEN EndsRequest(c)
     ELSE Does(c, [caller[c] EXCEPT !.at = "admit", !.phase = "route"])
  /\ UNCHANGED Shared

\* The state and the memory are read: the router reads the state first and
\* takes the memory it finds; the resolver and the compiler read the memory
\* first, and both must be those their upstream has read.
AdmitsState(c) ==
  LET expected == IF caller[c].phase = "route" THEN caller[c].task.state ELSE caller[c].got.state IN
  /\ caller[c].at = "admit"
  /\ IF source.archived \/ source.state # expected THEN EndsRequest(c)
     ELSE Does(c, [caller[c] EXCEPT !.got.state = source.state, !.got.registry = caller[c].task.registry,
                     !.at = CASE caller[c].phase = "route" -> "read"
                              [] caller[c].phase = "resolve" -> "lookup lineage"
                              [] OTHER -> "decide"])
  /\ UNCHANGED Shared
ReadsSnapshot(c) ==
  /\ caller[c].at = "read"
  /\ IF caller[c].phase = "route" THEN Does(c, [caller[c] EXCEPT !.at = "lineage", !.got.memory = source.memory])
     ELSE IF source.memory # caller[c].got.memory THEN EndsRequest(c)
     ELSE Goes(c, "admit")
  /\ UNCHANGED Shared

\* validate_task_state_lineage, before and after every use of a cache: any
\* other revision of the registry ends the request.
Lineage(c) ==
  LET at == caller[c].at
      next == CASE at = "lineage" -> IF caller[c].phase = "route" THEN "lookup lineage" ELSE "read"
                [] at = "lookup lineage" -> "lookup"
                [] at = "hit lineage" -> "touch"
                [] at = "final lineage" -> "store lineage"
                [] at = "store lineage" -> "store" IN
  /\ at \in {"lineage", "lookup lineage", "hit lineage", "final lineage", "store lineage"}
  /\ IF source.registry # caller[c].task.registry THEN EndsRequest(c) ELSE Goes(c, next)
  /\ UNCHANGED Shared

LooksUpRoute(c) ==
  /\ caller[c].at = "lookup"
  /\ LET hits == Hits(CacheOf(c), caller[c].plan, caller[c].got) IN
     IF hits = {} THEN Goes(c, "work")
     ELSE \E result \in hits : Does(c, [caller[c] EXCEPT !.at = "hit lineage", !.result = result])
  /\ UNCHANGED Shared

\* The router asks a graph that is of the memory's revision, and goes without
\* one that is not; the resolver judges the candidates it was given.
Works(c) ==
  /\ caller[c].at = "work"
  /\ Does(c, [caller[c] EXCEPT !.at = "recheck memory",
                !.result = [plan |-> caller[c].plan, from |-> caller[c].got,
                            graph |-> IF caller[c].phase = "route" THEN source.graph = caller[c].got.memory
                                      ELSE caller[c].route.graph]])
  /\ UNCHANGED Shared

\* Bug: a source that has changed is noticed for the memory only.
ChecksInputsOfMemory(c) ==
  /\ caller[c].at \in {"recheck memory", "recheck state", "recheck registry"}
  /\ IF caller[c].at = "recheck memory" /\ source.memory # caller[c].got.memory
     THEN IF caller[c].phase = "route" /\ caller[c].retried < Retries
          THEN Does(c, [caller[c] EXCEPT !.at = "admit", !.retried = @ + 1, !.result = NoRoute])
          ELSE EndsRequest(c)
     ELSE Goes(c, CASE caller[c].at = "recheck memory" -> "recheck state"
                    [] caller[c].at = "recheck state" -> IF caller[c].phase = "compile" THEN "recheck registry"
                                                         ELSE "final lineage"
                    [] OTHER -> "answer")
  /\ UNCHANGED Shared

\* inputs_current, the memory before the state, in the compiler the registry
\* after them.  The router starts once more from the state.
ChecksInputs(c) ==
  LET stale == CASE caller[c].at = "recheck memory" -> source.memory # caller[c].got.memory
                 [] caller[c].at = "recheck state" -> source.archived \/ source.state # caller[c].got.state
                 [] OTHER -> source.registry # caller[c].got.registry IN
  /\ caller[c].at \in {"recheck memory", "recheck state", "recheck registry"}
  /\ IF stale
     THEN IF caller[c].phase = "route" /\ caller[c].retried < Retries
          THEN Does(c, [caller[c] EXCEPT !.at = "admit", !.retried = @ + 1, !.result = NoRoute])
          ELSE EndsRequest(c)
     ELSE Goes(c, CASE caller[c].at = "recheck memory" -> "recheck state"
                    [] caller[c].at = "recheck state" -> IF caller[c].phase = "compile" THEN "recheck registry"
                                                         ELSE "final lineage"
                    [] OTHER -> "answer")
  /\ UNCHANGED Shared

\* A result is stored, or its entry touched; a cache whose lock is not
\* had in time, or that cannot be written, is left as it is.
UsesCache(c) ==
  LET cache == CacheOf(c)
      new == IF caller[c].at = "store" THEN Store(cache, caller[c].result)
             ELSE Touch(cache, caller[c].plan, caller[c].got) IN
  /\ caller[c].at \in {"store", "touch"}
  /\ \/ IF caller[c].phase = "route" THEN routes' = new /\ UNCHANGED verdicts
        ELSE verdicts' = new /\ UNCHANGED routes
     \/ UNCHANGED <<routes, verdicts>>
  /\ Does(c, IF caller[c].phase = "route"
             THEN [caller[c] EXCEPT !.at = "lineage", !.phase = "resolve", !.route = caller[c].result,
                                    !.got = caller[c].result.from]
             ELSE [caller[c] EXCEPT !.at = "read", !.phase = "compile", !.got = caller[c].result.from])
  /\ UNCHANGED <<source, changes>>

\* RetrievalDecisionEngine.select: every candidate of the route must have been
\* judged, and route and verdict be of the same memory and state.
ChecksCoverage(c) ==
  LET r == caller[c].route  v == caller[c].result IN
  /\ caller[c].at = "decide"
  /\ IF (r.graph /\ ~v.graph) \/ r.from.memory # v.from.memory \/ r.from.state # v.from.state
     THEN EndsRequest(c) ELSE Goes(c, "recheck memory")
  /\ UNCHANGED Shared

AnswersRequest(c) ==
  /\ caller[c].at = "answer"
  /\ EndsRequest(c)
  /\ UNCHANGED Shared

RouteNext ==
  \/ SourceChanges
  \/ \E c \in Callers :
       \/ \E plan \in Plans : BeginsRequest(c, plan)
       \/ ReadsTaskState(c) \/ Composes(c) \/ AdmitsState(c) \/ ReadsSnapshot(c) \/ Lineage(c)
       \/ LooksUpRoute(c) \/ Works(c) \/ ChecksInputs(c) \/ UsesCache(c) \/ ChecksCoverage(c) \/ AnswersRequest(c)

RouteSpec == RouteInit /\ [][RouteNext]_routeVars

-----------------------------------------------------------------------------
(* Properties                                                              *)

\* The results of the router and of the resolver, once they are returned.
Returned(c) ==
  ({caller[c].route} \union (IF caller[c].phase = "compile" THEN {caller[c].result} ELSE {})) \ {NoRoute}

\* Every route and every verdict a caller was given, made for it or found in a
\* cache, is of a memory, a state and a registry that stood together at one
\* moment of its own request, though they were read one after the other and
\* an entry may be older than the request.
RoutedInTime == \A c \in Callers : \A r \in Returned(c) : r.from \in caller[c].stood

\* It is the answer to what was asked: the scope and the history of its plan
\* are those of the request, though all requests share the caches.
ServedAsAsked == \A c \in Callers : \A r \in Returned(c) : r.plan = caller[c].plan

\* The two together.
RouteIsSound == RoutedInTime /\ ServedAsAsked
=============================================================================

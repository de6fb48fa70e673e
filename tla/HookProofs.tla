------------------------------ MODULE HookProofs ------------------------------
(***************************************************************************)
(* What a hook of a session relies on, for every number of hooks and       *)
(* processes and every bound: the service it finds (LocalService), the     *)
(* route to a context that is composed for it (ContextRoute), what of the  *)
(* stores it says (ContextSelection), and the delivery of the context      *)
(* (ContextDelivery).                                                      *)
(***************************************************************************)
EXTENDS LocalService, ContextRoute, ContextSelection, ContextDelivery, TLAPS

-----------------------------------------------------------------------------
(* LocalService.                                                           *)

ServerStates == {"none", "starting", "lingering"} \union Holding

ServiceTypes ==
  /\ server \in [Pids -> ServerStates]
  /\ named \in Pids \union {NoPid}
  /\ stops \in Nat /\ on \in BOOLEAN

\* The lock runtime/server: one process holds it.
OneHolds == \A p, q \in Pids : server[p] \in Holding /\ server[q] \in Holding => p = q

\* Between publishing and removing its name a process is the one that is named;
\* afterwards, while it still holds the lock, nobody is.
NameFollows(p) ==
  /\ server[p] \in {"published", "serving", "closing", "closed"} => named = p
  /\ server[p] \in {"reading", "clearing", "leaving"} => named = NoPid
  /\ named = p => server[p] \in Holding \union {"none"}

ServiceInv == ServiceTypes /\ OneHolds /\ \A p \in Pids : NameFollows(p)

LEMMA NoPidIsNone == NoPid \notin Pids /\ MaxStops \in Nat
  BY ServiceAssumption

\* A process that moves within what it holds, or between two states without
\* the lock, and leaves the name alone.
LEMMA ServerMoves ==
  ASSUME ServiceInv, NEW p \in Pids, NEW to \in ServerStates,
         server' = [server EXCEPT ![p] = to], named' = named,
         stops' \in Nat, on' \in BOOLEAN,
         to \in Holding => server[p] \in Holding \/ ServerLockFree,
         to \in {"published", "serving", "closing", "closed"} => named = p,
         to \in {"reading", "clearing", "leaving"} => named = NoPid,
         named = p => to \in Holding \union {"none"}
  PROVE  ServiceInv'
  <1>1. /\ server'[p] = to
        /\ \A q \in Pids : q # p => server'[q] = server[q]
    BY DEF ServiceInv, ServiceTypes
  <1>2. ServiceTypes'
    BY DEF ServiceInv, ServiceTypes
  <1>3. OneHolds'
    BY <1>1 DEF ServiceInv, OneHolds, ServerLockFree
  <1>4. ASSUME NEW q \in Pids  PROVE NameFollows(q)'
    BY <1>1 DEF ServiceInv, NameFollows
  <1> QED
    BY <1>2, <1>3, <1>4 DEF ServiceInv

LEMMA ServerStays ==
  ASSUME ServiceInv, server' = server, named' = named, stops' \in Nat, on' \in BOOLEAN
  PROVE  ServiceInv'
  BY DEF ServiceInv, ServiceTypes, OneHolds, NameFollows

LEMMA ServiceStep == ServiceInv /\ [ServiceNext]_serviceVars => ServiceInv'
  <1> SUFFICES ASSUME ServiceInv, [ServiceNext]_serviceVars  PROVE ServiceInv'
    OBVIOUS
  <1> USE NoPidIsNone
  <1>0. /\ stops \in Nat /\ on \in BOOLEAN /\ \A p \in Pids : server[p] \in ServerStates
        /\ \A p \in Pids : NameFollows(p)
    BY DEF ServiceInv, ServiceTypes
  <1>1. ASSUME NEW h \in Asking, HookAsks(h) \/ HookLocks(h) \/ HookMarks(h) \/ HookLeaves(h)
        PROVE  ServiceInv'
    BY <1>0, <1>1, ServerStays DEF HookAsks, HookLocks, HookMarks, HookLeaves
  <1>2. ASSUME NEW h \in Asking, HookSpawns(h)  PROVE ServiceInv'
    <2>1. CASE marker.recent /\ Alive(marker.pid)
      BY <1>0, <1>2, <2>1, ServerStays DEF HookSpawns
    <2>2. CASE ~(marker.recent /\ Alive(marker.pid))
      <3>1. PICK p : p = CHOOSE q \in Pids : Free(q)
        OBVIOUS
      <3>2. p \in Pids /\ Free(p)
        BY <1>2, <2>2, <3>1 DEF HookSpawns
      <3>3. server' = [server EXCEPT ![p] = "starting"] /\ UNCHANGED <<named, on, stops>>
        BY <1>2, <2>2, <3>1 DEF HookSpawns
      <3>4. named # p
        BY <3>2 DEF Free
      <3> QED
        BY <1>0, <3>2, <3>3, <3>4, ServerMoves DEF ServerStates, Holding
    <2> QED
      BY <2>1, <2>2
  <1>3. ASSUME NEW h \in Asking, AskerDies(h) \/ CallTimesOut(h)  PROVE ServiceInv'
    BY <1>0, <1>3, ServerStays DEF AskerDies, CallTimesOut, Stopping
  <1>4. CASE OwnerTurns \/ TenSeconds
    <2>1. on' \in BOOLEAN
      BY <1>0, <1>4, Zenon DEF OwnerTurns, TenSeconds
    <2>2. server' = server /\ named' = named /\ stops' \in Nat
      BY <1>0, <1>4 DEF OwnerTurns, TenSeconds, Stopping
    <2> QED
      BY <2>1, <2>2, ServerStays
  <1>5. ASSUME NEW p \in Pids, TakesLock(p) \/ LosesLock(p)  PROVE ServiceInv'
    <2>1. server[p] = "starting" /\ named # p
      BY <1>0, <1>5 DEF TakesLock, LosesLock, ServerGoes, NameFollows, Holding
    <2>2. CASE TakesLock(p)
      BY <1>0, <2>1, <2>2, ServerMoves DEF TakesLock, ServerGoes, ServerStates, Holding
    <2>3. CASE LosesLock(p)
      BY <1>0, <2>1, <2>3, ServerMoves DEF LosesLock, ServerGoes, ServerStates, Holding
    <2> QED
      BY <1>5, <2>2, <2>3
  <1>6. ASSUME NEW p \in Pids, Publishes(p)  PROVE ServiceInv'
    <2>1. /\ server[p] = "locked" /\ server' = [server EXCEPT ![p] = "published"]
          /\ named' = p /\ UNCHANGED <<on, stops>>
      BY <1>6 DEF Publishes, ServerGoes
    <2>2. /\ server'[p] = "published"
          /\ \A q \in Pids : q # p => server'[q] = server[q] /\ server[q] \notin Holding
      BY <2>1 DEF ServiceInv, ServiceTypes, OneHolds, Holding
    <2>3. ServiceTypes'
      BY <2>1 DEF ServiceInv, ServiceTypes, ServerStates, Holding
    <2>4. OneHolds'
      BY <2>2 DEF OneHolds
    <2>5. ASSUME NEW q \in Pids  PROVE NameFollows(q)'
      BY <2>1, <2>2 DEF NameFollows, Holding
    <2> QED
      BY <2>3, <2>4, <2>5 DEF ServiceInv
  <1>7. ASSUME NEW p \in Pids, Listens(p) \/ ServerCloses(p) \/ GoesIdle(p)  PROVE ServiceInv'
    <2>1. named = p /\ server[p] \in Holding /\ on' \in BOOLEAN /\ stops' \in Nat /\ named' = named
      BY <1>0, <1>7 DEF Listens, ServerCloses, GoesIdle, Stopping, ServerGoes, NameFollows, Holding
    <2>2. PICK to \in {"serving", "closing", "closed"} : server' = [server EXCEPT ![p] = to]
      BY <1>7 DEF Listens, ServerCloses, GoesIdle, ServerGoes
    <2>3. to \in ServerStates /\ to \in Holding
      BY DEF ServerStates, Holding
    <2> QED
      BY <2>1, <2>2, <2>3, ServerMoves
  <1>8. ASSUME NEW p \in Pids, RemovesName(p)  PROVE ServiceInv'
    <2>1. /\ server[p] = "closed" /\ server' = [server EXCEPT ![p] = "reading"]
          /\ named' = NoPid /\ UNCHANGED <<on, stops>>
      BY <1>8 DEF RemovesName, ServerGoes
    <2>2. /\ server'[p] = "reading"
          /\ \A q \in Pids : q # p => server'[q] = server[q] /\ server[q] \notin Holding
      BY <2>1 DEF ServiceInv, ServiceTypes, OneHolds, Holding
    <2>3. ServiceTypes'
      BY <2>1 DEF ServiceInv, ServiceTypes, ServerStates, Holding
    <2>4. OneHolds'
      BY <2>2 DEF OneHolds
    <2>5. ASSUME NEW q \in Pids  PROVE NameFollows(q)'
      BY <2>1, <2>2 DEF NameFollows, Holding
    <2> QED
      BY <2>3, <2>4, <2>5 DEF ServiceInv
  <1>9. ASSUME NEW p \in Pids, ReadsMarker(p) \/ RemovesMarker(p) \/ ReleasesLock(p)
        PROVE  ServiceInv'
    <2>1. /\ server[p] \in Holding /\ named = NoPid
          /\ on' \in BOOLEAN /\ stops' \in Nat /\ named' = named
      BY <1>0, <1>9 DEF ReadsMarker, RemovesMarker, ReleasesLock, ServerGoes, NameFollows, Holding
    <2>2. PICK to \in {"clearing", "leaving", "lingering"} : server' = [server EXCEPT ![p] = to]
      BY <1>9 DEF ReadsMarker, RemovesMarker, ReleasesLock, ServerGoes
    <2>3. to \in ServerStates
      BY DEF ServerStates, Holding
    <2> QED
      BY <2>1, <2>2, <2>3, ServerMoves
  <1>10. ASSUME NEW p \in Pids, Exits(p) \/ ServerDies(p)  PROVE ServiceInv'
    <2>1. /\ server' = [server EXCEPT ![p] = "none"]
          /\ on' \in BOOLEAN /\ stops' \in Nat /\ named' = named
      BY <1>0, <1>10 DEF Exits, ServerDies, Stopping, ServerGoes
    <2> QED
      BY <2>1, ServerMoves DEF ServerStates, Holding
  <1>11. CASE UNCHANGED serviceVars
    BY <1>0, <1>11, ServerStays DEF serviceVars
  <1> QED
    BY <1>1, <1>2, <1>3, <1>4, <1>5, <1>6, <1>7, <1>8, <1>9, <1>10, <1>11
       DEF ServiceNext, HookStep, ServerStep

\* One process holds the lock of the server, and service.json follows what it
\* does: the invariant of serve behind ServiceFound.
THEOREM ServiceInvariant == ServiceSpec => []ServiceInv
  <1>1. ServiceInit => ServiceInv
    BY NoPidIsNone DEF ServiceInit, ServiceInv, ServiceTypes, ServerStates, OneHolds, NameFollows, Holding
  <1> QED
    BY <1>1, ServiceStep, PTL DEF ServiceSpec

\* Whoever serves is named by service.json, and a name of a living process is
\* the name of the one that holds the lock (serve of service.py), whichever
\* processes start, lose, leave, die and have their numbers given again.
THEOREM ServiceFound == ServiceSpec => []ServiceIsReachable
  <1>1. ServiceInv => ServiceIsReachable
    BY DEF ServiceInv, ServiceTypes, NameFollows, ServiceIsReachable
  <1> QED
    BY <1>1, ServiceInvariant, PTL

-----------------------------------------------------------------------------
(* ContextRoute.                                                           *)

RevisionSet == [memory : Nat, state : Nat, registry : Nat]
RouteSet == [plan : Plans \union {"none"}, from : RevisionSet, graph : BOOLEAN]
Places ==
  {"idle", "ended", "analyzing", "composing", "admit", "read", "lineage", "lookup lineage",
   "lookup", "hit lineage", "touch", "work", "recheck memory", "recheck state",
   "recheck registry", "final lineage", "store lineage", "store", "decide", "answer"}
RequestSet ==
  [at : Places, phase : {"compose", "route", "resolve", "compile"}, plan : Plans \union {"none"},
   task : RevisionSet, got : RevisionSet, retried : Nat, result : RouteSet, route : RouteSet,
   stood : SUBSET RevisionSet]

\* A cache is a file of entries and of the order of their use.
IsCache(cache) == cache = [entries |-> cache.entries, used |-> cache.used]

RouteTypes ==
  /\ source.memory \in Nat /\ source.state \in Nat /\ source.registry \in Nat
  /\ source = [memory |-> source.memory, state |-> source.state, registry |-> source.registry,
               archived |-> source.archived, graph |-> source.graph]
  /\ routes.entries \in [Keys -> RouteSet] /\ verdicts.entries \in [Keys -> RouteSet]
  /\ IsCache(routes) /\ IsCache(verdicts)
  /\ caller \in [Callers -> RequestSet]

\* Revisions only grow, so what stood together at one time is below what does later.
Below(r, s) == r.memory <= s.memory /\ r.state <= s.state /\ r.registry <= s.registry

\* What once stood together, in the eyes of a request: within its time, or before.
Dated(r, stood) == r \in stood \/ \A x \in stood : Below(r, x)

InHistory(r) == Below(r, Revisions) /\ \A c \in Callers : Dated(r, caller[c].stood)

\* An entry is of its key, and of revisions that stood together once.
EntriesSound(entries) ==
  \A key \in Keys : entries[key] # NoRoute =>
     RouteKey(entries[key].plan) = key /\ InHistory(entries[key].from)

\* A request that has made or found a result, in the words of its record w.
HasResult(w) ==
  \/ w.phase = "compile"
  \/ w.at \in {"hit lineage", "touch", "recheck memory", "recheck state", "final lineage",
               "store lineage", "store"}

\* How much of what a router has read is known to have stood together: first
\* the state, then the memory that was read after it, and after each of its
\* checks one revision more.
Known(w) ==
  /\ w.at # "admit" => w.got.registry = w.task.registry
  /\ w.at = "read" => \E x \in w.stood : x.state = w.got.state
  /\ w.at \in {"lineage", "lookup lineage", "lookup", "work", "recheck memory"} =>
       \E x \in w.stood : /\ x.state = w.got.state /\ x.memory <= w.got.memory
                          /\ w.at # "lineage" => x.registry = w.got.registry
  /\ w.at = "recheck state" =>
       \E x \in w.stood : x.memory = w.got.memory /\ w.got.state <= x.state
  /\ w.at = "final lineage" =>
       \E x \in w.stood : x.memory = w.got.memory /\ x.state = w.got.state
  /\ w.at \in {"hit lineage", "touch", "store lineage", "store"} => w.got \in w.stood

Active(w) == w.at \notin {"idle", "ended"}

Fits(w, now) ==
  /\ Active(w) => /\ now \in w.stood /\ w.plan \in Plans
                  /\ \A x \in w.stood : w.task.registry <= x.registry
  /\ ~Active(w) => w.stood = {}
  /\ w.phase = "compose" <=> w.at \in {"idle", "ended", "analyzing", "composing"}
  /\ w.phase = "compose" => w.route = NoRoute
  /\ w.at = "decide" => w.phase = "compile"
  /\ w.phase = "route" => w.route = NoRoute /\ Known(w)
  /\ w.phase \in {"resolve", "compile"} =>
       /\ w.got \in w.stood /\ w.got.registry = w.task.registry
       /\ w.route.from = w.got /\ w.route.plan = w.plan
  /\ HasResult(w) => w.result.from = w.got /\ w.result.plan = w.plan

RouteInv ==
  /\ RouteTypes
  /\ EntriesSound(routes.entries) /\ EntriesSound(verdicts.entries)
  /\ \A c \in Callers : Fits(caller[c], Revisions) /\ \A r \in caller[c].stood : InHistory(r)

LEMMA NoRouteType == NoRoute \in RouteSet /\ NoRevisions \in RevisionSet
  BY DEF NoRoute, NoRevisions, RouteSet, RevisionSet

LEMMA SameRevisions ==
  ASSUME NEW x \in RevisionSet, NEW y \in RevisionSet,
         x.memory = y.memory, x.state = y.state, x.registry = y.registry
  PROVE  x = y
  <1>1. x = [memory |-> x.memory, state |-> x.state, registry |-> x.registry]
    BY DEF RevisionSet
  <1>2. y = [memory |-> y.memory, state |-> y.state, registry |-> y.registry]
    BY DEF RevisionSet
  <1> QED
    BY <1>1, <1>2

LEMMA SameNumber ==
  ASSUME NEW a \in Nat, NEW b \in Nat, a <= b, b <= a
  PROVE  a = b
  OBVIOUS

LEMMA RevisionsType == RouteTypes => Revisions \in RevisionSet
  BY DEF RouteTypes, Revisions, RevisionSet

LEMMA WaitingType ==
  ASSUME NEW at \in Places
  PROVE  [at |-> at, phase |-> "compose", plan |-> "none", task |-> NoRevisions,
          got |-> NoRevisions, retried |-> 0, result |-> NoRoute, route |-> NoRoute,
          stood |-> {}] \in RequestSet
  BY NoRouteType DEF RequestSet

\* A request that has not begun, or has ended.
LEMMA WaitingFits ==
  ASSUME NEW at \in {"idle", "ended"}, NEW now
  PROVE  /\ [Waiting EXCEPT !.at = at] \in RequestSet
         /\ Fits([Waiting EXCEPT !.at = at], now)
         /\ [Waiting EXCEPT !.at = at].stood = {}
  <1> DEFINE w == [Waiting EXCEPT !.at = at]
  <1>1. w = [at |-> at, phase |-> "compose", plan |-> "none", task |-> NoRevisions,
             got |-> NoRevisions, retried |-> 0, result |-> NoRoute, route |-> NoRoute,
             stood |-> {}]
    BY DEF Waiting
  <1> HIDE DEF w
  <1>2. at \in Places
    BY DEF Places
  <1>3. w \in RequestSet
    BY <1>1, <1>2, WaitingType, Zenon
  <1>4. /\ w.phase = "compose" /\ w.at \in {"idle", "ended"} /\ w.route = NoRoute
        /\ w.stood = {}
    BY <1>1
  <1>5. Fits(w, now)
    BY <1>4, Zenon DEF Fits, Active, HasResult
  <1> QED
    BY <1>3, <1>4, <1>5 DEF w

\* One request goes on: what has to be shown of its new record.
LEMMA RequestGoes ==
  ASSUME RouteInv, NEW c \in Callers, NEW w \in RequestSet, caller' = [caller EXCEPT ![c] = w],
         source' = source, RouteTypes', Fits(w, Revisions),
         w.stood \in {caller[c].stood, {}, {Revisions}},
         \A entries \in {routes'.entries, verdicts'.entries} : EntriesSound(entries)
  PROVE  RouteInv'
  <1> USE RevisionsType
  <1>1. Revisions' = Revisions
    BY DEF Revisions
  <1>2. \A d \in Callers : caller'[d] = IF d = c THEN w ELSE caller[d]
    BY DEF RouteInv, RouteTypes
  <1>3. ASSUME NEW r \in RevisionSet, InHistory(r)  PROVE InHistory(r)'
    BY <1>1, <1>2, <1>3 DEF InHistory, Dated
  <1>4. InHistory(Revisions)
    BY DEF InHistory, Dated, Below, RouteInv, Fits, RevisionSet
  <1>5. ASSUME NEW d \in Callers
        PROVE  Fits(caller'[d], Revisions') /\ \A r \in caller'[d].stood : InHistory(r)'
    <2>1. Fits(caller'[d], Revisions')
      BY <1>1, <1>2 DEF RouteInv
    <2>2. ASSUME NEW r \in caller'[d].stood  PROVE InHistory(r)'
      <3>1. caller'[d].stood \in {caller[d].stood, {}, {Revisions}} /\ caller'[d] \in RequestSet
        BY <1>2 DEF RouteTypes
      <3>2. InHistory(r) /\ r \in RevisionSet
        BY <1>4, <2>2, <3>1 DEF RouteInv, RequestSet
      <3> QED
        BY <1>3, <3>2
    <2> QED
      BY <2>1, <2>2
  <1>6. ASSUME NEW entries \in [Keys -> RouteSet], EntriesSound(entries)
        PROVE  EntriesSound(entries)'
    BY <1>3, <1>6 DEF EntriesSound, RouteSet
  <1>7. EntriesSound(routes.entries)' /\ EntriesSound(verdicts.entries)'
    <2>1. PICK e \in [Keys -> RouteSet], f \in [Keys -> RouteSet] :
                e = routes'.entries /\ f = verdicts'.entries
      BY DEF RouteTypes
    <2>2. EntriesSound(e)' /\ EntriesSound(f)'
      BY <1>6, <2>1
    <2> QED
      BY <2>1, <2>2
  <1> QED
    BY <1>5, <1>7 DEF RouteInv

\* The same when the request changes nothing that is shared.
LEMMA RequestReads ==
  ASSUME RouteInv, NEW c \in Callers, NEW w \in RequestSet, caller' = [caller EXCEPT ![c] = w],
         UNCHANGED Shared, Fits(w, Revisions),
         w.stood \in {caller[c].stood, {}, {Revisions}}
  PROVE  RouteInv'
  <1>1. RouteTypes'
    BY DEF RouteInv, RouteTypes, Shared
  <1> QED
    BY <1>1, RequestGoes DEF Shared, RouteInv

LEMMA RequestEnds ==
  ASSUME RouteInv, NEW c \in Callers, EndsRequest(c), UNCHANGED Shared
  PROVE  RouteInv'
  <1> DEFINE w == [Waiting EXCEPT !.at = "ended"]
  <1>1. w \in RequestSet /\ Fits(w, Revisions) /\ w.stood = {}
    BY WaitingFits
  <1>2. caller' = [caller EXCEPT ![c] = w]
    BY DEF EndsRequest, Does
  <1> HIDE DEF w
  <1> QED
    BY <1>1, <1>2, RequestReads

\* A request that goes to another place with what it has.
LEMMA RequestShape ==
  ASSUME RouteInv, NEW c \in Callers, NEW at \in Places
  PROVE  /\ caller[c] \in RequestSet
         /\ [caller[c] EXCEPT !.at = at] \in RequestSet
         /\ Fits(caller[c], Revisions)
  BY DEF RouteInv, RouteTypes, RequestSet

LEMMA BeginsStep ==
  ASSUME RouteInv, NEW c \in Callers, NEW plan \in Plans, BeginsRequest(c, plan)
  PROVE  RouteInv'
  <1>1. PICK w \in RequestSet : w = caller[c] /\ Fits(w, Revisions) /\ w.at = "idle"
    BY DEF RouteInv, RouteTypes, BeginsRequest
  <1>2. PICK v : v = [w EXCEPT !.at = "analyzing", !.plan = plan, !.task.registry = source.registry,
                               !.stood = {Revisions}]
    OBVIOUS
  <1>3. caller' = [caller EXCEPT ![c] = v] /\ UNCHANGED Shared
    BY <1>1, <1>2 DEF BeginsRequest, Does
  <1>4. Revisions \in RevisionSet /\ source.registry = Revisions.registry
    BY RevisionsType DEF RouteInv, Revisions
  <1>5. v \in RequestSet
    BY <1>2, <1>4 DEF RequestSet, RevisionSet, Places
  <1>6. Fits(v, Revisions) /\ v.stood = {Revisions}
    BY <1>1, <1>2, <1>4 DEF Fits, Active, HasResult, RequestSet, RevisionSet
  <1> QED
    BY <1>1, <1>3, <1>5, <1>6, RequestReads

LEMMA ReadsTaskStep ==
  ASSUME RouteInv, NEW c \in Callers, ReadsTaskState(c) \/ Composes(c)
  PROVE  RouteInv'
  <1>1. PICK w \in RequestSet : w = caller[c] /\ Fits(w, Revisions)
    BY DEF RouteInv, RouteTypes
  <1>2. source.state \in Nat
    BY DEF RouteInv, RouteTypes
  <1>3. CASE ReadsTaskState(c)
    <2>1. PICK v : v = [w EXCEPT !.at = "composing", !.task.state = source.state]
      OBVIOUS
    <2>2. caller' = [caller EXCEPT ![c] = v] /\ UNCHANGED Shared /\ w.at = "analyzing"
      BY <1>1, <1>3, <2>1 DEF ReadsTaskState, Does
    <2>3. v \in RequestSet
      BY <1>2, <2>1 DEF RequestSet, RevisionSet, Places
    <2>4. Fits(v, Revisions) /\ v.stood = w.stood
      BY <1>1, <1>2, <2>1, <2>2 DEF Fits, Active, HasResult, RequestSet, RevisionSet
    <2> QED
      BY <1>1, <2>2, <2>3, <2>4, RequestReads
  <1>4. CASE Composes(c)
    <2>1. CASE EndsRequest(c)
      BY <1>4, <2>1, RequestEnds DEF Composes
    <2>2. CASE ~EndsRequest(c)
      <3>1. PICK v : v = [w EXCEPT !.at = "admit", !.phase = "route"]
        OBVIOUS
      <3>2. caller' = [caller EXCEPT ![c] = v] /\ UNCHANGED Shared /\ w.at = "composing"
        BY <1>1, <1>4, <2>2, <3>1 DEF Composes, Does
      <3>3. v \in RequestSet
        BY <3>1 DEF RequestSet, Places
      <3>4. Fits(v, Revisions) /\ v.stood = w.stood
        BY <1>1, <3>1, <3>2 DEF Fits, Active, HasResult, Known, RequestSet
      <3> QED
        BY <1>1, <3>2, <3>3, <3>4, RequestReads
    <2> QED
      BY <2>1, <2>2
  <1> QED
    BY <1>3, <1>4

LEMMA AdmitsStep ==
  ASSUME RouteInv, NEW c \in Callers, AdmitsState(c)
  PROVE  RouteInv'
  <1>1. PICK w \in RequestSet : w = caller[c] /\ Fits(w, Revisions) /\ w.at = "admit"
    BY DEF RouteInv, RouteTypes, AdmitsState
  <1>2. source.state \in Nat /\ Revisions \in RevisionSet /\ Revisions.state = source.state
    BY RevisionsType DEF RouteInv, RouteTypes, Revisions
  <1>3. CASE EndsRequest(c)
    BY <1>3, RequestEnds DEF AdmitsState
  <1>4. CASE ~EndsRequest(c)
    <2>1. PICK at : at = CASE w.phase = "route" -> "read"
                           [] w.phase = "resolve" -> "lookup lineage"
                           [] OTHER -> "decide"
      OBVIOUS
    <2>2. PICK v : v = [w EXCEPT !.got.state = source.state, !.got.registry = w.task.registry, !.at = at]
      OBVIOUS
    <2>3. /\ caller' = [caller EXCEPT ![c] = v] /\ UNCHANGED Shared
          /\ source.state = IF w.phase = "route" THEN w.task.state ELSE w.got.state
      BY <1>1, <1>4, <2>1, <2>2 DEF AdmitsState, Does
    <2>4. at \in Places /\ at \in {"read", "lookup lineage", "decide"}
      BY <2>1 DEF Places
    <2>5. v \in RequestSet
      BY <1>2, <2>2, <2>4 DEF RequestSet, RevisionSet
    <2>6. /\ v.at = at /\ v.phase = w.phase /\ v.plan = w.plan /\ v.task = w.task
          /\ v.result = w.result /\ v.route = w.route /\ v.stood = w.stood
          /\ v.got = [memory |-> w.got.memory, state |-> source.state, registry |-> w.task.registry]
      BY <1>2, <2>2 DEF RequestSet, RevisionSet
    <2>7. w.phase \in {"resolve", "compile"} => v.got = w.got
      BY <1>1, <2>3, <2>6 DEF Fits, RequestSet, RevisionSet
    <2>8. CASE w.phase = "route"
      <3>1. at = "read"
        BY <2>1, <2>8
      <3>2. Known(v)
        BY <1>1, <1>2, <2>6, <3>1 DEF Known, Fits, Active
      <3>3. Fits(v, Revisions)
        BY <1>1, <2>6, <2>8, <3>1, <3>2 DEF Fits, Active, HasResult
      <3> QED
        BY <1>1, <2>3, <2>5, <2>6, <3>3, RequestReads
    <2>9. CASE w.phase \in {"resolve", "compile"}
      <3>1. w.phase = "compile" \/ at = "lookup lineage"
        BY <2>1, <2>9
      <3>2. Fits(v, Revisions)
        BY <1>1, <2>4, <2>6, <2>7, <2>9, <3>1 DEF Fits, Active, HasResult
      <3> QED
        BY <1>1, <2>3, <2>5, <2>6, <3>2, RequestReads
    <2> QED
      BY <1>1, <2>8, <2>9 DEF Fits, RequestSet
  <1> QED
    BY <1>3, <1>4

LEMMA ReadsMemoryStep ==
  ASSUME RouteInv, NEW c \in Callers, ReadsSnapshot(c)
  PROVE  RouteInv'
  <1>1. PICK w \in RequestSet : w = caller[c] /\ Fits(w, Revisions) /\ w.at = "read"
    BY DEF RouteInv, RouteTypes, ReadsSnapshot
  <1>2. source.memory \in Nat /\ Revisions \in RevisionSet /\ Revisions.memory = source.memory
    BY RevisionsType DEF RouteInv, RouteTypes, Revisions
  <1>3. CASE EndsRequest(c)
    BY <1>3, RequestEnds DEF ReadsSnapshot
  <1>4. CASE ~EndsRequest(c) /\ w.phase = "route"
    <2>1. PICK v : v = [w EXCEPT !.at = "lineage", !.got.memory = source.memory]
      OBVIOUS
    <2>2. caller' = [caller EXCEPT ![c] = v] /\ UNCHANGED Shared
      BY <1>1, <1>4, <2>1 DEF ReadsSnapshot, Does
    <2>3. v \in RequestSet
      BY <1>2, <2>1 DEF RequestSet, RevisionSet, Places
    <2>4. /\ v.at = "lineage" /\ v.phase = w.phase /\ v.plan = w.plan /\ v.task = w.task
          /\ v.result = w.result /\ v.route = w.route /\ v.stood = w.stood
          /\ v.got = [memory |-> source.memory, state |-> w.got.state, registry |-> w.got.registry]
      BY <2>1 DEF RequestSet, RevisionSet
    <2>5. PICK x \in w.stood : x.state = w.got.state
      BY <1>1, <1>4 DEF Fits, Known
    <2>6. x.memory <= source.memory
      BY <1>1, <1>2, <2>5 DEF RouteInv, InHistory, Below
    <2>7. Known(v)
      BY <1>1, <1>4, <2>4, <2>5, <2>6 DEF Known, Fits
    <2>8. Fits(v, Revisions)
      BY <1>1, <1>4, <2>4, <2>7 DEF Fits, Active, HasResult
    <2> QED
      BY <1>1, <2>2, <2>3, <2>4, <2>8, RequestReads
  <1>5. CASE ~EndsRequest(c) /\ w.phase # "route"
    <2>1. PICK v : v = [w EXCEPT !.at = "admit"]
      OBVIOUS
    <2>2. caller' = [caller EXCEPT ![c] = v] /\ UNCHANGED Shared
      BY <1>1, <1>5, <2>1 DEF ReadsSnapshot, Goes, Does
    <2>3. v \in RequestSet
      BY <2>1 DEF RequestSet, Places
    <2>4. Fits(v, Revisions) /\ v.stood = w.stood
      BY <1>1, <1>5, <2>1 DEF Fits, Active, HasResult, RequestSet
    <2> QED
      BY <1>1, <2>2, <2>3, <2>4, RequestReads
  <1> QED
    BY <1>3, <1>4, <1>5

LEMMA LineageStep ==
  ASSUME RouteInv, NEW c \in Callers, Lineage(c)
  PROVE  RouteInv'
  <1>1. PICK w \in RequestSet :
          /\ w = caller[c] /\ Fits(w, Revisions)
          /\ w.at \in {"lineage", "lookup lineage", "hit lineage", "final lineage", "store lineage"}
    BY DEF RouteInv, RouteTypes, Lineage
  <1>2. CASE EndsRequest(c)
    BY <1>2, RequestEnds DEF Lineage
  <1>3. CASE ~EndsRequest(c)
    <2>1. PICK at : at = CASE w.at = "lineage" -> IF w.phase = "route" THEN "lookup lineage" ELSE "read"
                           [] w.at = "lookup lineage" -> "lookup"
                           [] w.at = "hit lineage" -> "touch"
                           [] w.at = "final lineage" -> "store lineage"
                           [] w.at = "store lineage" -> "store"
      OBVIOUS
    <2>2. PICK v : v = [w EXCEPT !.at = at]
      OBVIOUS
    <2>3. /\ caller' = [caller EXCEPT ![c] = v] /\ UNCHANGED Shared
          /\ source.registry = w.task.registry
      BY <1>1, <1>3, <2>1, <2>2 DEF Lineage, Goes, Does
    <2>4. /\ w.at = "lineage" => at = IF w.phase = "route" THEN "lookup lineage" ELSE "read"
          /\ w.at = "lookup lineage" => at = "lookup"
          /\ w.at = "hit lineage" => at = "touch"
          /\ w.at = "final lineage" => at = "store lineage"
          /\ w.at = "store lineage" => at = "store"
      BY <2>1
    <2>5. at \in Places
      BY <1>1, <2>4 DEF Places
    <2>6. v \in RequestSet
      BY <2>2, <2>5 DEF RequestSet
    <2>7. /\ v.at = at /\ v.phase = w.phase /\ v.plan = w.plan /\ v.task = w.task
          /\ v.result = w.result /\ v.route = w.route /\ v.stood = w.stood /\ v.got = w.got
      BY <2>2 DEF RequestSet
    <2>8. ASSUME NEW x \in w.stood, w.got.registry = w.task.registry  PROVE x.registry = w.got.registry
      <3>1. x \in RevisionSet /\ w.task \in RevisionSet
        BY DEF RequestSet
      <3>2. w.task.registry <= x.registry /\ x.registry <= w.task.registry
        BY <1>1, <2>3, <2>8 DEF RouteInv, InHistory, Below, Revisions, Fits, Active
      <3> QED
        BY <2>8, <3>1, <3>2 DEF RevisionSet
    <2>9. CASE w.phase = "route"
      <3>1. Known(w)
        BY <1>1, <2>9 DEF Fits
      <3>2. w.got.registry = w.task.registry
        BY <1>1, <3>1 DEF Known
      <3>3. w.at = "final lineage" => w.got \in w.stood
        <4> SUFFICES ASSUME w.at = "final lineage"  PROVE w.got \in w.stood
          OBVIOUS
        <4>1. PICK x \in w.stood : x.memory = w.got.memory /\ x.state = w.got.state
          BY <3>1 DEF Known
        <4>2. x.registry = w.got.registry
          BY <2>8, <3>2
        <4>3. x \in RevisionSet /\ w.got \in RevisionSet
          BY DEF RequestSet
        <4>4. x = w.got
          BY <4>1, <4>2, <4>3, SameRevisions
        <4> QED
          BY <4>4
      <3>4. Known(v)
        <4>1. CASE w.at \in {"lineage", "lookup lineage"}
          <5>1. PICK x \in w.stood : x.state = w.got.state /\ x.memory <= w.got.memory
            BY <3>1, <4>1 DEF Known
          <5>2. x.registry = w.got.registry
            BY <2>8, <3>2
          <5>3. v.at \in {"lookup lineage", "lookup"}
            BY <2>4, <2>7, <2>9, <4>1
          <5> QED
            BY <2>7, <3>2, <5>1, <5>2, <5>3 DEF Known
        <4>2. CASE w.at \in {"hit lineage", "final lineage", "store lineage"}
          <5>1. w.got \in w.stood
            BY <3>1, <3>3, <4>2 DEF Known
          <5>2. v.at \in {"touch", "store lineage", "store"}
            BY <2>4, <2>7, <4>2
          <5> QED
            BY <2>7, <3>2, <5>1, <5>2 DEF Known
        <4> QED
          BY <1>1, <4>1, <4>2
      <3>5. v.at \in {"lookup lineage", "lookup", "touch", "store lineage", "store"}
        BY <1>1, <2>4, <2>7, <2>9
      <3>6. HasResult(v) => HasResult(w)
        BY <1>1, <2>4, <2>7, <2>9 DEF HasResult
      <3>7. Fits(v, Revisions)
        BY <1>1, <2>7, <2>9, <3>4, <3>5, <3>6 DEF Fits, Active
      <3> QED
        BY <1>1, <2>3, <2>6, <2>7, <3>7, RequestReads
    <2>10. CASE w.phase # "route"
      <3>1. v.at \in {"read", "lookup", "touch", "store lineage", "store"}
        BY <1>1, <2>4, <2>7, <2>10
      <3>2. HasResult(v) => HasResult(w)
        BY <1>1, <2>4, <2>7, <2>10 DEF HasResult
      <3>3. Fits(v, Revisions)
        BY <1>1, <2>7, <2>10, <3>1, <3>2 DEF Fits, Active
      <3> QED
        BY <1>1, <2>3, <2>6, <2>7, <3>3, RequestReads
    <2> QED
      BY <2>9, <2>10
  <1> QED
    BY <1>2, <1>3

\* An entry of the revisions a router has read is of a moment of its request:
\* an older one would have had a state read later, a newer one a memory read earlier.
LEMMA HitInTime ==
  ASSUME RouteInv, NEW c \in Callers, NEW w \in RequestSet, w = caller[c],
         Fits(w, Revisions), w.phase = "route", w.at = "lookup", InHistory(w.got)
  PROVE  w.got \in w.stood
  <1>1. PICK x \in w.stood : /\ x.state = w.got.state /\ x.memory <= w.got.memory
                             /\ x.registry = w.got.registry
    BY DEF Fits, Known
  <1>2. x \in RevisionSet /\ w.got \in RevisionSet
    BY DEF RequestSet
  <1>3. CASE \A y \in w.stood : Below(w.got, y)
    <2>1. w.got.memory <= x.memory
      BY <1>3 DEF Below
    <2>2. x = w.got
      <3>1. x.memory = w.got.memory
        BY <1>1, <1>2, <2>1 DEF RevisionSet
      <3> QED
        BY <1>1, <1>2, <3>1, SameRevisions
    <2> QED
      BY <2>2
  <1> QED
    BY <1>3 DEF InHistory, Dated

LEMMA LooksUpStep ==
  ASSUME RouteInv, NEW c \in Callers, LooksUpRoute(c)
  PROVE  RouteInv'
  <1>1. PICK w \in RequestSet : w = caller[c] /\ Fits(w, Revisions) /\ w.at = "lookup"
    BY DEF RouteInv, RouteTypes, LooksUpRoute
  <1>0. UNCHANGED Shared
    BY DEF LooksUpRoute
  <1>2. CASE Goes(c, "work")
    <2>1. PICK v : v = [w EXCEPT !.at = "work"]
      OBVIOUS
    <2>2. caller' = [caller EXCEPT ![c] = v]
      BY <1>1, <1>2, <2>1 DEF Goes, Does
    <2>3. v \in RequestSet
      BY <2>1 DEF RequestSet, Places
    <2>4. /\ v.at = "work" /\ v.phase = w.phase /\ v.plan = w.plan /\ v.task = w.task
          /\ v.result = w.result /\ v.route = w.route /\ v.stood = w.stood /\ v.got = w.got
      BY <2>1 DEF RequestSet
    <2>5. w.phase = "route" => Known(v)
      BY <1>1, <2>4 DEF Fits, Known
    <2>6. Fits(v, Revisions)
      BY <1>1, <2>4, <2>5 DEF Fits, Active, HasResult
    <2> QED
      BY <1>0, <1>1, <2>2, <2>3, <2>4, <2>6, RequestReads
  <1>3. ASSUME NEW result \in Hits(CacheOf(c), caller[c].plan, caller[c].got),
               Does(c, [caller[c] EXCEPT !.at = "hit lineage", !.result = result])
        PROVE  RouteInv'
    <2>1. PICK entries \in [Keys -> RouteSet] : entries = CacheOf(c).entries /\ EntriesSound(entries)
      BY DEF CacheOf, RouteInv, RouteTypes
    <2>2. w.plan \in Plans /\ RouteKey(w.plan) \in Keys
      BY <1>1 DEF Fits, Active, Keys
    <2>3. /\ result = entries[RouteKey(w.plan)] /\ result # NoRoute /\ result.from = w.got
          /\ result \in RouteSet
      BY <1>1, <1>3, <2>1, <2>2 DEF Hits
    <2>4. result.plan = w.plan /\ InHistory(w.got)
      BY <2>1, <2>2, <2>3 DEF EntriesSound, RouteKey
    <2>5. PICK v : v = [w EXCEPT !.at = "hit lineage", !.result = result]
      OBVIOUS
    <2>6. caller' = [caller EXCEPT ![c] = v]
      BY <1>1, <1>3, <2>5 DEF Does
    <2>7. v \in RequestSet
      BY <2>3, <2>5 DEF RequestSet, Places
    <2>8. /\ v.at = "hit lineage" /\ v.phase = w.phase /\ v.plan = w.plan /\ v.task = w.task
          /\ v.result = result /\ v.route = w.route /\ v.stood = w.stood /\ v.got = w.got
      BY <2>5 DEF RequestSet
    <2>9. w.phase = "route" => Known(v)
      BY <1>1, <2>4, <2>8, HitInTime DEF Fits, Known
    <2>10. Fits(v, Revisions)
      BY <1>1, <2>3, <2>4, <2>8, <2>9 DEF Fits, Active, HasResult
    <2> QED
      BY <1>0, <1>1, <2>6, <2>7, <2>8, <2>10, RequestReads
  <1> QED
    BY <1>2, <1>3 DEF LooksUpRoute

LEMMA WorksStep ==
  ASSUME RouteInv, NEW c \in Callers, Works(c)
  PROVE  RouteInv'
  <1>1. PICK w \in RequestSet : w = caller[c] /\ Fits(w, Revisions) /\ w.at = "work"
    BY DEF RouteInv, RouteTypes, Works
  <1>2. PICK result : result = [plan |-> w.plan, from |-> w.got,
                                graph |-> IF w.phase = "route" THEN source.graph = w.got.memory
                                          ELSE w.route.graph]
    OBVIOUS
  <1>3. result \in RouteSet /\ result.plan = w.plan /\ result.from = w.got
    <2>1. (IF w.phase = "route" THEN source.graph = w.got.memory ELSE w.route.graph) \in BOOLEAN
      <3>1. w.route.graph \in BOOLEAN
        BY DEF RequestSet, RouteSet
      <3> QED
        BY <3>1, Zenon
    <2> QED
      BY <1>2, <2>1 DEF RequestSet, RouteSet
  <1>4. PICK v : v = [w EXCEPT !.at = "recheck memory", !.result = result]
    OBVIOUS
  <1>5. caller' = [caller EXCEPT ![c] = v] /\ UNCHANGED Shared
    BY <1>1, <1>2, <1>4 DEF Works, Does
  <1>6. v \in RequestSet
    BY <1>3, <1>4 DEF RequestSet, Places
  <1>7. /\ v.at = "recheck memory" /\ v.phase = w.phase /\ v.plan = w.plan /\ v.task = w.task
        /\ v.result = result /\ v.route = w.route /\ v.stood = w.stood /\ v.got = w.got
    BY <1>4 DEF RequestSet
  <1>8. w.phase = "route" => Known(v)
    <2> SUFFICES ASSUME w.phase = "route"  PROVE Known(v)
      OBVIOUS
    <2>1. w.got.registry = w.task.registry
      BY <1>1 DEF Fits, Known
    <2>2. PICK x \in w.stood : /\ x.state = w.got.state /\ x.memory <= w.got.memory
                               /\ x.registry = w.got.registry
      BY <1>1 DEF Fits, Known
    <2> QED
      BY <1>7, <2>1, <2>2 DEF Known
  <1>9. Fits(v, Revisions)
    BY <1>1, <1>3, <1>7, <1>8 DEF Fits, Active, HasResult
  <1> QED
    BY <1>1, <1>5, <1>6, <1>7, <1>9, RequestReads

LEMMA ChecksStep ==
  ASSUME RouteInv, NEW c \in Callers, ChecksInputs(c)
  PROVE  RouteInv'
  <1>1. PICK w \in RequestSet : /\ w = caller[c] /\ Fits(w, Revisions)
                                /\ w.at \in {"recheck memory", "recheck state", "recheck registry"}
    BY DEF RouteInv, RouteTypes, ChecksInputs
  <1>0. UNCHANGED Shared
    BY DEF ChecksInputs
  <1>2. CASE EndsRequest(c)
    BY <1>0, <1>2, RequestEnds
  <1>3. CASE /\ w.phase = "route"
             /\ Does(c, [w EXCEPT !.at = "admit", !.retried = @ + 1, !.result = NoRoute])
    <2>1. PICK v : v = [w EXCEPT !.at = "admit", !.retried = @ + 1, !.result = NoRoute]
      OBVIOUS
    <2>2. caller' = [caller EXCEPT ![c] = v]
      BY <1>1, <1>3, <2>1 DEF Does
    <2>3. v \in RequestSet
      <3>1. w.retried \in Nat /\ w.retried + 1 \in Nat
        BY DEF RequestSet
      <3> QED
        BY <2>1, <3>1, NoRouteType DEF RequestSet, Places
    <2>4. /\ v.at = "admit" /\ v.phase = w.phase /\ v.plan = w.plan /\ v.task = w.task
          /\ v.route = w.route /\ v.stood = w.stood /\ v.got = w.got
      BY <2>1 DEF RequestSet
    <2>5. Known(v)
      BY <2>4 DEF Known
    <2>6. Fits(v, Revisions)
      BY <1>1, <1>3, <2>4, <2>5 DEF Fits, Active, HasResult
    <2> QED
      BY <1>0, <1>1, <2>2, <2>3, <2>4, <2>6, RequestReads
  <1>4. CASE \/ w.at = "recheck memory" /\ source.memory = w.got.memory /\ Goes(c, "recheck state")
             \/ w.at = "recheck state" /\ source.state = w.got.state /\ w.phase # "compile"
                /\ Goes(c, "final lineage")
             \/ w.at = "recheck state" /\ w.phase = "compile" /\ Goes(c, "recheck registry")
             \/ w.at = "recheck registry" /\ Goes(c, "answer")
    <2>1. PICK at \in {"recheck state", "final lineage", "recheck registry", "answer"} :
             /\ Goes(c, at)
             /\ at = "recheck state" => w.at = "recheck memory" /\ source.memory = w.got.memory
             /\ at = "final lineage" => w.at = "recheck state" /\ source.state = w.got.state
             /\ at = "recheck registry" => w.phase = "compile"
      BY <1>4
    <2>2. PICK v : v = [w EXCEPT !.at = at]
      OBVIOUS
    <2>3. caller' = [caller EXCEPT ![c] = v]
      BY <1>1, <2>1, <2>2 DEF Goes, Does
    <2>4. v \in RequestSet
      BY <2>2 DEF RequestSet, Places
    <2>5. /\ v.at = at /\ v.phase = w.phase /\ v.plan = w.plan /\ v.task = w.task
          /\ v.result = w.result /\ v.route = w.route /\ v.stood = w.stood /\ v.got = w.got
      BY <2>2 DEF RequestSet
    <2>6. w.phase = "route" => Known(v)
      <3> SUFFICES ASSUME w.phase = "route"  PROVE Known(v)
        OBVIOUS
      <3>0. Known(w) /\ Revisions \in w.stood /\ Revisions \in RevisionSet
        BY <1>1, RevisionsType DEF Fits, Active, RouteInv
      <3>1. w.got.registry = w.task.registry
        BY <1>1, <3>0 DEF Known
      <3>2. CASE at = "recheck state"
        <4>1. PICK x \in w.stood : x.state = w.got.state
          BY <2>1, <3>0, <3>2 DEF Known
        <4>2. w.got.state <= Revisions.state
          BY <1>1, <4>1 DEF RouteInv, InHistory, Below
        <4>3. Revisions.memory = w.got.memory
          BY <2>1, <3>2 DEF Revisions
        <4> QED
          BY <2>5, <3>0, <3>1, <3>2, <4>2, <4>3 DEF Known
      <3>3. CASE at = "final lineage"
        <4>1. PICK x \in w.stood : x.memory = w.got.memory /\ w.got.state <= x.state
          BY <2>1, <3>0, <3>3 DEF Known
        <4>2. x.state <= w.got.state
          BY <1>1, <2>1, <3>3, <4>1 DEF RouteInv, InHistory, Below, Revisions
        <4>3. x.state = w.got.state
          <5>1. x.state \in Nat /\ w.got.state \in Nat
            BY DEF RequestSet, RevisionSet
          <5> QED
            BY <4>1, <4>2, <5>1, SameNumber
        <4> QED
          BY <2>5, <3>1, <3>3, <4>1, <4>3 DEF Known
      <3>4. CASE at \in {"recheck registry", "answer"}
        BY <2>5, <3>1, <3>4 DEF Known
      <3> QED
        BY <3>2, <3>3, <3>4
    <2>7. HasResult(v) => HasResult(w)
      BY <2>1, <2>5 DEF HasResult
    <2>8. Fits(v, Revisions)
      BY <1>1, <2>5, <2>6, <2>7 DEF Fits, Active
    <2> QED
      BY <1>0, <1>1, <2>3, <2>4, <2>5, <2>8, RequestReads
  <1>5. CASE w.at = "recheck memory"
    BY <1>1, <1>2, <1>3, <1>4, <1>5 DEF ChecksInputs
  <1>6. CASE w.at = "recheck state"
    <2>1. CASE w.phase = "compile"
      <3>1. PICK at : at = CASE caller[c].at = "recheck memory" -> "recheck state"
                             [] caller[c].at = "recheck state" ->
                                  IF caller[c].phase = "compile" THEN "recheck registry" ELSE "final lineage"
                             [] OTHER -> "answer"
        OBVIOUS
      <3>2. EndsRequest(c) \/ Goes(c, at)
        BY <1>1, <1>6, <2>1, <3>1 DEF ChecksInputs
      <3>3. at = "recheck registry"
        BY <1>1, <1>6, <2>1, <3>1
      <3> QED
        BY <1>2, <1>4, <1>6, <2>1, <3>2, <3>3
    <2>2. CASE w.phase # "compile"
      BY <1>1, <1>2, <1>3, <1>4, <1>6, <2>2 DEF ChecksInputs
    <2> QED
      BY <2>1, <2>2
  <1>7. CASE w.at = "recheck registry"
    BY <1>1, <1>2, <1>3, <1>4, <1>7 DEF ChecksInputs
  <1> QED
    BY <1>1, <1>5, <1>6, <1>7

\* What is stored is of its key and of revisions that stood together, and what
\* is dropped is no entry.
LEMMA StoreSound ==
  ASSUME NEW cache, cache.entries \in [Keys -> RouteSet], EntriesSound(cache.entries),
         NEW result \in RouteSet, result.plan \in Plans, InHistory(result.from)
  PROVE  /\ Store(cache, result).entries \in [Keys -> RouteSet]
         /\ EntriesSound(Store(cache, result).entries)
  <1>1. PICK used : used = NewestOf(Newest(cache, RouteKey(result.plan)))
    OBVIOUS
  <1>2. PICK kept : kept = {used[i] : i \in DOMAIN used}
    OBVIOUS
  <1>3. PICK entries : entries = [key \in Keys |-> IF key = RouteKey(result.plan) THEN result
                                   ELSE IF key \in kept THEN cache.entries[key] ELSE NoRoute]
    OBVIOUS
  <1>4. Store(cache, result).entries = entries
    BY <1>1, <1>2, <1>3 DEF Store
  <1>5. entries \in [Keys -> RouteSet]
    BY <1>3, NoRouteType
  <1>6. ASSUME NEW key \in Keys, entries[key] # NoRoute
        PROVE  RouteKey(entries[key].plan) = key /\ InHistory(entries[key].from)
    <2>1. CASE key = RouteKey(result.plan)
      BY <1>3, <2>1
    <2>2. CASE key # RouteKey(result.plan)
      <3>1. entries[key] = cache.entries[key]
        BY <1>3, <1>6, <2>2
      <3> QED
        BY <1>6, <3>1 DEF EntriesSound
    <2> QED
      BY <2>1, <2>2
  <1>7. EntriesSound(entries)
    BY <1>6 DEF EntriesSound
  <1> QED
    BY <1>4, <1>5, <1>7

LEMMA TouchKeeps ==
  ASSUME NEW cache, NEW plan, NEW from, IsCache(cache)
  PROVE  Touch(cache, plan, from).entries = cache.entries /\ IsCache(Touch(cache, plan, from))
  <1>1. PICK used : used = Newest(cache, RouteKey(plan))
    OBVIOUS
  <1>2. [cache EXCEPT !.used = used] = [entries |-> cache.entries, used |-> used]
    <2>1. [[entries |-> cache.entries, used |-> cache.used] EXCEPT !.used = used]
            = [entries |-> cache.entries, used |-> used]
      OBVIOUS
    <2> QED
      BY <2>1 DEF IsCache
  <1>3. Touch(cache, plan, from) \in {cache, [entries |-> cache.entries, used |-> used]}
    BY <1>1, <1>2 DEF Touch
  <1> QED
    BY <1>3 DEF IsCache

LEMMA UsesCacheStep ==
  ASSUME RouteInv, NEW c \in Callers, UsesCache(c)
  PROVE  RouteInv'
  <1>1. PICK w \in RequestSet : w = caller[c] /\ Fits(w, Revisions) /\ w.at \in {"store", "touch"}
    BY DEF RouteInv, RouteTypes, UsesCache
  <1>2. /\ w.got \in w.stood /\ w.got.registry = w.task.registry
        /\ w.result.from = w.got /\ w.result.plan = w.plan /\ w.plan \in Plans
        /\ w.phase \in {"route", "resolve", "compile"}
    BY <1>1 DEF Fits, Known, HasResult, Active, RequestSet
  <1>3. InHistory(w.result.from)
    BY <1>1, <1>2 DEF RouteInv
  <1>4. PICK cache : /\ cache = CacheOf(c) /\ cache.entries \in [Keys -> RouteSet]
                     /\ EntriesSound(cache.entries) /\ IsCache(cache)
    BY DEF CacheOf, RouteInv, RouteTypes
  <1>5. PICK new : new = IF w.at = "store" THEN Store(cache, w.result)
                         ELSE Touch(cache, w.plan, w.got)
    OBVIOUS
  <1>6. new.entries \in [Keys -> RouteSet] /\ EntriesSound(new.entries) /\ IsCache(new)
    <2>1. CASE w.at = "store"
      <3>1. new = Store(cache, w.result) /\ w.result \in RouteSet /\ w.result.plan \in Plans
        BY <1>2, <1>5, <2>1 DEF RequestSet
      <3>2. IsCache(new)
        BY <3>1 DEF Store, IsCache
      <3> QED
        BY <1>3, <1>4, <3>1, <3>2, StoreSound
    <2>2. CASE w.at # "store"
      <3>1. new = Touch(cache, w.plan, w.got)
        BY <1>5, <2>2
      <3> QED
        BY <1>4, <3>1, TouchKeeps
    <2> QED
      BY <2>1, <2>2
  <1>7. /\ routes' \in {routes, new} /\ verdicts' \in {verdicts, new}
        /\ source' = source
    BY <1>1, <1>4, <1>5 DEF UsesCache
  <1>8. PICK v : v = IF w.phase = "route"
                     THEN [w EXCEPT !.at = "lineage", !.phase = "resolve", !.route = w.result,
                                    !.got = w.result.from]
                     ELSE [w EXCEPT !.at = "read", !.phase = "compile", !.got = w.result.from]
    OBVIOUS
  <1>9. caller' = [caller EXCEPT ![c] = v]
    BY <1>1, <1>8 DEF UsesCache, Does
  <1>10. /\ v.plan = w.plan /\ v.task = w.task /\ v.result = w.result /\ v.stood = w.stood
         /\ v.got = w.got /\ v \in RequestSet
         /\ \/ w.phase = "route" /\ v.at = "lineage" /\ v.phase = "resolve" /\ v.route = w.result
            \/ w.phase # "route" /\ v.at = "read" /\ v.phase = "compile" /\ v.route = w.route
    <2>1. CASE w.phase = "route"
      BY <1>2, <1>8, <2>1 DEF RequestSet, Places
    <2>2. CASE w.phase # "route"
      BY <1>2, <1>8, <2>2 DEF RequestSet, Places
    <2> QED
      BY <2>1, <2>2
  <1>11. Fits(v, Revisions)
    BY <1>1, <1>2, <1>10 DEF Fits, Active, HasResult
  <1>12. RouteTypes'
    BY <1>6, <1>7, <1>9, <1>10 DEF RouteInv, RouteTypes
  <1>13. \A entries \in {routes'.entries, verdicts'.entries} : EntriesSound(entries)
    BY <1>6, <1>7 DEF RouteInv
  <1> QED
    BY <1>1, <1>7, <1>9, <1>10, <1>11, <1>12, <1>13, RequestGoes

LEMMA AnswersStep ==
  ASSUME RouteInv, NEW c \in Callers, ChecksCoverage(c) \/ AnswersRequest(c)
  PROVE  RouteInv'
  <1>0. UNCHANGED Shared
    BY DEF ChecksCoverage, AnswersRequest
  <1>1. CASE EndsRequest(c)
    BY <1>0, <1>1, RequestEnds
  <1>2. CASE ChecksCoverage(c) /\ Goes(c, "recheck memory")
    <2>1. PICK w \in RequestSet : w = caller[c] /\ Fits(w, Revisions) /\ w.at = "decide"
      BY <1>2 DEF RouteInv, RouteTypes, ChecksCoverage
    <2>2. PICK v : v = [w EXCEPT !.at = "recheck memory"]
      OBVIOUS
    <2>3. caller' = [caller EXCEPT ![c] = v]
      BY <1>2, <2>1, <2>2 DEF Goes, Does
    <2>4. /\ v.at = "recheck memory" /\ v.phase = w.phase /\ v.plan = w.plan /\ v.task = w.task
          /\ v.result = w.result /\ v.route = w.route /\ v.stood = w.stood /\ v.got = w.got
      BY <2>2 DEF RequestSet
    <2>5. v \in RequestSet
      BY <2>2 DEF RequestSet, Places
    <2>6. Fits(v, Revisions)
      BY <2>1, <2>4 DEF Fits, Active, HasResult
    <2> QED
      BY <1>0, <2>1, <2>3, <2>4, <2>5, <2>6, RequestReads
  <1> QED
    BY <1>1, <1>2 DEF ChecksCoverage, AnswersRequest

\* A change of a source: what stands together now is above what ever did, and
\* every request sees it.
LEMMA ChangesStep ==
  ASSUME RouteInv, SourceChanges
  PROVE  RouteInv'
  <1>1. PICK now : now = Revisions'
    OBVIOUS
  <1>2. /\ source'.memory \in Nat /\ source'.state \in Nat /\ source'.registry \in Nat
        /\ source' = [memory |-> source'.memory, state |-> source'.state,
                      registry |-> source'.registry,
                      archived |-> source'.archived, graph |-> source'.graph]
        /\ source.memory <= source'.memory /\ source.state <= source'.state
        /\ source.registry <= source'.registry
    <2>0. PICK m, s, r, a, g :
            /\ m \in Nat /\ s \in Nat /\ r \in Nat
            /\ source = [memory |-> m, state |-> s, registry |-> r, archived |-> a, graph |-> g]
      BY DEF RouteInv, RouteTypes
    <2>1. CASE source' = [source EXCEPT !.memory = @ + 1]
      BY <2>0, <2>1
    <2>2. CASE source' = [source EXCEPT !.state = @ + 1]
      BY <2>0, <2>2
    <2>3. CASE \E archived \in BOOLEAN :
                 source' = [source EXCEPT !.registry = @ + 1, !.archived = archived]
      <3>1. PICK archived : source' = [source EXCEPT !.registry = @ + 1, !.archived = archived]
        BY <2>3
      <3>2. source' = [memory |-> m, state |-> s, registry |-> r + 1, archived |-> archived,
                       graph |-> g]
        BY <2>0, <3>1
      <3> QED
        BY <2>0, <3>2
    <2>4. CASE source' = [source EXCEPT !.graph = source.memory]
      BY <2>0, <2>4
    <2> QED
      BY <2>1, <2>2, <2>3, <2>4 DEF SourceChanges
  <1>3. now \in RevisionSet /\ Below(Revisions, now)
    BY <1>1, <1>2 DEF Revisions, RevisionSet, Below
  <1>4. \A c \in Callers :
          /\ Active(caller[c]) => caller'[c] = [caller[c] EXCEPT !.stood = @ \union {now}]
          /\ ~Active(caller[c]) => caller'[c] = caller[c]
    BY <1>1 DEF SourceChanges, Active
  <1>5. \A c \in Callers :
          /\ caller'[c] \in RequestSet
          /\ caller'[c].stood = IF Active(caller[c]) THEN caller[c].stood \union {now} ELSE {}
    <2> SUFFICES ASSUME NEW c \in Callers
                 PROVE  /\ caller'[c] \in RequestSet
                        /\ caller'[c].stood = IF Active(caller[c]) THEN caller[c].stood \union {now}
                                              ELSE {}
      OBVIOUS
    <2>1. caller[c] \in RequestSet /\ (~Active(caller[c]) => caller[c].stood = {})
      BY DEF RouteInv, RouteTypes, Fits
    <2>2. PICK w \in RequestSet : w = caller[c]
      BY <2>1
    <2>3. [w EXCEPT !.stood = @ \union {now}] \in RequestSet
      BY <1>3 DEF RequestSet
    <2>4. [w EXCEPT !.stood = @ \union {now}].stood = w.stood \union {now}
      BY DEF RequestSet
    <2> QED
      BY <1>4, <2>1, <2>2, <2>3, <2>4
  <1>6. RouteTypes'
    <2>1. caller' = [c \in Callers |-> caller'[c]]
      BY DEF SourceChanges
    <2>2. caller' \in [Callers -> RequestSet]
      BY <1>5, <2>1
    <2> QED
      BY <1>2, <2>2 DEF RouteInv, RouteTypes, SourceChanges, IsCache
  <1>7. ASSUME NEW r \in RevisionSet, InHistory(r)  PROVE InHistory(r)'
    <2>1. Below(r, now)
      <3>1. Revisions \in RevisionSet /\ Below(r, Revisions)
        BY <1>7, RevisionsType DEF RouteInv, InHistory
      <3> QED
        BY <1>3, <3>1 DEF Below, RevisionSet
    <2>2. ASSUME NEW c \in Callers  PROVE Dated(r, caller'[c].stood)
      BY <1>5, <1>7, <2>1, <2>2 DEF InHistory, Dated
    <2> QED
      BY <1>1, <2>1, <2>2 DEF InHistory
  <1>8. InHistory(now)'
    <2>1. Below(now, now)
      BY <1>3 DEF Below, RevisionSet
    <2>2. ASSUME NEW c \in Callers  PROVE Dated(now, caller'[c].stood)
      BY <1>5 DEF Dated
    <2> QED
      BY <1>1, <2>1, <2>2 DEF InHistory
  <1>9. ASSUME NEW c \in Callers
        PROVE  Fits(caller'[c], now) /\ \A r \in caller'[c].stood : InHistory(r)'
    <2>1. PICK w \in RequestSet : w = caller[c] /\ Fits(w, Revisions)
      BY DEF RouteInv, RouteTypes
    <2>2. ASSUME NEW r \in caller'[c].stood  PROVE InHistory(r)'
      <3>1. r = now \/ (r \in caller[c].stood /\ r \in RevisionSet)
        BY <1>5, <2>1, <2>2 DEF RequestSet
      <3> QED
        BY <1>7, <1>8, <3>1 DEF RouteInv
    <2>3. CASE ~Active(w)
      BY <1>4, <2>1, <2>2, <2>3 DEF Fits, Active, HasResult
    <2>4. CASE Active(w)
      <3>1. PICK v : v = [w EXCEPT !.stood = @ \union {now}]
        OBVIOUS
      <3>2. caller'[c] = v
        BY <1>4, <2>1, <2>4, <3>1
      <3>3. /\ v.at = w.at /\ v.phase = w.phase /\ v.plan = w.plan /\ v.task = w.task
            /\ v.result = w.result /\ v.route = w.route /\ v.got = w.got
            /\ v.stood = w.stood \union {now}
        BY <3>1 DEF RequestSet
      <3>4. w.task.registry <= now.registry
        <4>1. Revisions \in w.stood /\ Revisions \in RevisionSet /\ w.task.registry \in Nat
          BY <2>1, <2>4, RevisionsType DEF Fits, RouteInv, RequestSet, RevisionSet
        <4>2. w.task.registry <= Revisions.registry /\ Revisions.registry <= now.registry
          BY <1>3, <2>1, <2>4, <4>1 DEF Fits, Below
        <4> QED
          BY <1>3, <4>1, <4>2 DEF RevisionSet
      <3>5. Known(w) => Known(v)
        BY <3>3 DEF Known
      <3>6. Fits(v, now)
        BY <2>1, <2>4, <3>3, <3>4, <3>5 DEF Fits, Active, HasResult
      <3> QED
        BY <2>2, <3>2, <3>6
    <2> QED
      BY <2>3, <2>4
  <1>10. ASSUME NEW entries \in [Keys -> RouteSet], EntriesSound(entries)
         PROVE  EntriesSound(entries)'
    BY <1>7, <1>10 DEF EntriesSound, RouteSet
  <1>11. EntriesSound(routes.entries)' /\ EntriesSound(verdicts.entries)'
    <2>1. routes' = routes /\ verdicts' = verdicts
      BY DEF SourceChanges
    <2>2. PICK e \in [Keys -> RouteSet], f \in [Keys -> RouteSet] :
                /\ e = routes.entries /\ f = verdicts.entries
                /\ EntriesSound(e) /\ EntriesSound(f)
      BY DEF RouteInv, RouteTypes
    <2>3. EntriesSound(e)' /\ EntriesSound(f)'
      BY <1>10, <2>2
    <2> QED
      BY <2>1, <2>2, <2>3
  <1> QED
    BY <1>1, <1>6, <1>9, <1>11 DEF RouteInv

LEMMA RouteStep ==
  ASSUME RouteInv, [RouteNext]_routeVars
  PROVE  RouteInv'
  <1>1. CASE UNCHANGED routeVars
    BY <1>1 DEF routeVars, RouteInv, RouteTypes, IsCache, EntriesSound, InHistory, Dated, Revisions
  <1>2. CASE RouteNext
    BY <1>2, ChangesStep, BeginsStep, ReadsTaskStep, AdmitsStep, ReadsMemoryStep, LineageStep,
       LooksUpStep, WorksStep, ChecksStep, UsesCacheStep, AnswersStep DEF RouteNext
  <1> QED
    BY <1>1, <1>2

LEMMA RouteStarts ==
  ASSUME RouteInit
  PROVE  RouteInv
  <1>1. source = [memory |-> 1, state |-> 1, registry |-> 1, archived |-> FALSE, graph |-> 1]
    BY DEF RouteInit
  <1>2. PICK none : none = [key \in Keys |-> NoRoute]
    OBVIOUS
  <1>3. /\ routes = [entries |-> none, used |-> <<>>] /\ verdicts = [entries |-> none, used |-> <<>>]
        /\ none \in [Keys -> RouteSet]
    BY <1>2, NoRouteType DEF RouteInit, NoCache
  <1>4. EntriesSound(none)
    BY <1>2 DEF EntriesSound
  <1>5. PICK w : w = Waiting
    OBVIOUS
  <1>6. w = [at |-> "idle", phase |-> "compose", plan |-> "none", task |-> NoRevisions,
             got |-> NoRevisions, retried |-> 0, result |-> NoRoute, route |-> NoRoute,
             stood |-> {}]
    BY <1>5 DEF Waiting
  <1>7. w \in RequestSet
    BY <1>6, WaitingType DEF Places
  <1>8. \A c \in Callers : caller[c] = w
    BY <1>5 DEF RouteInit
  <1>9. Fits(w, Revisions) /\ w.stood = {}
    BY <1>6 DEF Fits, Active, HasResult
  <1>10. RouteTypes
    BY <1>1, <1>3, <1>5, <1>7 DEF RouteTypes, IsCache, RouteInit
  <1> QED
    BY <1>3, <1>4, <1>8, <1>9, <1>10 DEF RouteInv

\* What the router, the resolver and their two caches keep while the stores
\* change: the invariant behind RouteSound.
THEOREM RouteInvariant == RouteSpec => []RouteInv
  BY RouteStarts, RouteStep, PTL DEF RouteSpec

\* A route or a verdict that is given to a caller, from a cache or not, is of
\* revisions that stood together within the request and is for its own plan
\* (ContextRouter.route and AuthorityResolver.resolve_route).
THEOREM RouteSound == RouteSpec => []RouteIsSound
  <1>1. ASSUME RouteInv, NEW c \in Callers, NEW r \in Returned(c)
        PROVE  r.from \in caller[c].stood /\ r.plan = caller[c].plan
    <2>1. PICK w \in RequestSet : w = caller[c] /\ Fits(w, Revisions)
      BY <1>1 DEF RouteInv, RouteTypes
    <2>2. r = w.route \/ (w.phase = "compile" /\ r = w.result)
      BY <1>1, <2>1 DEF Returned
    <2>3. r # NoRoute
      BY <1>1 DEF Returned
    <2>4. w.phase \in {"resolve", "compile"}
      BY <2>1, <2>2, <2>3 DEF Fits, RequestSet
    <2> QED
      BY <2>1, <2>2, <2>4 DEF Fits, HasResult
  <1>2. RouteInv => RouteIsSound
    BY <1>1 DEF RouteIsSound, RoutedInTime, ServedAsAsked
  <1> QED
    BY <1>2, RouteInvariant, PTL

-----------------------------------------------------------------------------
(* ContextDelivery.                                                        *)

ContextSet == [memory : Nat, state : Nat]
AnswerSet == [from : ContextSet, reminder : ContextSet]
HookPlaces ==
  {"idle", "probing", "excusing", "looking", "waiting", "flushing", "recording", "done"}
ServicePlaces ==
  {"none", "asked", "reading", "looking", "composed", "comparing", "current", "revalidated",
   "rechecking", "acking", "answered", "failed"}
HookSet == [at : HookPlaces, turn : AllTurns, answer : AnswerSet]
AskedSet == [at : ServicePlaces, answer : AnswerSet]

Within(x, y) == x.memory <= y.memory /\ x.state <= y.state

\* An answer that may reach the client: of a moment, and with a reminder only
\* if that is of the same revisions and has its receipt.
GoodAnswer(a, seen, told) ==
  /\ a.from # NoContext => a.from \in seen
  /\ a.reminder # NoContext => a.reminder = a.from /\ a.reminder \in told

\* An answer in the making: what was read is at most what is now, and after
\* each check one revision is known to be of a moment.
InTheMaking(r, now, seen) ==
  /\ r.at = "reading" => r.answer.from.memory <= now.memory /\ r.answer.reminder = NoContext
  /\ r.at = "looking" => Within(r.answer.from, now) /\ r.answer.reminder = NoContext
  /\ r.at = "composed" =>
       /\ Within(r.answer.from, now)
       /\ r.answer.reminder # NoContext => /\ Within(r.answer.from, r.answer.reminder)
                                           /\ Within(r.answer.reminder, now)
  /\ r.at = "comparing" =>
       /\ \E m \in seen : m.memory = r.answer.from.memory /\ r.answer.from.state <= m.state
       /\ r.answer.reminder # NoContext =>
            /\ r.answer.reminder.memory = r.answer.from.memory
            /\ r.answer.from.state <= r.answer.reminder.state
            /\ r.answer.reminder.state <= now.state
  /\ r.at \in {"current", "revalidated", "rechecking", "acking"} =>
       /\ r.answer.from \in seen
       /\ r.answer.reminder # NoContext => r.answer.reminder = r.answer.from

\* A hook k and the request r that is made for it.
Fit(k, r, now, seen, told) ==
  /\ r.at \in {"none", "asked", "failed"} => r.answer = NoAnswer
  /\ r.at # "none" => k.answer = NoAnswer /\ k.at \in {"waiting", "done"}
  /\ k.at \notin {"flushing", "recording", "done"} => k.answer = NoAnswer
  /\ k.turn # Bootstrap => r.answer.reminder = NoContext
  /\ r.at \in {"revalidated", "rechecking"} => k.turn # Bootstrap
  /\ r.at \in {"looking", "acking"} => k.turn = Bootstrap
  /\ InTheMaking(r, now, seen)
  /\ r.at = "answered" => GoodAnswer(r.answer, seen, told)
  /\ GoodAnswer(k.answer, seen, told)

\* The reminder a hook has been given, or will be given with its answer.
Given(k, r) == IF r.at = "answered" THEN r.answer.reminder ELSE k.answer.reminder

ContextInv ==
  /\ memory \in Nat /\ state \in Nat /\ moments \subseteq ContextSet
  /\ hook \in [Hooks -> HookSet] /\ request \in [Hooks -> AskedSet]
  /\ Current \in moments /\ \A m \in moments : Within(m, Current)
  /\ \A h \in Hooks : Fit(hook[h], request[h], Current, moments, acked)
  /\ \A g, h \in Hooks : g # h /\ Given(hook[g], request[g]) = Given(hook[h], request[h])
                           => Given(hook[h], request[h]) = NoContext

\* A turn is owed to its receipt once it is emitted, until the receipt is
\* written or lost.
Owed(t) ==
  \/ handed[t] = "EMITTED"
  \/ \E h \in Hooks : hook[h].at = "recording" /\ hook[h].turn = t /\ hook[h].answer.from # NoContext

Busy(h) == hook[h].at \notin {"idle", "done"}

ReceiptInv ==
  /\ hook \in [Hooks -> HookSet]
  /\ handed \in [AllTurns -> {"NONE", "NOT_COMPILED", "EMITTED"}]
  /\ emitted \in [AllTurns -> Nat] /\ torn \in [AllTurns -> Nat]
  /\ \A g, h \in Hooks : Busy(g) /\ Busy(h) => g = h
  /\ \A h \in Hooks : hook[h].at \in {"waiting", "flushing"} => handed[hook[h].turn] # "EMITTED"
  /\ \A t \in AllTurns : emitted[t] <= torn[t] + 1 /\ (~Owed(t) => emitted[t] <= torn[t])

DeliveryInv == ContextInv /\ ReceiptInv

LEMMA NoAnswerType ==
  /\ NoAnswer \in AnswerSet /\ NoContext \in ContextSet
  /\ NoAnswer.from = NoContext /\ NoAnswer.reminder = NoContext
  BY DEF NoAnswer, NoContext, AnswerSet, ContextSet

LEMMA CurrentType ==
  ASSUME memory \in Nat, state \in Nat
  PROVE  Current \in ContextSet /\ Current.memory = memory /\ Current.state = state
  BY DEF Current, ContextSet

\* What fits goes on to fit while the stores grow and reminders are given.
LEMMA FitStays ==
  ASSUME NEW k \in HookSet, NEW r \in AskedSet, NEW now \in ContextSet, NEW later \in ContextSet,
         NEW seen, NEW more, NEW told, NEW totell,
         Fit(k, r, now, seen, told), Within(now, later), seen \subseteq more, told \subseteq totell
  PROVE  Fit(k, r, later, more, totell)
  <1>1. GoodAnswer(k.answer, more, totell)
    BY DEF Fit, GoodAnswer
  <1>2. r.at = "answered" => GoodAnswer(r.answer, more, totell)
    BY DEF Fit, GoodAnswer
  <1>3. InTheMaking(r, later, more)
    BY DEF Fit, InTheMaking, Within, AskedSet, AnswerSet, ContextSet
  <1> QED
    BY <1>1, <1>2, <1>3 DEF Fit

\* A step of one hook, of its request, or of both.
LEMMA OneHookMoves ==
  ASSUME ContextInv, NEW h \in Hooks, NEW k \in HookSet, NEW r \in AskedSet,
         hook' = [hook EXCEPT ![h] = k], request' = [request EXCEPT ![h] = r],
         UNCHANGED <<memory, state, moments>>, acked \subseteq acked',
         Fit(k, r, Current, moments, acked'),
         Given(k, r) \in {Given(hook[h], request[h]), NoContext} \/ Given(k, r) \notin acked
  PROVE  ContextInv'
  <1>1. Current' = Current
    BY DEF Current
  <1>2. \A g \in Hooks : /\ hook'[g] = IF g = h THEN k ELSE hook[g]
                         /\ request'[g] = IF g = h THEN r ELSE request[g]
    BY DEF ContextInv
  <1>3. \A g \in Hooks : Fit(hook'[g], request'[g], Current, moments, acked')
    <2> SUFFICES ASSUME NEW g \in Hooks  PROVE Fit(hook'[g], request'[g], Current, moments, acked')
      OBVIOUS
    <2>1. CASE g = h
      BY <1>2, <2>1
    <2>2. CASE g # h
      <3>1. Current \in ContextSet /\ Within(Current, Current)
        BY CurrentType DEF ContextInv, Within, ContextSet
      <3>2. Fit(hook[g], request[g], Current, moments, acked)
            /\ hook[g] \in HookSet /\ request[g] \in AskedSet
        BY DEF ContextInv
      <3>3. Fit(hook[g], request[g], Current, moments, acked')
        BY <3>1, <3>2, FitStays
      <3> QED
        BY <1>2, <2>2, <3>3
    <2> QED
      BY <2>1, <2>2
  <1>4. \A g \in Hooks : Given(hook[g], request[g]) \in acked \union {NoContext}
    BY DEF ContextInv, Fit, GoodAnswer, Given
  <1>5. ASSUME NEW g \in Hooks, NEW e \in Hooks, g # e,
               Given(hook'[g], request'[g]) = Given(hook'[e], request'[e])
        PROVE  Given(hook'[e], request'[e]) = NoContext
    <2>1. \A d \in Hooks : d # h => Given(hook'[d], request'[d]) = Given(hook[d], request[d])
      BY <1>2
    <2>2. Given(hook'[h], request'[h]) = Given(k, r)
      BY <1>2
    <2> QED
      BY <1>4, <1>5, <2>1, <2>2 DEF ContextInv
  <1> QED
    BY <1>1, <1>3, <1>5 DEF ContextInv

\* The hook goes on by itself.
LEMMA HookAlone ==
  ASSUME ContextInv, NEW h \in Hooks, NEW k \in HookSet, hook' = [hook EXCEPT ![h] = k],
         UNCHANGED <<memory, state, moments, acked, request>>,
         k.answer \in {hook[h].answer, NoAnswer},
         k.at \notin {"flushing", "recording", "done"} => k.answer = NoAnswer,
         request[h].at # "none" => k.at \in {"waiting", "done"} /\ k.turn = hook[h].turn
  PROVE  ContextInv'
  <1>1. PICK r \in AskedSet : /\ r = request[h] /\ Fit(hook[h], r, Current, moments, acked)
                              /\ request' = [request EXCEPT ![h] = r]
    BY DEF ContextInv
  <1>2. GoodAnswer(k.answer, moments, acked)
    BY <1>1, NoAnswerType DEF Fit, GoodAnswer
  <1>3. Fit(k, r, Current, moments, acked)
    BY <1>1, <1>2, NoAnswerType DEF Fit
  <1>4. Given(k, r) \in {Given(hook[h], r), NoContext}
    BY NoAnswerType DEF Given
  <1> QED
    BY <1>1, <1>3, <1>4, OneHookMoves

\* The service goes on by itself; nothing is answered that was not good.
LEMMA ServiceAlone ==
  ASSUME ContextInv, NEW h \in Hooks, NEW r \in AskedSet, request' = [request EXCEPT ![h] = r],
         UNCHANGED <<memory, state, moments, hook>>, acked \subseteq acked',
         request[h].at \notin {"none", "answered"},
         Fit(hook[h], r, Current, moments, acked'),
         r.at = "answered" => r.answer.reminder = NoContext \/ r.answer.reminder \notin acked
  PROVE  ContextInv'
  <1>1. PICK k \in HookSet : /\ k = hook[h] /\ Fit(k, request[h], Current, moments, acked)
                             /\ hook' = [hook EXCEPT ![h] = k]
    BY DEF ContextInv
  <1>2. k.answer.reminder = NoContext
    BY <1>1, NoAnswerType DEF Fit
  <1>3. Given(k, r) = NoContext \/ Given(k, r) \notin acked
    BY <1>2 DEF Given
  <1> QED
    BY <1>1, <1>3, OneHookMoves

LEMMA HookMoves ==
  ASSUME ContextInv, NEW h \in Hooks,
         \/ \E t \in AllTurns : HookStarts(h, t)
         \/ LockTimesOut(h) \/ Probes(h) \/ Excuses(h) \/ WaitsTooLong(h)
         \/ Flushes(h) \/ RecordsDelivery(h) \/ HookDies(h)
  PROVE  ContextInv'
  <1>1. PICK k \in HookSet : k = hook[h] /\ Fit(k, request[h], Current, moments, acked)
    BY DEF ContextInv
  <1>2. Bootstrap \in AllTurns
    BY DEF AllTurns
  <1>3. ASSUME NEW at \in HookPlaces, NEW turn \in AllTurns,
               hook' = [hook EXCEPT ![h] = [IdleHook EXCEPT !.turn = turn, !.at = at]],
               request[h].at # "none" => at = "done" /\ turn = k.turn,
               UNCHANGED <<memory, state, moments, acked, request>>
        PROVE  ContextInv'
    <2>1. PICK v : v = [IdleHook EXCEPT !.turn = turn, !.at = at]
      OBVIOUS
    <2>2. v = [at |-> at, turn |-> turn, answer |-> NoAnswer]
      BY <2>1 DEF IdleHook
    <2>3. v \in HookSet
      BY <2>2, NoAnswerType DEF HookSet
    <2> QED
      BY <1>1, <1>3, <2>1, <2>2, <2>3, HookAlone
  <1>4. ASSUME NEW at \in HookPlaces, hook' = [hook EXCEPT ![h] = [k EXCEPT !.at = at]],
               at \notin {"flushing", "recording", "done"} => k.answer = NoAnswer,
               request[h].at # "none" => at \in {"waiting", "done"},
               UNCHANGED <<memory, state, moments, acked, request>>
        PROVE  ContextInv'
    <2>1. PICK v : v = [k EXCEPT !.at = at]
      OBVIOUS
    <2>2. v.at = at /\ v.turn = k.turn /\ v.answer = k.answer /\ v \in HookSet
      BY <2>1 DEF HookSet
    <2> QED
      BY <1>1, <1>4, <2>1, <2>2, HookAlone
  <1> USE DEF HookPlaces
  <1>5. ASSUME NEW t \in AllTurns, HookStarts(h, t)  PROVE ContextInv'
    <2>1. PICK at \in {"done", "probing"} :
            hook' = [hook EXCEPT ![h] = [IdleHook EXCEPT !.turn = t, !.at = at]]
      BY <1>5 DEF HookStarts, HookDoes
    <2>2. request[h].at = "none"
      BY <1>1, <1>5 DEF HookStarts, Fit
    <2> QED
      BY <1>3, <1>5, <2>1, <2>2 DEF HookStarts, sources
  <1>6. CASE LockTimesOut(h)
    <2>1. PICK v : v = [IdleHook EXCEPT !.at = "done"]
      OBVIOUS
    <2>2. v = [at |-> "done", turn |-> Bootstrap, answer |-> NoAnswer]
      BY <2>1 DEF IdleHook
    <2>3. v \in HookSet
      BY <1>2, <2>2, NoAnswerType DEF HookSet
    <2>4. hook' = [hook EXCEPT ![h] = v]
      BY <1>6, <2>1 DEF LockTimesOut, HookDoes
    <2>5. request[h].at = "none"
      BY <1>1, <1>6 DEF LockTimesOut, Fit
    <2> QED
      BY <1>6, <2>2, <2>3, <2>4, <2>5, HookAlone DEF LockTimesOut, sources
  <1>7. ASSUME HookDoes(h, Done(h)), UNCHANGED <<memory, state, moments, acked, request>>
        PROVE  ContextInv'
    <2>1. k.turn \in AllTurns
      BY DEF HookSet
    <2>2. hook' = [hook EXCEPT ![h] = [IdleHook EXCEPT !.turn = k.turn, !.at = "done"]]
      BY <1>1, <1>7 DEF HookDoes, Done, IdleHook
    <2> QED
      BY <1>3, <1>7, <2>1, <2>2
  <1>8. CASE Probes(h)
    <2>1. request[h].at = "none" /\ k.answer = NoAnswer
      BY <1>1, <1>8 DEF Probes, Fit
    <2>2. CASE HookDoes(h, Done(h))
      BY <1>7, <1>8, <2>2 DEF Probes, sources
    <2>3. CASE ~HookDoes(h, Done(h))
      <3>1. PICK at \in {"looking", "excusing"} : hook' = [hook EXCEPT ![h] = [k EXCEPT !.at = at]]
        BY <1>1, <1>8, <2>3 DEF Probes, HookDoes
      <3> QED
        BY <1>4, <1>8, <2>1, <3>1 DEF Probes, sources
    <2> QED
      BY <2>2, <2>3
  <1>9. CASE Excuses(h) \/ WaitsTooLong(h)
    BY <1>7, <1>9 DEF Excuses, WaitsTooLong, sources
  <1>10. CASE Flushes(h)
    <2>1. request[h].at = "none"
      BY <1>1, <1>10 DEF Flushes, Fit
    <2> QED
      BY <1>1, <1>4, <1>10, <2>1 DEF Flushes, HookDoes, sources
  <1>11. CASE RecordsDelivery(h) \/ HookDies(h)
    BY <1>1, <1>4, <1>11 DEF RecordsDelivery, HookDies, HookDoes, sources
  <1> QED
    BY <1>5, <1>6, <1>8, <1>9, <1>10, <1>11

LEMMA HookMeetsService ==
  ASSUME ContextInv, NEW h \in Hooks, Asks(h) \/ Answered(h) \/ RequestFails(h)
  PROVE  ContextInv'
  <1>1. PICK k \in HookSet, r \in AskedSet :
          k = hook[h] /\ r = request[h] /\ Fit(k, r, Current, moments, acked)
    BY DEF ContextInv
  <1>2. UNCHANGED <<memory, state, moments, acked>>
    BY DEF Asks, Answered, RequestFails, sources
  <1>3. CASE Asks(h)
    <2>1. r.at = "none" /\ r.answer = NoAnswer /\ k.answer = NoAnswer
      BY <1>1, <1>3 DEF Asks, Fit
    <2>2. CASE HookDoes(h, Done(h)) /\ UNCHANGED request
      <3>1. PICK v : v = Done(h)
        OBVIOUS
      <3>2. v = [at |-> "done", turn |-> k.turn, answer |-> NoAnswer]
        BY <1>1, <3>1 DEF Done, IdleHook
      <3>3. v \in HookSet
        BY <3>2, NoAnswerType DEF HookSet, HookPlaces
      <3> QED
        BY <1>1, <1>2, <2>1, <2>2, <3>1, <3>2, <3>3, HookAlone DEF HookDoes
    <2>3. CASE ~(HookDoes(h, Done(h)) /\ UNCHANGED request)
      <3>1. PICK v : v = [k EXCEPT !.at = "waiting"]
        OBVIOUS
      <3>2. PICK q : q = [r EXCEPT !.at = "asked"]
        OBVIOUS
      <3>3. hook' = [hook EXCEPT ![h] = v] /\ request' = [request EXCEPT ![h] = q]
        BY <1>1, <1>3, <2>3, <3>1, <3>2 DEF Asks, HookDoes, ContextInv
      <3>4. /\ v \in HookSet /\ v.at = "waiting" /\ v.answer = NoAnswer /\ v.turn = k.turn
            /\ q \in AskedSet /\ q.at = "asked" /\ q.answer = NoAnswer
        BY <2>1, <3>1, <3>2 DEF HookSet, HookPlaces, AskedSet, ServicePlaces
      <3>5. Fit(v, q, Current, moments, acked)
        BY <3>4, NoAnswerType DEF Fit, InTheMaking, GoodAnswer
      <3>6. Given(v, q) = NoContext
        BY <3>4, NoAnswerType DEF Given
      <3> QED
        BY <1>2, <3>3, <3>4, <3>5, <3>6, OneHookMoves
    <2> QED
      BY <2>2, <2>3
  <1>4. PICK none : none = NothingAsked
    OBVIOUS
  <1>5. none \in AskedSet /\ none.at = "none" /\ none.answer = NoAnswer
    BY <1>4, NoAnswerType DEF NothingAsked, AskedSet, ServicePlaces
  <1>6. CASE Answered(h)
    <2>1. PICK v : v = [k EXCEPT !.at = "flushing", !.answer = r.answer]
      OBVIOUS
    <2>2. hook' = [hook EXCEPT ![h] = v] /\ request' = [request EXCEPT ![h] = none]
      BY <1>1, <1>4, <1>6, <2>1 DEF Answered, HookDoes
    <2>3. /\ v \in HookSet /\ v.at = "flushing" /\ v.answer = r.answer /\ v.turn = k.turn
          /\ r.at = "answered"
      BY <1>1, <1>6, <2>1 DEF Answered, HookSet, HookPlaces, AskedSet
    <2>4. GoodAnswer(v.answer, moments, acked)
      BY <1>1, <2>3 DEF Fit
    <2>5. Fit(v, none, Current, moments, acked)
      BY <1>5, <2>3, <2>4, NoAnswerType DEF Fit, InTheMaking
    <2>6. Given(v, none) = Given(k, r)
      BY <1>5, <2>3 DEF Given
    <2> QED
      BY <1>1, <1>2, <1>5, <2>2, <2>3, <2>5, <2>6, OneHookMoves
  <1>7. CASE RequestFails(h)
    <2>1. PICK v : v = Done(h)
      OBVIOUS
    <2>2. v = [at |-> "done", turn |-> k.turn, answer |-> NoAnswer]
      BY <1>1, <2>1 DEF Done, IdleHook
    <2>3. hook' = [hook EXCEPT ![h] = v] /\ request' = [request EXCEPT ![h] = none]
      BY <1>4, <1>7, <2>1 DEF RequestFails, HookDoes
    <2>4. v \in HookSet /\ v.at = "done" /\ v.answer = NoAnswer
      BY <2>2, NoAnswerType DEF HookSet, HookPlaces
    <2>5. Fit(v, none, Current, moments, acked)
      BY <1>5, <2>4, NoAnswerType DEF Fit, InTheMaking, GoodAnswer
    <2>6. Given(v, none) = NoContext
      BY <1>5, <2>4, NoAnswerType DEF Given
    <2> QED
      BY <1>2, <1>5, <2>3, <2>4, <2>5, <2>6, OneHookMoves
  <1> QED
    BY <1>3, <1>6, <1>7

LEMMA ServiceReads ==
  ASSUME ContextInv, NEW h \in Hooks,
         ReadsMemory(h) \/ ReadsState(h) \/ LooksForReport(h)
  PROVE  ContextInv'
  <1>1. PICK k \in HookSet, r \in AskedSet :
          k = hook[h] /\ r = request[h] /\ Fit(k, r, Current, moments, acked)
    BY DEF ContextInv
  <1>2. UNCHANGED <<memory, state, moments, acked, hook>>
    BY DEF ReadsMemory, ReadsState, LooksForReport, ServiceSide, sources
  <1>3. Current \in ContextSet /\ Current.memory = memory /\ Current.state = state
        /\ Current \in moments
    BY CurrentType DEF ContextInv
  <1>4. r.at \in {"asked", "reading", "looking"}
    BY <1>1 DEF ReadsMemory, ReadsState, LooksForReport
  <1>5. r.answer.reminder = NoContext /\ r.answer.from \in ContextSet
    BY <1>1, <1>4, NoAnswerType DEF Fit, InTheMaking, AskedSet, AnswerSet
  <1>6. CASE AnswersNothing(h)
    <2>1. PICK q : q = [at |-> "answered", answer |-> NoAnswer]
      OBVIOUS
    <2>2. q \in AskedSet /\ q.at = "answered" /\ q.answer = NoAnswer
      BY <2>1, NoAnswerType DEF AskedSet, ServicePlaces
    <2>3. request' = [request EXCEPT ![h] = q]
      BY <1>6, <2>1 DEF AnswersNothing
    <2>4. Fit(k, q, Current, moments, acked)
      BY <1>1, <1>4, <2>2, NoAnswerType DEF Fit, InTheMaking, GoodAnswer
    <2> QED
      BY <1>1, <1>2, <1>4, <2>2, <2>3, <2>4, NoAnswerType, ServiceAlone
  <1>7. CASE ReadsMemory(h) /\ ~AnswersNothing(h)
    <2>1. PICK q : q = [r EXCEPT !.at = "reading", !.answer.from.memory = memory]
      OBVIOUS
    <2>2. request' = [request EXCEPT ![h] = q] /\ r.at = "asked"
      BY <1>1, <1>7, <2>1 DEF ReadsMemory, ContextInv
    <2>3. /\ q \in AskedSet /\ q.at = "reading" /\ q.answer.from.memory = memory
          /\ q.answer.reminder = NoContext
      BY <1>3, <1>5, <2>1 DEF AskedSet, AnswerSet, ContextSet, ServicePlaces
    <2>4. memory <= memory
      BY DEF ContextInv
    <2>5. Fit(k, q, Current, moments, acked)
      BY <1>1, <1>3, <1>4, <2>3, <2>4 DEF Fit, InTheMaking
    <2> QED
      BY <1>1, <1>2, <1>4, <2>2, <2>3, <2>5, ServiceAlone
  <1>8. CASE ReadsState(h)
    <2>1. PICK at : at = IF hook[h].turn = Bootstrap THEN "looking" ELSE "composed"
      OBVIOUS
    <2>2. PICK q : q = [r EXCEPT !.at = at, !.answer.from.state = state]
      OBVIOUS
    <2>3. request' = [request EXCEPT ![h] = q] /\ r.at = "reading"
      BY <1>1, <1>8, <2>1, <2>2 DEF ReadsState, ContextInv
    <2>4. at \in {"looking", "composed"}
      BY <2>1
    <2>5. /\ q \in AskedSet /\ q.at = at /\ q.answer.from.memory = r.answer.from.memory
          /\ q.answer.from.state = state /\ q.answer.reminder = NoContext
      BY <1>3, <1>5, <2>2, <2>4 DEF AskedSet, AnswerSet, ContextSet, ServicePlaces
    <2>6. state <= state /\ r.answer.from.memory <= memory
      BY <1>1, <1>3, <2>3 DEF ContextInv, Fit, InTheMaking
    <2>7. Fit(k, q, Current, moments, acked)
      BY <1>1, <1>3, <1>4, <2>1, <2>4, <2>5, <2>6 DEF Fit, InTheMaking, Within
    <2> QED
      BY <1>1, <1>2, <1>4, <2>3, <2>4, <2>5, <2>7, ServiceAlone
  <1>9. CASE LooksForReport(h)
    <2>1. PICK reminder : reminder = IF Current \in reports \ acked THEN Current ELSE NoContext
      OBVIOUS
    <2>2. PICK q : q = [r EXCEPT !.at = "composed", !.answer.reminder = reminder]
      OBVIOUS
    <2>3. request' = [request EXCEPT ![h] = q] /\ r.at = "looking"
      BY <1>1, <1>9, <2>1, <2>2 DEF LooksForReport, ContextInv
    <2>4. reminder \in ContextSet /\ reminder \in {Current, NoContext}
      BY <1>3, <2>1, NoAnswerType
    <2>5. /\ q \in AskedSet /\ q.at = "composed" /\ q.answer.from = r.answer.from
          /\ q.answer.reminder = reminder
      BY <2>2, <2>4 DEF AskedSet, AnswerSet, ServicePlaces
    <2>6. Within(r.answer.from, Current) /\ Within(Current, Current)
      BY <1>1, <1>3, <2>3 DEF Fit, InTheMaking, Within, ContextSet
    <2>7. k.turn = Bootstrap
      BY <1>1, <2>3 DEF Fit
    <2>8. Fit(k, q, Current, moments, acked)
      BY <1>1, <1>4, <2>4, <2>5, <2>6, <2>7 DEF Fit, InTheMaking
    <2> QED
      BY <1>1, <1>2, <1>4, <2>3, <2>5, <2>8, ServiceAlone
  <1> QED
    BY <1>6, <1>7, <1>8, <1>9

LEMMA ServiceFinds ==
  ASSUME ContextInv, NEW h \in Hooks,
         Checks(h) \/ Revalidates(h) \/ Rechecks(h) \/ Acks(h)
  PROVE  ContextInv'
  <1>1. PICK k \in HookSet, r \in AskedSet :
          k = hook[h] /\ r = request[h] /\ Fit(k, r, Current, moments, acked)
    BY DEF ContextInv
  <1>2. UNCHANGED <<memory, state, moments, hook>>
    BY DEF Checks, Revalidates, Rechecks, Acks, ServiceSide, sources
  <1>3. Current \in ContextSet /\ Current.memory = memory /\ Current.state = state
        /\ Current \in moments /\ \A m \in moments : m \in ContextSet /\ Within(m, Current)
    BY CurrentType DEF ContextInv
  <1>4. r.at \in {"composed", "comparing", "current", "revalidated", "rechecking", "acking"}
    BY <1>1 DEF Checks, Revalidates, Rechecks, Acks
  <1>5. r.answer \in AnswerSet /\ r.answer.from \in ContextSet /\ r.answer.reminder \in ContextSet
    BY DEF AskedSet, AnswerSet
  <1>6. ASSUME NEW at \in {"failed", "answered"}, acked' = acked,
               request' = [request EXCEPT ![h] = [at |-> at, answer |-> NoAnswer]]
        PROVE  ContextInv'
    <2>1. PICK q : q = [at |-> at, answer |-> NoAnswer]
      OBVIOUS
    <2>2. q \in AskedSet /\ q.at = at /\ q.answer = NoAnswer
      BY <2>1, NoAnswerType DEF AskedSet, ServicePlaces
    <2>3. request' = [request EXCEPT ![h] = q]
      BY <1>6, <2>1
    <2>4. Fit(k, q, Current, moments, acked)
      BY <1>1, <1>4, <2>2, NoAnswerType DEF Fit, InTheMaking, GoodAnswer
    <2> QED
      BY <1>1, <1>2, <1>4, <1>6, <2>2, <2>3, <2>4, NoAnswerType, ServiceAlone
  <1>7. ASSUME NEW at \in ServicePlaces, ServiceDoes(h, at), acked' = acked,
               \A q \in AskedSet : q.at = at /\ q.answer = r.answer =>
                 /\ Fit(k, q, Current, moments, acked)
                 /\ at = "answered" => r.answer.reminder = NoContext
        PROVE  ContextInv'
    <2>1. PICK q : q = [r EXCEPT !.at = at]
      OBVIOUS
    <2>2. q \in AskedSet /\ q.at = at /\ q.answer = r.answer
      BY <2>1 DEF AskedSet
    <2>3. request' = [request EXCEPT ![h] = q]
      BY <1>1, <1>7, <2>1 DEF ServiceDoes, ContextInv
    <2> QED
      BY <1>1, <1>2, <1>4, <1>7, <2>2, <2>3, ServiceAlone
  <1>8. CASE Checks(h)
    <2>1. acked' = acked
      BY <1>8 DEF Checks
    <2>2. CASE r.at = "composed" /\ r.answer.from.memory = memory /\ ServiceDoes(h, "comparing")
      <3>1. Within(r.answer.from, Current)
            /\ (r.answer.reminder # NoContext => /\ Within(r.answer.from, r.answer.reminder)
                                                 /\ Within(r.answer.reminder, Current))
        BY <1>1, <2>2 DEF Fit, InTheMaking
      <3>2. r.answer.reminder # NoContext => r.answer.reminder.memory = r.answer.from.memory
        BY <1>3, <1>5, <2>2, <3>1 DEF Within, ContextSet
      <3>3. ASSUME NEW q \in AskedSet, q.at = "comparing", q.answer = r.answer
            PROVE  Fit(k, q, Current, moments, acked)
        BY <1>1, <1>3, <1>4, <2>2, <3>1, <3>2, <3>3 DEF Fit, InTheMaking, Within
      <3> QED
        BY <1>7, <2>1, <2>2, <3>3 DEF ServicePlaces
    <2>3. CASE r.at = "comparing" /\ r.answer.from.state = state /\ ServiceDoes(h, "current")
      <3>1. PICK m \in moments : m.memory = r.answer.from.memory /\ r.answer.from.state <= m.state
        BY <1>1, <2>3 DEF Fit, InTheMaking
      <3>2. m.state = r.answer.from.state
        BY <1>3, <1>5, <2>3, <3>1 DEF Within, ContextSet
      <3>3. m = r.answer.from
        BY <1>3, <1>5, <3>1, <3>2 DEF ContextSet
      <3>4. r.answer.reminder # NoContext => r.answer.reminder = r.answer.from
        <4> SUFFICES ASSUME r.answer.reminder # NoContext  PROVE r.answer.reminder = r.answer.from
          OBVIOUS
        <4>1. /\ r.answer.reminder.memory = r.answer.from.memory
              /\ r.answer.from.state <= r.answer.reminder.state
              /\ r.answer.reminder.state <= state
          BY <1>1, <1>3, <2>3 DEF Fit, InTheMaking
        <4>2. r.answer.reminder.state = r.answer.from.state
          BY <1>5, <2>3, <4>1 DEF ContextSet
        <4> QED
          BY <1>5, <4>1, <4>2 DEF ContextSet
      <3>5. ASSUME NEW q \in AskedSet, q.at = "current", q.answer = r.answer
            PROVE  Fit(k, q, Current, moments, acked)
        BY <1>1, <1>4, <3>1, <3>3, <3>4, <3>5 DEF Fit, InTheMaking
      <3> QED
        BY <1>7, <2>1, <2>3, <3>5 DEF ServicePlaces
    <2> QED
      BY <1>1, <1>6, <1>8, <2>1, <2>2, <2>3 DEF Checks
  <1>9. CASE Revalidates(h)
    <2>1. acked' = acked /\ r.at = "current" /\ r.answer.from \in moments
          /\ (r.answer.reminder # NoContext => r.answer.reminder = r.answer.from)
      BY <1>1, <1>9 DEF Revalidates, Fit, InTheMaking
    <2>2. CASE AnswersNothing(h)
      BY <1>6, <2>1, <2>2 DEF AnswersNothing
    <2>3. CASE ~AnswersNothing(h)
      <3>1. PICK at : at = IF hook[h].turn # Bootstrap THEN "revalidated"
                           ELSE IF request[h].answer.reminder = NoContext THEN "answered" ELSE "acking"
        OBVIOUS
      <3>2. ServiceDoes(h, at)
        BY <1>9, <2>3, <3>1 DEF Revalidates
      <3>3. \/ at = "revalidated" /\ k.turn # Bootstrap
            \/ at = "answered" /\ r.answer.reminder = NoContext /\ k.turn = Bootstrap
            \/ at = "acking" /\ k.turn = Bootstrap
        BY <1>1, <3>1
      <3>4. ASSUME NEW q \in AskedSet, q.at = at, q.answer = r.answer
            PROVE  Fit(k, q, Current, moments, acked)
        BY <1>1, <1>4, <2>1, <3>3, <3>4 DEF Fit, InTheMaking, GoodAnswer
      <3> QED
        BY <1>7, <2>1, <3>2, <3>3, <3>4 DEF ServicePlaces
    <2> QED
      BY <2>2, <2>3
  <1>10. CASE Rechecks(h)
    <2>1. acked' = acked /\ r.at \in {"revalidated", "rechecking"} /\ r.answer.from \in moments
          /\ k.turn # Bootstrap /\ r.answer.reminder = NoContext
      BY <1>1, <1>10 DEF Rechecks, Fit, InTheMaking
    <2>2. ASSUME NEW at \in {"rechecking", "answered"}, ServiceDoes(h, at)  PROVE ContextInv'
      <3>1. ASSUME NEW q \in AskedSet, q.at = at, q.answer = r.answer
            PROVE  Fit(k, q, Current, moments, acked)
        BY <1>1, <1>4, <2>1, <2>2, <3>1 DEF Fit, InTheMaking, GoodAnswer
      <3> QED
        BY <1>7, <2>1, <2>2, <3>1 DEF ServicePlaces
    <2> QED
      BY <1>6, <1>10, <2>1, <2>2 DEF Rechecks, AnswersNothing
  <1>11. CASE Acks(h)
    <2>1. r.at = "acking" /\ r.answer.from \in moments /\ k.turn = Bootstrap
          /\ (r.answer.reminder # NoContext => r.answer.reminder = r.answer.from)
          /\ acked' = acked \union {r.answer.reminder}
      BY <1>1, <1>11 DEF Acks, Fit, InTheMaking
    <2>2. PICK reminder : reminder = IF r.answer.reminder \in acked THEN NoContext
                                     ELSE r.answer.reminder
      OBVIOUS
    <2>3. PICK q : q = [r EXCEPT !.at = "answered", !.answer.reminder = reminder]
      OBVIOUS
    <2>4. request' = [request EXCEPT ![h] = q]
      BY <1>1, <1>11, <2>2, <2>3 DEF Acks, ContextInv
    <2>5. reminder \in ContextSet /\ (reminder # NoContext => /\ reminder = r.answer.reminder
                                                              /\ reminder \notin acked)
      BY <1>5, <2>2, NoAnswerType
    <2>6. /\ q \in AskedSet /\ q.at = "answered" /\ q.answer.from = r.answer.from
          /\ q.answer.reminder = reminder
      BY <2>3, <2>5 DEF AskedSet, AnswerSet, ServicePlaces
    <2>7. GoodAnswer(q.answer, moments, acked')
      BY <2>1, <2>5, <2>6 DEF GoodAnswer
    <2>8. GoodAnswer(k.answer, moments, acked')
      BY <1>1, <2>1 DEF Fit, GoodAnswer
    <2>9. Fit(k, q, Current, moments, acked')
      BY <1>1, <1>4, <2>1, <2>6, <2>7, <2>8 DEF Fit, InTheMaking
    <2> QED
      BY <1>1, <1>2, <1>4, <2>1, <2>4, <2>5, <2>6, <2>9, ServiceAlone
  <1> QED
    BY <1>8, <1>9, <1>10, <1>11

LEMMA StoresMove ==
  ASSUME ContextInv, StoreChanges
  PROVE  ContextInv'
  <1>1. PICK now : now = Current'
    OBVIOUS
  <1>2. /\ memory' \in Nat /\ state' \in Nat /\ memory <= memory' /\ state <= state'
        /\ moments' = moments \union {now}
        /\ UNCHANGED <<hook, request, acked>>
    BY <1>1 DEF StoreChanges, ContextInv
  <1>3. now \in ContextSet /\ now.memory = memory' /\ now.state = state'
    BY <1>1, <1>2 DEF Current, ContextSet
  <1>4. Current \in ContextSet /\ Within(Current, now) /\ Within(now, now)
    BY <1>2, <1>3, CurrentType DEF ContextInv, Within
  <1>5. \A m \in moments' : m \in ContextSet /\ Within(m, now)
    BY <1>2, <1>3, <1>4 DEF ContextInv, Within, ContextSet
  <1>6. ASSUME NEW h \in Hooks  PROVE Fit(hook[h], request[h], now, moments', acked)
    <2>1. hook[h] \in HookSet /\ request[h] \in AskedSet
          /\ Fit(hook[h], request[h], Current, moments, acked)
      BY DEF ContextInv
    <2> QED
      BY <1>2, <1>3, <1>4, <2>1, FitStays
  <1> QED
    BY <1>1, <1>2, <1>5, <1>6 DEF ContextInv

LEMMA ServiceLost ==
  ASSUME ContextInv, ServiceStops
  PROVE  ContextInv'
  <1>1. PICK none : none = NothingAsked
    OBVIOUS
  <1>2. none \in AskedSet /\ none.at = "none" /\ none.answer = NoAnswer
    BY <1>1, NoAnswerType DEF NothingAsked, AskedSet, ServicePlaces
  <1>3. UNCHANGED <<memory, state, moments, hook, acked>> /\ request' = [h \in Hooks |-> none]
    BY <1>1 DEF ServiceStops, sources
  <1>4. Current' = Current
    BY <1>3 DEF Current
  <1>5. \A h \in Hooks : Fit(hook[h], none, Current, moments, acked)
    BY <1>2, NoAnswerType DEF ContextInv, Fit, InTheMaking
  <1>6. \A h \in Hooks : Given(hook[h], none) \in {Given(hook[h], request[h]), NoContext}
    BY <1>2, NoAnswerType DEF ContextInv, Fit, Given
  <1>7. ASSUME NEW g \in Hooks, NEW h \in Hooks, g # h, Given(hook[g], none) = Given(hook[h], none)
        PROVE  Given(hook[h], none) = NoContext
    BY <1>6, <1>7 DEF ContextInv
  <1> QED
    BY <1>2, <1>3, <1>4, <1>5, <1>7 DEF ContextInv

LEMMA ContextStep ==
  ASSUME ContextInv, [ContextNext]_contextVars
  PROVE  ContextInv'
  <1>1. CASE UNCHANGED contextVars \/ OwnerChanges \/ ServiceStarts
    BY <1>1 DEF contextVars, OwnerChanges, ServiceStarts, sources, ContextInv, Current
  <1> QED
    BY <1>1, HookMoves, HookMeetsService, ServiceReads, ServiceFinds, StoresMove, ServiceLost
       DEF ContextNext

\* A step of one hook: only one is busy at a time, so what it does to the
\* receipts disturbs no other.
LEMMA HookAccounts ==
  ASSUME ReceiptInv, NEW h \in Hooks, NEW k \in HookSet, hook' = [hook EXCEPT ![h] = k],
         handed' \in [AllTurns -> {"NONE", "NOT_COMPILED", "EMITTED"}],
         emitted' \in [AllTurns -> Nat], torn' \in [AllTurns -> Nat],
         Busy(h) \/ (handed' = handed /\ (k.at \in {"idle", "done"} \/ ~SessionLocked)),
         k.at \in {"waiting", "flushing"} => handed'[k.turn] # "EMITTED",
         \A t \in AllTurns : emitted'[t] <= torn'[t] + 1 /\ (~Owed(t)' => emitted'[t] <= torn'[t])
  PROVE  ReceiptInv'
  <1>1. \A g \in Hooks : hook'[g] = IF g = h THEN k ELSE hook[g]
    BY DEF ReceiptInv
  <1>2. ASSUME NEW g \in Hooks, NEW e \in Hooks, Busy(g)', Busy(e)'  PROVE g = e
    <2>1. CASE Busy(h)
      BY <1>1, <1>2, <2>1 DEF ReceiptInv, Busy
    <2>2. CASE ~Busy(h)
      BY <1>1, <1>2, <2>2 DEF ReceiptInv, Busy, SessionLocked
    <2> QED
      BY <2>1, <2>2
  <1>3. ASSUME NEW g \in Hooks, hook'[g].at \in {"waiting", "flushing"}
        PROVE  handed'[hook'[g].turn] # "EMITTED"
    <2>1. CASE g = h
      BY <1>1, <1>3, <2>1
    <2>2. CASE g # h
      <3>1. hook'[g] = hook[g] /\ Busy(g)
        BY <1>1, <1>3, <2>2 DEF Busy
      <3>2. handed' = handed
        BY <2>2, <3>1 DEF ReceiptInv
      <3> QED
        BY <1>3, <3>1, <3>2 DEF ReceiptInv
    <2> QED
      BY <2>1, <2>2
  <1> QED
    BY <1>1, <1>2, <1>3 DEF ReceiptInv

\* A step that neither emits nor records.
LEMMA HookBetween ==
  ASSUME ReceiptInv, NEW h \in Hooks, NEW k \in HookSet, hook' = [hook EXCEPT ![h] = k],
         UNCHANGED <<handed, emitted, torn>>,
         Busy(h) \/ k.at \in {"idle", "done"} \/ ~SessionLocked,
         k.at \in {"waiting", "flushing"} => handed[k.turn] # "EMITTED",
         hook[h].at # "recording" \/ hook[h].answer.from = NoContext
  PROVE  ReceiptInv'
  <1>1. \A g \in Hooks : hook'[g] = IF g = h THEN k ELSE hook[g]
    BY DEF ReceiptInv
  <1>2. ASSUME NEW t \in AllTurns  PROVE Owed(t) => Owed(t)'
    BY <1>1 DEF Owed
  <1>3. \A t \in AllTurns : emitted'[t] <= torn'[t] + 1 /\ (~Owed(t)' => emitted'[t] <= torn'[t])
    BY <1>2 DEF ReceiptInv
  <1> QED
    BY <1>3, HookAccounts DEF ReceiptInv

LEMMA DoneType ==
  ASSUME ReceiptInv, NEW h \in Hooks, HookDoes(h, Done(h))
  PROVE  \E k \in HookSet : k.at = "done" /\ hook' = [hook EXCEPT ![h] = k]
                            /\ k.answer = NoAnswer
  <1>1. PICK v : v = Done(h)
    OBVIOUS
  <1>2. v = [at |-> "done", turn |-> hook[h].turn, answer |-> NoAnswer]
    BY <1>1 DEF Done, IdleHook
  <1>3. v \in HookSet
    BY <1>2, NoAnswerType DEF ReceiptInv, HookSet, HookPlaces
  <1>4. hook' = [hook EXCEPT ![h] = v] /\ v.at = "done" /\ v.answer = NoAnswer
    BY <1>1, <1>2 DEF HookDoes
  <1> QED
    BY <1>3, <1>4

LEMMA HookType ==
  ASSUME DeliveryInv, NEW h \in Hooks
  PROVE  hook[h] \in HookSet /\ ReceiptInv
  BY DEF DeliveryInv, ReceiptInv

LEMMA AsksStep ==
  ASSUME DeliveryInv, NEW h \in Hooks,
         \/ \E t \in AllTurns : HookStarts(h, t)
         \/ LockTimesOut(h) \/ Probes(h) \/ Asks(h) \/ Answered(h) \/ WaitsTooLong(h)
         \/ RequestFails(h)
  PROVE  ReceiptInv'
  <1>0. hook[h] \in HookSet
    BY HookType
  <1>1. PICK k \in HookSet : k = hook[h]
    BY <1>0
  <1>2. UNCHANGED <<handed, emitted, torn>> /\ k.at # "recording" /\ ReceiptInv
    BY <1>1 DEF HookStarts, LockTimesOut, Probes, Asks, Answered, WaitsTooLong, RequestFails,
       emissions, DeliveryInv
  <1>3. CASE HookDoes(h, Done(h))
    BY <1>1, <1>2, <1>3, DoneType, HookBetween
  <1>4. ASSUME NEW at \in HookPlaces, NEW turn \in AllTurns,
               hook' = [hook EXCEPT ![h] = [IdleHook EXCEPT !.turn = turn, !.at = at]],
               at = "done" \/ (at = "probing" /\ ~SessionLocked)
        PROVE  ReceiptInv'
    <2>1. PICK v : v = [IdleHook EXCEPT !.turn = turn, !.at = at]
      OBVIOUS
    <2>2. v = [at |-> at, turn |-> turn, answer |-> NoAnswer]
      BY <2>1 DEF IdleHook
    <2>3. v \in HookSet
      BY <2>2, NoAnswerType DEF HookSet
    <2> QED
      BY <1>1, <1>2, <1>4, <2>1, <2>2, <2>3, HookBetween
  <1>5. ASSUME NEW at \in {"looking", "excusing", "waiting"}, NEW answer \in AnswerSet,
               hook' = [hook EXCEPT ![h] = [k EXCEPT !.at = at]], k.at \in {"probing", "looking"},
               at = "waiting" => handed[k.turn] # "EMITTED"
        PROVE  ReceiptInv'
    <2>1. PICK v : v = [k EXCEPT !.at = at]
      OBVIOUS
    <2>2. v.at = at /\ v.turn = k.turn /\ v \in HookSet
      BY <2>1 DEF HookSet, HookPlaces
    <2>3. Busy(h)
      BY <1>1, <1>5 DEF Busy
    <2> QED
      BY <1>1, <1>2, <1>5, <2>1, <2>2, <2>3, HookBetween
  <1>6. NoAnswer \in AnswerSet /\ Bootstrap \in AllTurns
    BY NoAnswerType DEF AllTurns
  <1>7. ASSUME NEW t \in AllTurns, HookStarts(h, t)  PROVE ReceiptInv'
    <2>1. PICK at \in {"done", "probing"} :
            hook' = [hook EXCEPT ![h] = [IdleHook EXCEPT !.turn = t, !.at = at]]
      BY <1>7 DEF HookStarts, HookDoes
    <2> QED
      BY <1>4, <1>7, <2>1 DEF HookStarts, HookPlaces
  <1>8. CASE LockTimesOut(h)
    <2>1. PICK v : v = [IdleHook EXCEPT !.at = "done"]
      OBVIOUS
    <2>2. v = [at |-> "done", turn |-> Bootstrap, answer |-> NoAnswer]
      BY <2>1 DEF IdleHook
    <2>3. v \in HookSet
      BY <1>6, <2>2 DEF HookSet, HookPlaces
    <2>4. hook' = [hook EXCEPT ![h] = v]
      BY <1>8, <2>1 DEF LockTimesOut, HookDoes
    <2> QED
      BY <1>1, <1>2, <2>2, <2>3, <2>4, HookBetween
  <1>9. CASE Probes(h) /\ ~HookDoes(h, Done(h))
    <2>1. PICK at \in {"looking", "excusing"} : hook' = [hook EXCEPT ![h] = [k EXCEPT !.at = at]]
      BY <1>1, <1>9 DEF Probes, HookDoes
    <2>2. k.at = "probing"
      BY <1>1, <1>9 DEF Probes
    <2> QED
      BY <1>5, <1>6, <2>1, <2>2
  <1>10. CASE Asks(h) /\ ~HookDoes(h, Done(h))
    <2>1. /\ hook' = [hook EXCEPT ![h] = [k EXCEPT !.at = "waiting"]]
          /\ k.at = "looking" /\ handed[k.turn] # "EMITTED"
      BY <1>1, <1>10 DEF Asks, HookDoes
    <2> QED
      BY <1>5, <1>6, <2>1
  <1>11. CASE Answered(h)
    <2>1. PICK v : v = [k EXCEPT !.at = "flushing", !.answer = request[h].answer]
      OBVIOUS
    <2>2. hook' = [hook EXCEPT ![h] = v] /\ k.at = "waiting" /\ request[h].answer \in AnswerSet
      BY <1>1, <1>11, <2>1 DEF Answered, HookDoes, DeliveryInv, ContextInv, AskedSet
    <2>3. v.at = "flushing" /\ v.turn = k.turn /\ v \in HookSet
      BY <2>1, <2>2 DEF HookSet, HookPlaces
    <2>4. Busy(h) /\ handed[k.turn] # "EMITTED"
      BY <1>1, <1>2, <2>2 DEF Busy, ReceiptInv
    <2> QED
      BY <1>1, <1>2, <2>2, <2>3, <2>4, HookBetween
  <1> QED
    BY <1>3, <1>7, <1>8, <1>9, <1>10, <1>11 DEF WaitsTooLong, RequestFails

LEMMA HookGives ==
  ASSUME DeliveryInv, NEW h \in Hooks,
         Excuses(h) \/ Flushes(h) \/ RecordsDelivery(h) \/ HookDies(h)
  PROVE  ReceiptInv'
  <1>0. hook[h] \in HookSet /\ ReceiptInv
    BY HookType
  <1>1. PICK k \in HookSet : k = hook[h]
    BY <1>0
  <1>2. PICK t \in AllTurns : t = k.turn
    BY DEF HookSet
  <1>3. Busy(h)
    BY <1>1 DEF Excuses, Flushes, RecordsDelivery, HookDies, Busy
  <1>4. \A g \in Hooks : hook[g].at = "recording" => g = h
    BY <1>0, <1>3 DEF ReceiptInv, Busy
  <1>5. ASSUME NEW u \in AllTurns
        PROVE  /\ emitted[u] \in Nat /\ torn[u] \in Nat /\ emitted[u] <= torn[u] + 1
               /\ ~Owed(u) => emitted[u] <= torn[u]
    BY <1>0 DEF ReceiptInv
  <1>6. CASE Excuses(h)
    <2>1. k.at = "excusing"
      BY <1>1, <1>6 DEF Excuses
    <2>2. PICK v \in HookSet : v.at = "done" /\ hook' = [hook EXCEPT ![h] = v]
      BY <1>0, <1>6, DoneType DEF Excuses
    <2>3. /\ handed' = [handed EXCEPT ![t] = "NOT_COMPILED"] /\ emitted' = emitted
          /\ torn' = IF handed[t] = "EMITTED" THEN [torn EXCEPT ![t] = torn[t] + 1] ELSE torn
      BY <1>1, <1>2, <1>6 DEF Excuses
    <2>4. handed' \in [AllTurns -> {"NONE", "NOT_COMPILED", "EMITTED"}]
          /\ emitted' \in [AllTurns -> Nat] /\ torn' \in [AllTurns -> Nat]
      BY <1>0, <2>3 DEF ReceiptInv
    <2>5. ASSUME NEW u \in AllTurns
          PROVE  emitted'[u] <= torn'[u] + 1 /\ (~Owed(u)' => emitted'[u] <= torn'[u])
      <3>1. ~\E g \in Hooks : hook[g].at = "recording"
        BY <1>1, <1>4, <2>1
      <3>2. CASE u = t /\ handed[t] = "EMITTED"
        <4>1. torn'[u] = torn[u] + 1
          BY <1>0, <2>3, <3>2 DEF ReceiptInv
        <4> QED
          BY <1>5, <2>3, <4>1
      <3>3. CASE u = t /\ handed[t] # "EMITTED"
        <4>1. ~Owed(u)
          BY <3>1, <3>3 DEF Owed
        <4> QED
          BY <1>5, <2>3, <3>3, <4>1
      <3>4. CASE u # t
        <4>1. torn'[u] = torn[u] /\ handed'[u] = handed[u]
          BY <1>0, <2>3, <3>4 DEF ReceiptInv
        <4>2. Owed(u) => Owed(u)'
          BY <3>1, <4>1 DEF Owed
        <4> QED
          BY <1>5, <2>3, <4>1, <4>2
      <3> QED
        BY <3>2, <3>3, <3>4
    <2> QED
      BY <1>0, <1>3, <2>2, <2>4, <2>5, HookAccounts
  <1>7. CASE Flushes(h)
    <2>1. PICK v : v = [k EXCEPT !.at = "recording"]
      OBVIOUS
    <2>2. /\ v.at = "recording" /\ v.turn = t /\ v.answer = k.answer /\ v \in HookSet
          /\ hook' = [hook EXCEPT ![h] = v] /\ k.at = "flushing"
      BY <1>1, <1>2, <1>7, <2>1 DEF Flushes, HookDoes, HookSet, HookPlaces
    <2>3. /\ handed' = handed /\ torn' = torn
          /\ emitted' = IF k.answer.from = NoContext THEN emitted
                        ELSE [emitted EXCEPT ![t] = emitted[t] + 1]
      BY <1>1, <1>2, <1>7 DEF Flushes
    <2>4. emitted' \in [AllTurns -> Nat]
      BY <1>0, <2>3 DEF ReceiptInv
    <2>5. ~Owed(t)
      BY <1>0, <1>1, <1>2, <1>4, <2>2 DEF Owed, ReceiptInv
    <2>6. \A g \in Hooks : hook'[g] = IF g = h THEN v ELSE hook[g]
      BY <1>0, <2>2 DEF ReceiptInv
    <2>7. ASSUME NEW u \in AllTurns
          PROVE  emitted'[u] <= torn'[u] + 1 /\ (~Owed(u)' => emitted'[u] <= torn'[u])
      <3>1. CASE u = t /\ k.answer.from # NoContext
        <4>1. Owed(u)'
          BY <2>2, <2>6, <3>1 DEF Owed
        <4>2. emitted'[u] = emitted[u] + 1
          BY <1>0, <2>3, <3>1 DEF ReceiptInv
        <4> QED
          BY <1>5, <2>3, <2>5, <3>1, <4>1, <4>2
      <3>2. CASE u = t /\ k.answer.from = NoContext
        BY <1>5, <2>3, <2>5, <3>2
      <3>3. CASE u # t
        <4>1. emitted'[u] = emitted[u]
          BY <1>0, <2>3, <3>3 DEF ReceiptInv
        <4>2. Owed(u) => handed[u] = "EMITTED"
          BY <1>1, <1>4, <2>2 DEF Owed
        <4>3. Owed(u) => Owed(u)'
          BY <2>3, <4>2 DEF Owed
        <4> QED
          BY <1>5, <2>3, <4>1, <4>3
      <3> QED
        BY <3>1, <3>2, <3>3
    <2> QED
      BY <1>0, <1>3, <2>2, <2>3, <2>4, <2>7, HookAccounts DEF ReceiptInv
  <1>8. CASE RecordsDelivery(h)
    <2>1. PICK v : v = [k EXCEPT !.at = "done"]
      OBVIOUS
    <2>2. /\ v.at = "done" /\ v \in HookSet /\ hook' = [hook EXCEPT ![h] = v]
          /\ k.at = "recording"
      BY <1>1, <1>8, <2>1 DEF RecordsDelivery, HookDoes, HookSet, HookPlaces
    <2>3. handed' = [handed EXCEPT ![t] = "EMITTED"] /\ emitted' = emitted /\ torn' = torn
      BY <1>1, <1>2, <1>8 DEF RecordsDelivery, emissions
    <2>4. handed' \in [AllTurns -> {"NONE", "NOT_COMPILED", "EMITTED"}]
      BY <1>0, <2>3 DEF ReceiptInv
    <2>5. ASSUME NEW u \in AllTurns
          PROVE  emitted'[u] <= torn'[u] + 1 /\ (~Owed(u)' => emitted'[u] <= torn'[u])
      <3>1. CASE u = t
        <4>1. Owed(u)'
          BY <1>0, <2>3, <3>1 DEF Owed, ReceiptInv
        <4> QED
          BY <1>5, <2>3, <4>1
      <3>2. CASE u # t
        <4>1. Owed(u) => handed[u] = "EMITTED"
          BY <1>1, <1>2, <1>4, <3>2 DEF Owed
        <4>2. Owed(u) => Owed(u)'
          BY <1>0, <2>3, <3>2, <4>1 DEF Owed, ReceiptInv
        <4> QED
          BY <1>5, <2>3, <4>2
      <3> QED
        BY <3>1, <3>2
    <2> QED
      BY <1>0, <1>3, <2>2, <2>3, <2>4, <2>5, HookAccounts DEF ReceiptInv
  <1>9. CASE HookDies(h)
    <2>1. PICK v : v = [k EXCEPT !.at = "done"]
      OBVIOUS
    <2>2. v.at = "done" /\ v \in HookSet /\ hook' = [hook EXCEPT ![h] = v]
      BY <1>1, <1>9, <2>1 DEF HookDies, HookDoes, HookSet, HookPlaces
    <2>3. /\ handed' = handed /\ emitted' = emitted
          /\ torn' = IF k.at = "recording" /\ k.answer.from # NoContext
                     THEN [torn EXCEPT ![t] = torn[t] + 1] ELSE torn
      BY <1>1, <1>2, <1>9 DEF HookDies
    <2>4. CASE k.at = "recording" /\ k.answer.from # NoContext
      <3>1. torn' \in [AllTurns -> Nat] /\ torn' = [torn EXCEPT ![t] = torn[t] + 1]
        BY <1>0, <2>3, <2>4 DEF ReceiptInv
      <3>2. ASSUME NEW u \in AllTurns
            PROVE  emitted'[u] <= torn'[u] + 1 /\ (~Owed(u)' => emitted'[u] <= torn'[u])
        <4>1. CASE u = t
          <5>1. torn'[u] = torn[u] + 1
            BY <1>0, <3>1, <4>1 DEF ReceiptInv
          <5> QED
            BY <1>5, <2>3, <5>1
        <4>2. CASE u # t
          <5>1. torn'[u] = torn[u]
            BY <1>0, <3>1, <4>2 DEF ReceiptInv
          <5>2. Owed(u) => Owed(u)'
            BY <1>1, <1>2, <1>4, <2>3, <4>2 DEF Owed
          <5> QED
            BY <1>5, <2>3, <5>1, <5>2
        <4> QED
          BY <4>1, <4>2
      <3> QED
        BY <1>0, <1>3, <2>2, <2>3, <3>1, <3>2, HookAccounts DEF ReceiptInv
    <2>5. CASE ~(k.at = "recording" /\ k.answer.from # NoContext)
      BY <1>0, <1>1, <1>3, <2>2, <2>3, <2>5, HookBetween
    <2> QED
      BY <2>4, <2>5
  <1> QED
    BY <1>6, <1>7, <1>8, <1>9

LEMMA ServiceOwesNothing ==
  ASSUME ReceiptInv, UNCHANGED <<hook, handed, emitted, torn>>
  PROVE  ReceiptInv'
  BY DEF ReceiptInv, Owed, Busy

LEMMA DeliveryStep ==
  ASSUME DeliveryInv, [ContextNext]_contextVars
  PROVE  DeliveryInv'
  <1>1. ContextInv'
    BY ContextStep DEF DeliveryInv
  <1>2. ReceiptInv'
    <2>1. CASE UNCHANGED contextVars \/ OwnerChanges \/ StoreChanges \/ ServiceStarts \/ ServiceStops
      BY <2>1, ServiceOwesNothing DEF DeliveryInv, contextVars, OwnerChanges, StoreChanges,
         ServiceStarts, ServiceStops, emissions
    <2>2. ASSUME NEW h \in Hooks,
                 \/ ReadsMemory(h) \/ ReadsState(h) \/ LooksForReport(h) \/ Checks(h)
                 \/ Revalidates(h) \/ Rechecks(h) \/ Acks(h)
          PROVE  ReceiptInv'
      BY <2>2, ServiceOwesNothing DEF DeliveryInv, ReadsMemory, ReadsState, LooksForReport, Checks,
         Revalidates, Rechecks, Acks, ServiceSide, emissions
    <2>3. ASSUME NEW h \in Hooks,
                 \/ \E t \in AllTurns : HookStarts(h, t)
                 \/ LockTimesOut(h) \/ Probes(h) \/ Asks(h) \/ Answered(h) \/ WaitsTooLong(h)
                 \/ RequestFails(h)
          PROVE  ReceiptInv'
      BY <2>3, AsksStep, Zenon
    <2>4. ASSUME NEW h \in Hooks, Excuses(h) \/ Flushes(h) \/ RecordsDelivery(h) \/ HookDies(h)
          PROVE  ReceiptInv'
      BY <2>4, HookGives
    <2> QED
      BY <2>1, <2>2, <2>3, <2>4 DEF ContextNext
  <1> QED
    BY <1>1, <1>2 DEF DeliveryInv

LEMMA DeliveryStarts ==
  ASSUME ContextInit
  PROVE  DeliveryInv
  <1>1. Bootstrap \in AllTurns
    BY DEF AllTurns
  <1>2. PICK idle : idle = IdleHook
    OBVIOUS
  <1>3. idle \in HookSet /\ idle.at = "idle" /\ idle.answer = NoAnswer
    BY <1>1, <1>2, NoAnswerType DEF IdleHook, HookSet, HookPlaces
  <1>4. PICK none : none = NothingAsked
    OBVIOUS
  <1>5. none \in AskedSet /\ none.at = "none" /\ none.answer = NoAnswer
    BY <1>4, NoAnswerType DEF NothingAsked, AskedSet, ServicePlaces
  <1>6. /\ memory = 1 /\ state = 1 /\ moments = {Current}
        /\ hook = [h \in Hooks |-> idle] /\ request = [h \in Hooks |-> none]
    BY <1>2, <1>4 DEF ContextInit
  <1>7. Current \in ContextSet /\ Within(Current, Current)
    BY <1>6 DEF Current, ContextSet, Within
  <1>8. Fit(idle, none, Current, moments, acked)
    BY <1>3, <1>5, NoAnswerType DEF Fit, InTheMaking, GoodAnswer
  <1>9. Given(idle, none) = NoContext
    BY <1>3, <1>5, NoAnswerType DEF Given
  <1>10. ContextInv
    BY <1>3, <1>5, <1>6, <1>7, <1>8, <1>9 DEF ContextInv
  <1>11. ReceiptInv
    BY <1>3, <1>6 DEF ReceiptInv, Busy, Owed, ContextInit
  <1> QED
    BY <1>10, <1>11 DEF DeliveryInv

\* What hooks, requests and receipts keep while the stores change, hooks die
\* and the service stops: the invariant behind DeliverySound.
THEOREM DeliveryInvariant == ContextSpec => []DeliveryInv
  BY DeliveryStarts, DeliveryStep, PTL DEF ContextSpec

\* A context that reaches a client is of one moment of the two stores, its
\* reminder is of the same moment and given once, and a turn is given its
\* context again only for a receipt that was lost (hook and main of
\* launcher.py, compile_bootstrap, compile_context, ack_reminder).
THEOREM DeliverySound == ContextSpec => []DeliveryIsSound
  <1>1. ASSUME DeliveryInv  PROVE DeliveryIsSound
    <2>1. ContextIsOfAMoment
      BY <1>1 DEF DeliveryInv, ContextInv, Fit, GoodAnswer, ContextIsOfAMoment
    <2>2. RemindedOnceAndInTime
      <3>1. ASSUME NEW h \in Hooks
            PROVE  (IF request[h].at = "answered" THEN request[h].answer ELSE hook[h].answer).reminder
                     = Given(hook[h], request[h])
        BY DEF Given
      <3>2. ASSUME NEW h \in Hooks
            PROVE  GoodAnswer(IF request[h].at = "answered" THEN request[h].answer ELSE hook[h].answer,
                              moments, acked)
        BY <1>1 DEF DeliveryInv, ContextInv, Fit
      <3>3. ASSUME NEW g \in Hooks, NEW h \in Hooks, g # h,
                   Given(hook[g], request[g]) = Given(hook[h], request[h])
            PROVE  Given(hook[h], request[h]) = NoContext
        BY <1>1, <3>3 DEF DeliveryInv, ContextInv
      <3> QED
        BY <3>1, <3>2, <3>3 DEF RemindedOnceAndInTime, GoodAnswer
    <2>3. EmittedOnce
      BY <1>1 DEF DeliveryInv, ReceiptInv, EmittedOnce
    <2> QED
      BY <2>1, <2>2, <2>3 DEF DeliveryIsSound
  <1> QED
    BY <1>1, DeliveryInvariant, PTL
-----------------------------------------------------------------------------
(* ContextSelection: what a context says.                                  *)

\* What may be said of the records a stage has passed on: judged and in scope,
\* and of a task nothing of the past, nothing secret and no claim twice.
Judgements == {"AUTHORITATIVE", "SUPPORTING", "SUPERSEDED", "HISTORICAL", "INVALID", "UNRESOLVED",
               "IMPLEMENTATION_GAP"}
JudgedInScope == \A i \in candidates : InScope(i) /\ verdict[i] \in Judgements
Chosen ==
  /\ selected \subseteq candidates
  /\ ask.shadow \/ (OnePerGroup(selected) /\ \A i \in selected : Acceptable(i) /\ Readable(i))

\* What each stage may rely on; the context is fit when all have ended, and
\* says nothing before.
StageFits ==
  /\ stage \in {"asked", "retrieved", "resolved", "decided", "selected", "ended"}
  /\ stage \in {"resolved", "decided"} => ~ask.shadow
  /\ stage \in {"resolved", "decided", "selected"} => JudgedInScope
  /\ stage \in {"decided", "selected"} => Chosen
  /\ stage = "selected" /\ ~ask.shadow => missing = Critical \ Covered(selected)
  /\ stage # "ended" => said = {} /\ status = "NONE"
SelectionInv ==
  /\ DOMAIN held \subseteq Nat /\ candidates \subseteq DOMAIN held
  /\ StageFits /\ ContextIsFit

LEMMA NothingSaid ==
  ASSUME said = {}, status \notin {"SUCCESS", "EMPTY"}
  PROVE  ContextIsFit
  BY DEF ContextIsFit, SaidIsFit, CriticalIsSaid, OnePerGroup

\* A stage that stops says nothing and claims nothing.
LEMMA NothingSaidNext ==
  ASSUME said' = {}, status' \notin {"SUCCESS", "EMPTY"}
  PROVE  ContextIsFit'
  BY DEF ContextIsFit, SaidIsFit, CriticalIsSaid, OnePerGroup

LEMMA SelectionStarts == SelectionInit => SelectionInv
  <1> SUFFICES ASSUME SelectionInit  PROVE SelectionInv
    OBVIOUS
  <1>1. DOMAIN held \subseteq Nat
    BY SelectionAssumption DEF SelectionInit, held
  <1>2. ContextIsFit
    BY NothingSaid DEF SelectionInit
  <1> QED
    BY <1>1, <1>2 DEF SelectionInit, SelectionInv, StageFits

LEMMA BestIsPart == ASSUME NEW S, NEW budget, NEW T \in Best(S, budget)  PROVE T \subseteq S
  BY DEF Best

LEMMA RetrievesKeeps == ASSUME SelectionInv, Retrieves  PROVE SelectionInv'
  <1>1. /\ stage' = "retrieved" /\ stage = "asked"
        /\ UNCHANGED <<scenario, verdict, selected, missing, said, status>>
    BY DEF Retrieves
  <1>2. candidates' \subseteq DOMAIN held
    <2>1. PICK F, L : /\ F \subseteq MemoryItems /\ L \subseteq MemoryItems
                      /\ \E T \in Best(F, MaxChosen) : \E G \in Best(L \ F, MaxChosen) :
                           \E S \in Best(StateItems, ask.states) : candidates' = T \union G \union S
      <3> DEFINE strict == {i \in MemoryItems : Allowed(i, FALSE) /\ held[i].hits > 0}
                 sparse == Counted(strict) < StrictMin
                 wide == {i \in MemoryItems : Allowed(i, TRUE)}
                 found == strict
                          \union (IF sparse THEN {i \in wide : held[i].hits > 0 \/ held[i].alias} ELSE {})
                          \union (IF ask.sweep THEN wide ELSE {})
                 linked == IF sparse /\ ask.graph = "fresh" THEN {i \in wide : held[i].linked} ELSE {}
      <3>1. \E T \in Best(found, MaxChosen) : \E G \in Best(linked \ found, MaxChosen) :
              \E S \in Best(StateItems, ask.states) : candidates' = T \union G \union S
        BY DEF Retrieves
      <3>2. found \subseteq MemoryItems /\ linked \subseteq MemoryItems
        OBVIOUS
      <3> QED
        BY <3>1, <3>2
    <2> QED
      BY <2>1, BestIsPart DEF MemoryItems, StateItems
  <1>3. ContextIsFit'
    BY <1>1, NothingSaidNext DEF SelectionInv, StageFits
  <1> QED
    BY <1>1, <1>2, <1>3 DEF SelectionInv, StageFits, held, ask

LEMMA JudgementOf == ASSUME NEW i  PROVE Verdict(i) \in Judgements
  <1>1. Lifecycle(i) \in {"SUPERSEDED", "HISTORICAL", "SUPPORTING"}
    BY DEF Lifecycle
  <1>2. AfterChains(i) \in Judgements
    BY <1>1 DEF AfterChains, Judgements
  <1>3. AfterDuplicates(i) \in Judgements
    BY <1>2 DEF AfterDuplicates, Judgements
  <1> QED
    BY <1>3 DEF Verdict, Judgements

LEMMA ResolvesKeeps == ASSUME SelectionInv, Resolves  PROVE SelectionInv'
  <1>1. stage = "retrieved" /\ UNCHANGED <<scenario, candidates, degraded, missing>>
    BY DEF Resolves
  <1>2. CASE Broken
    <2>1. stage' = "ended" /\ status' = "FAILED" /\ said' = {}
      BY <1>2 DEF Resolves, Stops
    <2>2. ContextIsFit'
      BY <2>1, NothingSaidNext
    <2> QED
      BY <1>1, <2>1, <2>2 DEF SelectionInv, StageFits, held, ask
  <1>3. CASE ~Broken
    <2>1. /\ verdict' = [i \in candidates |-> Verdict(i)]
          /\ stage' = IF ask.shadow THEN "selected" ELSE "resolved"
          /\ selected' = IF ask.shadow THEN candidates ELSE {}
          /\ UNCHANGED <<said, status>>
      BY <1>3 DEF Resolves
    <2>2. \A i \in candidates : InScope(i)
      BY <1>3 DEF Broken
    <2>3. JudgedInScope'
      BY <1>1, <2>1, <2>2, JudgementOf DEF JudgedInScope, InScope, Scope, held, ask
    <2>4. ContextIsFit'
      BY <1>1, <2>1, NothingSaidNext DEF SelectionInv, StageFits
    <2>5. stage' = "selected" => Chosen'
      BY <1>1, <2>1 DEF Chosen, ask
    <2> QED
      BY <1>1, <2>1, <2>3, <2>4, <2>5 DEF SelectionInv, StageFits, held, ask
  <1> QED
    BY <1>2, <1>3

\* What depends on the scenario and the verdicts alone stays as long as they do.
LEMMA StandsStill ==
  ASSUME UNCHANGED <<scenario, candidates, verdict>>
  PROVE  /\ held' = held /\ ask' = ask /\ Critical' = Critical
         /\ JudgedInScope' <=> JudgedInScope
         /\ \A S : OnePerGroup(S)' <=> OnePerGroup(S)
         /\ \A S : Covered(S)' = Covered(S)
         /\ \A i : Acceptable(i)' <=> Acceptable(i)
         /\ \A i : Readable(i)' <=> Readable(i)
  <1>1. held' = held /\ ask' = ask
    BY DEF held, ask
  <1>2. StateItems' = StateItems
    BY <1>1 DEF StateItems, MemoryItems
  <1>3. Needs' = Needs
    BY <1>1, <1>2 DEF Needs, StateRecords
  <1>4. \A i : Matches(i)' = Matches(i)
    BY <1>1, <1>2, <1>3 DEF Matches
  <1>5. \A i : InScope(i)' <=> InScope(i)
    BY <1>1 DEF InScope, Scope
  <1>6. \A i : GroupOf(i)' = GroupOf(i)
    BY <1>1 DEF GroupOf, Scope
  <1> QED
    BY <1>1, <1>3, <1>4, <1>5, <1>6 DEF Critical, Covered, OnePerGroup, JudgedInScope, Acceptable, Readable

LEMMA DecidesKeeps == ASSUME SelectionInv, Decides  PROVE SelectionInv'
  <1>1. /\ stage = "resolved" /\ stage' = "decided"
        /\ UNCHANGED <<scenario, candidates, degraded, verdict, missing, said, status>>
    BY DEF Decides
  <1>2. PICK chosen : /\ chosen \subseteq {i \in candidates : Acceptable(i)}
                      /\ OnePerGroup(chosen) /\ selected' = {i \in chosen : Readable(i)}
    <2> DEFINE acceptable == {i \in candidates : Acceptable(i)}
               relevant == {i \in acceptable : Relevant(i)}
               open(kept) == Critical \ Covered(kept)
               parked(n) == {i \in acceptable \ relevant : n \in Matches(i)}
               fillable(kept) == {n \in open(kept) : parked(n) # {}}
    <2>1. \E kept \in SUBSET relevant : \E best \in [fillable(kept) -> acceptable \ relevant] :
            LET chosen == kept \union {best[n] : n \in fillable(kept)} IN
            OnePerGroup(chosen) /\ selected' = {i \in chosen : Readable(i)}
      BY DEF Decides
    <2>2. PICK kept \in SUBSET relevant : \E best \in [fillable(kept) -> acceptable \ relevant] :
            LET chosen == kept \union {best[n] : n \in fillable(kept)} IN
            OnePerGroup(chosen) /\ selected' = {i \in chosen : Readable(i)}
      BY <2>1
    <2>3. PICK best \in [fillable(kept) -> acceptable \ relevant] :
            LET chosen == kept \union {best[n] : n \in fillable(kept)} IN
            OnePerGroup(chosen) /\ selected' = {i \in chosen : Readable(i)}
      BY <2>2
    <2>4. kept \union {best[n] : n \in fillable(kept)} \subseteq acceptable
      OBVIOUS
    <2> QED
      BY <2>3, <2>4
  <1>3. Chosen'
    <2>1. OnePerGroup(selected') /\ \A i \in selected' : i \in candidates /\ Acceptable(i) /\ Readable(i)
      BY <1>2 DEF OnePerGroup
    <2> QED
      BY <1>1, <2>1, StandsStill DEF Chosen
  <1>4. ContextIsFit'
    BY <1>1, NothingSaidNext DEF SelectionInv, StageFits
  <1> QED
    BY <1>1, <1>3, <1>4, StandsStill DEF SelectionInv, StageFits

LEMMA CondensesKeeps == ASSUME SelectionInv, Condenses  PROVE SelectionInv'
  <1>1. stage = "decided" /\ UNCHANGED <<scenario, candidates, degraded, verdict>>
    BY DEF Condenses
  <1>2. CASE Stops("INSUFFICIENT_BUDGET")
    <2>1. ContextIsFit'
      BY <1>2, NothingSaidNext DEF Stops
    <2> QED
      BY <1>1, <1>2, <2>1, StandsStill DEF SelectionInv, StageFits, Stops
  <1>3. CASE ~Stops("INSUFFICIENT_BUDGET")
    <2> DEFINE mandatory == {i \in selected : Matches(i) \intersect Critical # {}}
    <2>1. /\ stage' = "selected" /\ missing' = Critical \ Covered(selected')
          /\ \E S \in Best(selected \ mandatory, MaxDense - Cardinality(mandatory)) : selected' = mandatory \union S
          /\ UNCHANGED <<said, status>>
      BY <1>3 DEF Condenses
    <2>2. selected' \subseteq selected
      BY <2>1, BestIsPart
    <2>3. Chosen'
      <3>1. Chosen /\ ~ask.shadow
        BY <1>1 DEF SelectionInv, StageFits
      <3> QED
        BY <1>1, <2>2, <3>1, StandsStill DEF Chosen, OnePerGroup
    <2>4. ContextIsFit'
      BY <1>1, <2>1, NothingSaidNext DEF SelectionInv, StageFits
    <2>5. missing' = Critical' \ Covered(selected)'
      BY <1>1, <2>1, StandsStill DEF Covered
    <2> QED
      BY <1>1, <2>1, <2>3, <2>4, <2>5, StandsStill DEF SelectionInv, StageFits
  <1> QED
    BY <1>2, <1>3

-----------------------------------------------------------------------------
(* The compiler says some of what is eligible and all that is mandatory,   *)
(* or nothing.                                                             *)

\* Of two records of one claim one is better.
LEMMA OneIsBetter ==
  ASSUME NEW i \in Nat, NEW j \in Nat, i # j
  PROVE  Better(i, j) \/ Better(j, i)
  <1>1. \A k : StatusRank(k) \in Nat
    BY DEF StatusRank
  <1> QED
    BY <1>1 DEF Better

LEMMA DedupedOnce == ASSUME NEW S \in SUBSET Nat  PROVE OnePerGroup(Deduped(S)) /\ Deduped(S) \subseteq S
  BY OneIsBetter DEF Deduped, OnePerGroup

\* Where no claim is there twice nothing is dropped.
LEMMA DedupedAll ==
  ASSUME NEW S \in SUBSET Nat, OnePerGroup(S)
  PROVE  Deduped(S) = S
  <1>1. \A i \in Nat : ~Better(i, i)
    <2>1. \A k : StatusRank(k) \in Nat
      BY DEF StatusRank
    <2> QED
      BY <2>1 DEF Better
  <1> QED
    BY <1>1 DEF Deduped, OnePerGroup

\* What is said, and under which status.
Says ==
  LET eligible == Deduped({i \in selected : Eligible(i)})
      mandatory == {i \in eligible : Mandatory(i)} IN
  /\ said' \subseteq eligible
  /\ said' # {} => Rendered(said') <= ask.budget
  /\ status' \in {"SUCCESS", "EMPTY"} => missing = {} /\ mandatory \subseteq said'

LEMMA CompilesSays == ASSUME Compiles  PROVE Says /\ stage' = "ended"
  <1> DEFINE eligible == Deduped({i \in selected : Eligible(i)})
             mandatory == {i \in eligible : Mandatory(i)}
             optional == eligible \ mandatory
             fits(O) == ask.base + Cost(mandatory \union O) <= ask.budget /\ Cost(O) <= ask.optional
             plans == {O \in SUBSET optional : fits(O) /\ \A i \in optional \ O : ~fits(O \union {i})}
             outcome(why, S) ==
               /\ stage' = "ended" /\ said' = S
               /\ status' = IF why # "SUCCESS" THEN why
                            ELSE IF missing # {} THEN "DEGRADED"
                            ELSE IF S = {} THEN "EMPTY"
                            ELSE IF degraded THEN "DEGRADED" ELSE "SUCCESS"
             good == \E S \in SUBSET optional : /\ Rendered(mandatory \union S) <= ask.budget
                                                /\ outcome("SUCCESS", mandatory \union S)
             bad == outcome("INSUFFICIENT_BUDGET", {}) \/ outcome("FAILED", {})
  <1>1. good \/ bad
    <2>1. CASE ask.base > ask.budget \/ ask.base + Cost(mandatory) > ask.budget
      BY <2>1 DEF Compiles
    <2>2. CASE ~(ask.base > ask.budget \/ ask.base + Cost(mandatory) > ask.budget)
      <3>1. PICK O \in plans :
              IF O # optional /\ ~ask.omit THEN outcome("INSUFFICIENT_BUDGET", {})
              ELSE IF Rendered(mandatory \union O) <= ask.budget THEN outcome("SUCCESS", mandatory \union O)
              ELSE IF O = {} \/ ~ask.omit \/ (Rendered(mandatory) > ask.budget /\ Cardinality(O) <= MaxRebalance)
                   THEN outcome("INSUFFICIENT_BUDGET", {})
              ELSE IF Rendered(mandatory) > ask.budget THEN outcome("FAILED", {})
              ELSE \E R \in SUBSET O :
                     /\ R # {} /\ Rendered(mandatory \union (O \ R)) <= ask.budget
                     /\ \E i \in R : Rendered(mandatory \union (O \ R) \union {i}) > ask.budget
                     /\ IF Cardinality(R) > MaxRebalance THEN outcome("FAILED", {})
                        ELSE outcome("SUCCESS", mandatory \union (O \ R))
        BY <2>2 DEF Compiles
      <3>2. O \in SUBSET optional
        OBVIOUS
      <3> HIDE DEF optional, mandatory, plans, outcome
      <3>3. \A R : O \ R \in SUBSET optional
        BY <3>2
      <3>4. CASE bad
        BY <3>4
      <3>5. CASE Rendered(mandatory \union O) <= ask.budget /\ outcome("SUCCESS", mandatory \union O)
        BY <3>2, <3>5
      <3>6. ASSUME NEW R, Rendered(mandatory \union (O \ R)) <= ask.budget,
                   outcome("SUCCESS", mandatory \union (O \ R))
            PROVE  good
        BY <3>3, <3>6
      <3> QED
        BY <3>1, <3>4, <3>5, <3>6
    <2> QED
      BY <2>1, <2>2
  <1>2. CASE good
    <2>1. PICK S \in SUBSET optional : /\ Rendered(mandatory \union S) <= ask.budget
                                       /\ outcome("SUCCESS", mandatory \union S)
      BY <1>2
    <2>2. mandatory \union S \subseteq eligible
      OBVIOUS
    <2>3. status' \in {"SUCCESS", "EMPTY"} => missing = {}
      BY <2>1
    <2> HIDE DEF eligible
    <2> QED
      BY <2>1, <2>2, <2>3 DEF Says, eligible
  <1>3. CASE bad
    <2>1. stage' = "ended" /\ said' = {} /\ status' \in {"INSUFFICIENT_BUDGET", "FAILED"}
      BY <1>3
    <2> QED
      BY <2>1 DEF Says
  <1> QED
    BY <1>1, <1>2, <1>3

LEMMA CompilesKeeps == ASSUME SelectionInv, Compiles  PROVE SelectionInv'
  <1> DEFINE eligible == Deduped({i \in selected : Eligible(i)})
             mandatory == {i \in eligible : Mandatory(i)}
  <1>1. /\ stage = "selected" /\ stage' = "ended"
        /\ UNCHANGED <<scenario, candidates, degraded, verdict, selected, missing>>
    BY CompilesSays DEF Compiles
  <1>2. Says
    BY CompilesSays
  <1>3. Chosen /\ JudgedInScope /\ selected \in SUBSET Nat
    BY <1>1 DEF SelectionInv, StageFits, Chosen
  <1>4. OnePerGroup(eligible) /\ \A i \in eligible : i \in selected /\ Eligible(i)
    BY <1>3, DedupedOnce
  <1> HIDE DEF eligible
  <1>5. said' \subseteq eligible
    BY <1>2 DEF Says, eligible
  <1>6. SaidIsFit'
    <2>1. \A i \in said' : /\ InScope(i) /\ ~held[i].secret
                           /\ ask.shadow \/ held[i].status = "active"
      BY <1>3, <1>4, <1>5 DEF Chosen, JudgedInScope, Eligible, Readable, Acceptable
    <2>2. OnePerGroup(said')
      BY <1>4, <1>5 DEF OnePerGroup
    <2>3. said' # {} => ask.base + Cost(said') + ask.framing * Cardinality(said') <= ask.budget
      BY <1>2 DEF Says, Rendered
    <2>4. held' = held /\ ask' = ask
      BY <1>1 DEF held, ask
    <2>5. \A S : Cost(S)' = Cost(S)
      BY <2>4 DEF Cost
    <2> QED
      BY <2>1, <2>2, <2>3, <2>4, <2>5, <1>1, StandsStill DEF SaidIsFit, InScope, Scope
  <1>7. CriticalIsSaid'
    <2> SUFFICES ASSUME ~ask.shadow, status' \in {"SUCCESS", "EMPTY"}, NEW n \in Critical
                 PROVE  n \in Covered(said')
      <3>1. Critical' = Critical /\ ask' = ask /\ Covered(said)' = Covered(said')
        BY <1>1, StandsStill
      <3> QED
        BY <3>1 DEF CriticalIsSaid
    <2>1. PICK i \in selected : n \in Matches(i)
      <3>1. missing = {} /\ missing = Critical \ Covered(selected)
        BY <1>1, <1>2 DEF SelectionInv, StageFits, Says
      <3> QED
        BY <3>1 DEF Covered
    <2>2. \A j \in selected : Eligible(j)
      BY <1>3 DEF Chosen, JudgedInScope, Judgements, Acceptable, Eligible
    <2>3. eligible = selected
      <3>1. {j \in selected : Eligible(j)} = selected
        BY <2>2
      <3> QED
        BY <1>3, <3>1, DedupedAll DEF Chosen, eligible
    <2>4. i \in mandatory
      BY <2>1, <2>3 DEF Mandatory
    <2>5. mandatory \subseteq said'
      BY <1>2 DEF Says, eligible
    <2> QED
      BY <2>1, <2>4, <2>5 DEF Covered
  <1> QED
    BY <1>1, <1>6, <1>7, StandsStill DEF SelectionInv, StageFits, ContextIsFit

\* What each stage of the choice leaves is what the next one relies on.
THEOREM SelectionInvariant == SelectionSpec => []SelectionInv
  <1>1. SelectionInv /\ [SelectionNext]_selectionVars => SelectionInv'
    <2> SUFFICES ASSUME SelectionInv, [SelectionNext]_selectionVars  PROVE SelectionInv'
      OBVIOUS
    <2>1. CASE UNCHANGED selectionVars
      <3>1. ContextIsFit'
        BY <2>1 DEF selectionVars, SelectionInv, ContextIsFit, SaidIsFit, CriticalIsSaid, OnePerGroup, InScope, Scope,
           GroupOf, Cost, Critical, Needs, StateRecords, StateItems, MemoryItems, Covered, Matches, held, ask
      <3> QED
        BY <2>1, <3>1, StandsStill DEF selectionVars, SelectionInv, StageFits, Chosen
    <2> QED
      BY <2>1, RetrievesKeeps, ResolvesKeeps, DecidesKeeps, CondensesKeeps, CompilesKeeps DEF SelectionNext
  <1> QED
    BY <1>1, SelectionStarts, PTL DEF SelectionSpec

\* A context says what is in scope, not secret, of each claim once and within
\* the budget as it is rendered, of a task nothing of the past; and one that is
\* given out as complete covers every critical need (compile_task).
THEOREM SelectionFit == SelectionSpec => []ContextIsFit
  <1>1. SelectionInv => ContextIsFit
    BY DEF SelectionInv
  <1> QED
    BY <1>1, SelectionInvariant, PTL
=============================================================================

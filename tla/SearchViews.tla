----------------------------- MODULE SearchViews -----------------------------
(***************************************************************************)
(* The views derived from the canonical memory and the HTTP service that   *)
(* answers from them: the knowledge graph (extraction/entities.py,         *)
(* graph/projection.py), the cached search results (support/cache.py), the *)
(* index of embeddings (scripts/embedding-generator.py), and the handlers  *)
(* of scripts/search-api.py.                                               *)
(*                                                                         *)
(* A handler awaits nothing, so a server is in one request at a time; but  *)
(* other servers, the worker and the command line write the memory, the    *)
(* shared caches and the graph file between two of its steps.              *)
(***************************************************************************)
EXTENDS Integers, Sequences, SequencesExt, FiniteSets

CONSTANTS Servers,      \* processes that answer requests
          Indexers,     \* processes that embed the memories
          Facts,        \* memories
          Texts,        \* what a memory may say, positive
          Owner,        \* the project a memory is of: "here" or "global"
          Topics,       \* technologies and phases a text mentions
          Matching,     \* texts that share a twentieth of the question's words
          Limit,        \* memories either channel of a search proposes at most
          TopK,         \* results a search returns at most
          CacheSize,    \* entries of a process's own cache
          Life,         \* how long an entry of each of the three levels lives
          MaxCommits    \* bound on writes of the memory

ASSUME ViewsAssumption ==
  /\ IsFiniteSet(Facts) /\ Limit \in Nat /\ TopK \in Nat
  /\ 0 \notin Texts /\ Texts # {} /\ Owner \in [Facts -> {"here", "global"}] /\ CacheSize \in Nat \ {0}
  /\ Life \in [1..3 -> Nat \ {0}] /\ MaxCommits \in Nat

VARIABLES past,       \* the memories after each write, the last one is on disk
          file,       \* the graph file
          graph,      \* the graph each server answers from
          own,        \* level 1 of the cache: of each server, oldest first
          shared,     \* level 2 and level 3 of the cache
          index,      \* the text each saved vector was made of
          vectors,    \* what an indexer holds, and what it had loaded
          provider,   \* each process's embedding provider answers
          registered, \* the project is active in the registry
          request,    \* the request a server is in
          answer,     \* the last answer of each server
          told        \* history: newest revision an answer confirmed

viewVars == <<past, file, graph, own, shared, index, vectors, provider, registered, request, answer, told>>

Scopes == {"default", "project"}
Standings == {"none", "draft", "active", "closed"}
Bodies == [Facts -> [text : Texts \union {0}, status : Standings]]
Nothing == [m \in Facts |-> [text |-> 0, status |-> "none"]]

newest == Len(past)
memories == past[newest]

\* filter_memories: the scopes a request may name.
InScope(m, scope) == Owner[m] = "here" <=> scope = "project"
Eligible(body) == {m \in Facts : body[m].status = "active"}
Corpus(body, scope) == {<<m, body[m]>> : m \in {f \in Facts : body[f].status # "none" /\ InScope(f, scope)}}

NoGraph == [revision |-> 0, nodes |-> {}]
NoResult == [of |-> 0, found |-> {}, age |-> 0]
NoAnswer == [kind |-> "none", scope |-> "default", revision |-> 0, found |-> {}, topics |-> {}, age |-> 0, since |-> 0]
Unasked == [op |-> "none", step |-> "none", scope |-> "default", revision |-> 0, result |-> NoResult, wrote |-> 0, since |-> 0]

Running(s) == graph[s] # NoGraph
At(s, step) == request[s].step = step
\* A request begins; the last answer is no longer of interest.
Begins(s, new) == /\ request' = [request EXCEPT ![s] = [new EXCEPT !.since = told]]
                  /\ answer' = [answer EXCEPT ![s] = NoAnswer]
GoesTo(s, step) == request' = [request EXCEPT ![s].step = step]
Replies(s, kind) == /\ request' = [request EXCEPT ![s] = Unasked]
                    /\ answer' = [answer EXCEPT ![s] = [NoAnswer EXCEPT !.kind = kind, !.since = request[s].since]]

-----------------------------------------------------------------------------
(* The cache: CacheManager over LRUCache, Redis and DiskCache.             *)

\* Bug: the size of the corpus stands for what is in it.
KeyOfSize(revision, scope) == <<scope, Cardinality(Corpus(past[revision], scope))>>

\* The fingerprint of the corpus and its revision are in the key.
Key(revision, scope) == <<scope, revision, Corpus(past[revision], scope)>>
KeyOf(s) == Key(request[s].revision, request[s].scope)

Lives(level, key, result) == [key |-> key, result |-> result, left |-> Life[level]]
Without(entries, key) ==
  LET at == {i \in DOMAIN entries : entries[i].key = key} IN
  IF at = {} THEN entries ELSE RemoveAt(entries, CHOOSE i \in at : TRUE)

\* LRUCache.set: the entry becomes the newest, the oldest ones leave.
Youngest(entries) == LET n == Len(entries) IN SubSeq(entries, 1 + (IF n > CacheSize THEN n - CacheSize ELSE 0), n)
KeepsOwn(s, result) ==
  own' = [own EXCEPT ![s] = Youngest(Append(Without(@, KeyOf(s)), Lives(1, KeyOf(s), result)))]

\* A level that cannot be written is left as it is.
Stored(s, level, result) ==
  {shared, [shared EXCEPT ![level] = {e \in @ : e.key # KeyOf(s)} \union {Lives(level, KeyOf(s), result)}]}

\* Redis forgets what is over, the other levels when it is asked for.
Older(result) == [result EXCEPT !.age = @ + 1]
Ages(e) == IF e.left = 0 THEN e ELSE [e EXCEPT !.left = @ - 1, !.result = Older(@)]
Tick ==
  /\ \E s \in Servers : own[s] # <<>> \/ \E level \in 2..3 : shared[level] # {}
  /\ own' = [s \in Servers |-> [i \in DOMAIN own[s] |-> Ages(own[s][i])]]
  /\ shared' = [shared EXCEPT ![2] = {f \in {Ages(e) : e \in @} : f.left > 0}, ![3] = {Ages(e) : e \in @}]
  /\ UNCHANGED <<past, file, graph, index, vectors, provider, registered, request, answer, told>>

-----------------------------------------------------------------------------
(* POST /search.                                                           *)

\* A request is authorized before anything is loaded; an empty corpus is
\* answered at once.
Search(s, scope) ==
  /\ Running(s) /\ At(s, "none") /\ (scope = "project" => registered)
  /\ Corpus(memories, scope) # {}
  /\ Begins(s, [Unasked EXCEPT !.op = "search", !.step = "cache", !.scope = scope, !.revision = newest])
  /\ UNCHANGED <<past, file, graph, own, shared, index, vectors, provider, registered, told>>

AnswersSearch(s, result) ==
  /\ request' = [request EXCEPT ![s] = Unasked]
  /\ answer' = [answer EXCEPT ![s] = [NoAnswer EXCEPT !.kind = "search", !.scope = request[s].scope,
        !.revision = result.of, !.found = result.found, !.age = result.age, !.since = request[s].since]]

\* The process's own level, then Redis, which may not answer.
LooksUp(s) ==
  /\ At(s, "cache")
  /\ LET key == KeyOf(s)
         mine == {e \in Range(own[s]) : e.key = key /\ e.left > 0}
         theirs == {e \in shared[2] : e.key = key} IN
     \/ \E e \in mine : own' = [own EXCEPT ![s] = Append(Without(@, key), e)] /\ AnswersSearch(s, e.result)
     \/ mine = {} /\ \E e \in theirs : KeepsOwn(s, e.result) /\ AnswersSearch(s, e.result)
     \/ mine = {} /\ own' = [own EXCEPT ![s] = Without(@, key)] /\ GoesTo(s, "disk") /\ UNCHANGED answer
  /\ UNCHANGED <<past, file, graph, shared, index, vectors, provider, registered, told>>

\* Bug: the expiry of a file is not looked at.
NeverOver(s) == {}

\* DiskCache.get: an entry that is over is removed.
Over(s) == {e \in shared[3] : e.key = KeyOf(s) /\ e.left = 0}

LooksOnDisk(s) ==
  /\ At(s, "disk")
  /\ shared' = [shared EXCEPT ![3] = @ \ Over(s)]
  /\ LET hits == {e \in shared[3] \ Over(s) : e.key = KeyOf(s)} IN
     IF hits = {} THEN GoesTo(s, "compute") /\ UNCHANGED own
     ELSE \E e \in hits : KeepsOwn(s, e.result) /\ request' = [request EXCEPT ![s].step = "backfill", ![s].result = e.result]
  /\ UNCHANGED <<past, file, graph, index, vectors, provider, registered, answer, told>>

\* The second level gets what the third had.
Backfills(s) ==
  /\ At(s, "backfill") /\ shared' \in Stored(s, 2, request[s].result) /\ AnswersSearch(s, request[s].result)
  /\ UNCHANGED <<past, file, graph, own, index, vectors, provider, registered, told>>

\* HybridSearchEngine.search: the lexical channel proposes what is active and
\* matches, the semantic one any record of the corpus whose vector is of its text.
Lexical(corpus) ==
  {c[1] : c \in {d \in corpus : d[2].status \in {"active", "draft"} /\ d[2].text \in Matching}}
Semantic(corpus) == {c[1] : c \in {d \in corpus : index[d[1]] = d[2].text}}

\* Bug: one fewer than there is room for.
BestButOne(found, most) ==
  {best \in SUBSET found : IF Cardinality(found) < most THEN best = found ELSE Cardinality(best) = most - 1}

\* The first of them by some score.
Best(found, most) ==
  {best \in SUBSET found : IF Cardinality(found) <= most THEN best = found ELSE Cardinality(best) = most}

\* Each channel keeps its best, and so does what they found together: a closed
\* memory with a vector may take the place of an active one.  The provider may
\* fail now, and has then failed for good.
Computes(s) ==
  /\ At(s, "compute")
  /\ \E works \in {provider[s], FALSE} :
     LET corpus == Corpus(past[request[s].revision], request[s].scope) IN
     \E lexical \in Best(Lexical(corpus), Limit),
        semantic \in Best(IF works THEN Semantic(corpus) ELSE {}, Limit) :
     \E found \in Best(lexical \union semantic, TopK) :
     LET result == [of |-> request[s].revision, age |-> 0, found |-> found] IN
     /\ provider' = [provider EXCEPT ![s] = works]
     /\ KeepsOwn(s, result) /\ shared' \in Stored(s, 2, result)
     /\ request' = [request EXCEPT ![s].step = "store", ![s].result = result]
  /\ UNCHANGED <<past, file, graph, index, vectors, registered, answer, told>>

Stores(s) ==
  /\ At(s, "store") /\ shared' \in Stored(s, 3, request[s].result) /\ AnswersSearch(s, request[s].result)
  /\ UNCHANGED <<past, file, graph, own, index, vectors, provider, registered, told>>

-----------------------------------------------------------------------------
(* The graph: _rebuild_graph, EntityExtractor.build_graph.                 *)

\* What a text mentions becomes a node, with an edge from the memory.
NodesOf(body) == {<<m, body[m].text>> : m \in Eligible(body)}

BuildLoads(s) ==
  /\ At(s, "build")
  /\ request' = [request EXCEPT ![s].step = "check", ![s].revision = newest]
  /\ UNCHANGED <<past, file, graph, own, shared, index, vectors, provider, registered, answer, told>>

\* A request that wrote has its revision confirmed.
Confirms(s) == told' = IF request[s].wrote > told THEN request[s].wrote ELSE told

\* What the callers make of a rebuild that raised: an update or a deletion is
\* told to be committed, anything else has failed.  The graph it had stays.
RebuildFails(s) ==
  IF request[s].op \in {"update", "delete"} THEN Replies(s, "degraded") /\ Confirms(s)
  ELSE Replies(s, "failed") /\ UNCHANGED told

\* A projection of a memory that moved meanwhile is not published.
BuildRefused(s) ==
  /\ At(s, "check") /\ request[s].revision # newest /\ RebuildFails(s)
  /\ UNCHANGED <<past, file, graph, own, shared, index, vectors, provider, registered>>

BuildChecks(s) ==
  /\ At(s, "check") /\ request[s].revision = newest /\ GoesTo(s, "save")
  /\ UNCHANGED <<past, file, graph, own, shared, index, vectors, provider, registered, answer, told>>

\* Bug: marked with the revision of the moment.
ProjectionOfNow(s) == [revision |-> newest, nodes |-> NodesOf(past[request[s].revision])]

Projection(s) == [revision |-> request[s].revision, nodes |-> NodesOf(past[request[s].revision])]

BuildSaves(s) ==
  /\ At(s, "save")
  /\ file' = Projection(s) /\ graph' = [graph EXCEPT ![s] = Projection(s)]
  /\ IF request[s].op = "graph" THEN GoesTo(s, "view") /\ UNCHANGED <<answer, told>>
     ELSE Replies(s, "done") /\ Confirms(s)
  /\ UNCHANGED <<past, own, shared, index, vectors, provider, registered>>

BuildCannotSave(s) ==
  /\ At(s, "save") /\ RebuildFails(s)
  /\ UNCHANGED <<past, file, graph, own, shared, index, vectors, provider, registered>>

\* POST /graph/rebuild; at the start of a server; of the maintenance.
Rebuild(s) ==
  /\ At(s, "none")
  /\ Begins(s, [Unasked EXCEPT !.op = "rebuild", !.step = "build"])
  /\ UNCHANGED <<past, file, graph, own, shared, index, vectors, provider, registered, told>>

\* Bug: the graph is served as it was last built.
CurrentAsBuilt(s) == TRUE

\* The graph endpoints and the chat: _ensure_graph_current, then the view.
Current(s) == graph[s].revision = newest

AskGraph(s, scope) ==
  /\ Running(s) /\ At(s, "none") /\ (scope = "project" => registered)
  /\ Begins(s, [Unasked EXCEPT !.op = "graph", !.scope = scope, !.step = IF Current(s) THEN "view" ELSE "build"])
  /\ UNCHANGED <<past, file, graph, own, shared, index, vectors, provider, registered, told>>

\* Bug: mentions of any scope count.
AdmittedAny(scope) == Facts

\* _HttpScopedGraphView: a memory shows itself; what it mentions is shown when
\* a memory the scope lets in mentions it.
Admitted(scope) == {c[1] : c \in Corpus(memories, scope)}

Views(s) ==
  /\ At(s, "view")
  /\ LET scope == request[s].scope nodes == graph[s].nodes IN
     /\ request' = [request EXCEPT ![s] = Unasked]
     /\ answer' = [answer EXCEPT ![s] = [NoAnswer EXCEPT !.kind = "graph", !.scope = scope, !.revision = graph[s].revision,
          !.found = {n[1] : n \in {k \in nodes : InScope(k[1], scope)}},
          !.topics = UNION {Topics[n[2]] : n \in {k \in nodes : k[1] \in Admitted(scope)}},
          !.since = request[s].since]]
  /\ UNCHANGED <<past, file, graph, own, shared, index, vectors, provider, registered, told>>

-----------------------------------------------------------------------------
(* Writes, of the API and of others; processes that come and go.           *)

\* One transaction of the memory: a memory is added, edited or closed.
Changed(m) ==
  LET now == memories[m] IN
  IF now.status = "none" THEN {<<"create", [text |-> t, status |-> st]>> : t \in Texts, st \in {"draft", "active"}}
  ELSE IF now.status = "closed" THEN {}
  ELSE {<<"update", [now EXCEPT !.text = t]>> : t \in Texts \ {now.text}}
       \union {<<"update", [now EXCEPT !.status = "closed"]>>, <<"delete", [now EXCEPT !.status = "closed"]>>}

Commits(s) ==
  /\ Running(s) /\ At(s, "none") /\ newest < MaxCommits
  /\ \E m \in Facts : \E change \in Changed(m) :
     /\ past' = Append(past, [memories EXCEPT ![m] = change[2]])
     /\ Begins(s, [Unasked EXCEPT !.op = change[1], !.step = "clear", !.wrote = newest + 1])
  /\ UNCHANGED <<file, graph, own, shared, index, vectors, provider, registered, told>>

\* CacheManager.clear: its own level and the disk, then Redis.
Clears(s) ==
  /\ \/ At(s, "clear") /\ GoesTo(s, "flush") /\ UNCHANGED answer
     \/ Running(s) /\ At(s, "none") /\ Begins(s, [Unasked EXCEPT !.op = "clear", !.step = "flush"])
  /\ own' = [own EXCEPT ![s] = <<>>] /\ shared' = [shared EXCEPT ![3] = {}]
  /\ UNCHANGED <<past, file, graph, index, vectors, provider, registered, told>>

Flushes(s) ==
  /\ At(s, "flush") /\ shared' \in {shared, [shared EXCEPT ![2] = {}]}
  /\ IF request[s].op = "clear" THEN Replies(s, "done") ELSE GoesTo(s, "build") /\ UNCHANGED answer
  /\ UNCHANGED <<past, file, graph, own, index, vectors, provider, registered, told>>

\* The worker, the desk and the command line write as well.
WrittenElsewhere ==
  /\ newest < MaxCommits
  /\ \E m \in Facts : \E change \in Changed(m) : past' = Append(past, [memories EXCEPT ![m] = change[2]])
  /\ UNCHANGED <<file, graph, own, shared, index, vectors, provider, registered, request, answer, told>>

ProjectChanges ==
  /\ registered' = ~registered
  /\ UNCHANGED <<past, file, graph, own, shared, index, vectors, provider, request, answer, told>>

\* A process dies in any step; what it shared stays.
Stops(s) ==
  /\ Running(s) \/ ~At(s, "none")
  /\ graph' = [graph EXCEPT ![s] = NoGraph] /\ own' = [own EXCEPT ![s] = <<>>]
  /\ provider' = [provider EXCEPT ![s] = TRUE]
  /\ request' = [request EXCEPT ![s] = Unasked] /\ answer' = [answer EXCEPT ![s] = NoAnswer]
  /\ UNCHANGED <<past, file, shared, index, vectors, registered, told>>

-----------------------------------------------------------------------------
(* The index of embeddings: EmbeddingGenerator.                            *)

NoVectors == [m \in Facts |-> 0]
AtRest == [step |-> "none", held |-> NoVectors, base |-> NoVectors]

\* A generator loads the file, then embeds the memories it read.
Embeds(g) ==
  /\ vectors[g].step = "none"
  /\ LET known == {m \in Facts : memories[m].status # "none"} IN
     \E done \in SUBSET {m \in known : index[m] # memories[m].text} :
     vectors' = [vectors EXCEPT ![g] = [step |-> "save", base |-> index,
        held |-> [m \in Facts |-> IF m \in done THEN memories[m].text ELSE index[m]]]]
  /\ UNCHANGED <<past, file, graph, own, shared, index, provider, registered, request, answer, told>>

\* Bug: what was loaded counts as new.
HeldAtAll(g) == {m \in Facts : vectors[g].held[m] # 0}

\* _save_cache, under the file's lock: what is new goes over what is there,
\* unless one of them is of another text than the one there.
Dirty(g) == {m \in Facts : vectors[g].held[m] # vectors[g].base[m]}
Merged(g) == [m \in Facts |-> IF m \in Dirty(g) THEN vectors[g].held[m] ELSE index[m]]

Incompatible(g) == \E m \in Dirty(g) : index[m] \notin {0, vectors[g].held[m]}

Saves(g) ==
  /\ vectors[g].step = "save"
  /\ index' = IF Incompatible(g) THEN index ELSE Merged(g)
  /\ vectors' = [vectors EXCEPT ![g] = AtRest]
  /\ UNCHANGED <<past, file, graph, own, shared, provider, registered, request, answer, told>>

\* clear_cache: the file is emptied whatever is in it.
ClearsIndex ==
  /\ index # NoVectors /\ index' = NoVectors
  /\ UNCHANGED <<past, file, graph, own, shared, vectors, provider, registered, request, answer, told>>

-----------------------------------------------------------------------------
ViewsInit ==
  /\ \E m \in Facts, st \in {"active", "closed"} : past = <<[Nothing EXCEPT ![m] = [text |-> CHOOSE t \in Texts : TRUE, status |-> st]]>>
  /\ file = NoGraph /\ graph = [s \in Servers |-> NoGraph]
  /\ own = [s \in Servers |-> <<>>] /\ shared = [level \in 2..3 |-> {}]
  /\ index \in {NoVectors, [m \in Facts |-> memories[m].text]} /\ vectors = [g \in Indexers |-> AtRest]
  /\ provider = [s \in Servers |-> TRUE] /\ registered = TRUE
  /\ request = [s \in Servers |-> Unasked] /\ answer = [s \in Servers |-> NoAnswer] /\ told = 0

Searching(s) == (\E scope \in Scopes : Search(s, scope)) \/ LooksUp(s) \/ LooksOnDisk(s) \/ Backfills(s) \/ Computes(s) \/ Stores(s)
Graphing(s) == (\E scope \in Scopes : AskGraph(s, scope)) \/ Views(s)
Building(s) == Rebuild(s) \/ BuildLoads(s) \/ BuildRefused(s) \/ BuildChecks(s) \/ BuildSaves(s) \/ BuildCannotSave(s)
Writing(s) == Commits(s) \/ Clears(s) \/ Flushes(s)
Indexing == (\E g \in Indexers : Embeds(g) \/ Saves(g)) \/ ClearsIndex

ViewsNext ==
  \/ \E s \in Servers : Searching(s) \/ Graphing(s) \/ Building(s) \/ Writing(s) \/ Stops(s)
  \/ Indexing \/ WrittenElsewhere \/ ProjectChanges \/ Tick

ViewsSpec == ViewsInit /\ [][ViewsNext]_viewVars

-----------------------------------------------------------------------------
(* Properties.                                                             *)

\* A graph, saved or served, is the projection of the very revision it names:
\* no write that lands during a rebuild gets into its name.
GraphIsTrue ==
  \A g \in {file} \union {graph[s] : s \in Servers} : g # NoGraph => g.nodes = NodesOf(past[g.revision])

\* An answer that is full may lack what was proposed as well.
Full(found) == Cardinality(found) >= TopK \/ Cardinality(found) >= Limit

\* Whatever level of the cache or graph it comes from, an answer is of a memory
\* no older than the newest write any server had confirmed when the question
\* came, and of the scope that was asked for; a search lacks an active memory that
\* matches only if the answer is full.  A result computed while the provider was
\* away, which no key tells apart, is gone when each level has kept it for its
\* time once.
AnswersAreSound ==
  \A s \in Servers : LET a == answer[s]
                         seen == {m \in Facts : past[a.revision][m].status # "none" /\ InScope(m, a.scope)} IN
    /\ a.age <= Life[1] + Life[2] + Life[3] - 3
    /\ a.kind \in {"search", "graph"} =>
      /\ a.revision >= a.since
      /\ a.kind = "search" => /\ a.found \subseteq seen
                              /\ Full(a.found) \/ Lexical(Corpus(past[a.revision], a.scope)) \subseteq a.found
      /\ a.kind = "graph" => /\ a.found = Eligible(past[a.revision]) \cap seen
                             /\ a.topics \subseteq UNION {Topics[past[a.revision][m].text] : m \in a.found}

\* Generators that save at once keep each other's vectors, and none brings back
\* what another has cleared.
IndexIsMerged ==
  [][\/ index' = NoVectors
     \/ \A m \in Facts : \/ index'[m] = index[m]
                         \/ /\ index[m] = 0
                            /\ \E g \in Indexers : vectors[g].held[m] = index'[m] /\ vectors[g].base[m] # index'[m]]_index
=============================================================================

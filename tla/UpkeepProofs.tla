----------------------------- MODULE UpkeepProofs -----------------------------
(***************************************************************************)
(* What the views of the memory and the unattended upkeep keep, for every  *)
(* number of servers, memories, candidates and runs: proofs about          *)
(* SearchViews and Housekeeping.                                           *)
(***************************************************************************)
EXTENDS SearchViews, Housekeeping, SequenceTheorems, FiniteSetTheorems, TLAPS

-----------------------------------------------------------------------------
(* SearchViews: what an answer may rest on.                                *)

Written == [text : Texts \union {0}, status : Standings]
Keys == Scopes \X Nat \X SUBSET (Facts \X Written)
Results == [of : Nat, found : SUBSET Facts, age : Nat]
Entries == [key : Keys, result : Results, left : Nat]
Graphs == [revision : Nat, nodes : SUBSET (Facts \X (Texts \union {0}))]
Asked == [op : {"none", "search", "graph", "rebuild", "create", "update", "delete", "clear"},
          step : {"none", "cache", "disk", "compute", "backfill", "store", "build", "check", "save",
                  "view", "clear", "flush"},
          scope : Scopes, revision : Nat, result : Results, wrote : Nat, since : Nat]

\* How old a result can be in each level: it may have aged in the levels it
\* came from, and an entry that is read has some time left.
Oldest3 == Life[3]
Oldest2 == Life[2] + Life[3] - 1
Oldest1 == Life[1] + Life[2] + Life[3] - 2

\* A result of the revision n of the memories p: nothing that was not there, and
\* all that is active and matches, unless it is full.
Seen(body, scope) == {m \in Facts : body[m].status # "none" /\ InScope(m, scope)}
Answering(r, scope, n, p) ==
  /\ r \in Results /\ r.of = n /\ n \in 1..Len(p)
  /\ r.found \subseteq Seen(p[n], scope)
  /\ Full(r.found) \/ Lexical(Corpus(p[n], scope)) \subseteq r.found

\* Entries of a level in which nothing gets older than bound.
Kept(bound, p) ==
  {e \in Entries : e.result.age + e.left <= bound /\ Answering(e.result, e.key[1], e.key[2], p)}

GraphFits(g, p) == g \in Graphs /\ (g = NoGraph \/ (g.revision \in 1..Len(p) /\ g.nodes = NodesOf(p[g.revision])))

\* What a request has read is not older than what was confirmed when it came.
RequestFits(q, g, p) ==
  /\ q \in Asked /\ q.wrote <= Len(p) /\ q.since <= Len(p)
  /\ q.step \in {"cache", "disk", "compute", "backfill", "store", "check", "save"} =>
       q.revision \in 1..Len(p) /\ q.since <= q.revision
  /\ q.step \in {"backfill", "store"} => Answering(q.result, q.scope, q.revision, p)
  /\ q.step = "backfill" => q.result.age < Oldest3
  /\ q.step = "store" => q.result.age = 0
  /\ q.step = "view" => g # NoGraph /\ q.since <= g.revision

AnswerFits(a, p) ==
  /\ a.age \in Nat /\ a.age < Oldest1
  /\ a.kind \in {"search", "graph"} => a.revision \in 1..Len(p) /\ a.revision >= a.since
  /\ a.kind = "search" => /\ a.found \subseteq Seen(p[a.revision], a.scope)
                          /\ Full(a.found) \/ Lexical(Corpus(p[a.revision], a.scope)) \subseteq a.found
  /\ a.kind = "graph" => /\ a.found = Eligible(p[a.revision]) \cap Seen(p[a.revision], a.scope)
                         /\ a.topics \subseteq UNION {Topics[p[a.revision][m].text] : m \in a.found}

OwnFits(entries, p) == DOMAIN entries = Servers /\ \A s \in Servers : entries[s] \in Seq(Kept(Oldest1, p))
SharedFits(levels, p) ==
  /\ DOMAIN levels = 2..3
  /\ levels[2] \subseteq {e \in Kept(Oldest2, p) : e.left > 0}
  /\ levels[3] \subseteq Kept(Oldest3, p)

ViewsFit(p) ==
  /\ told \in Nat /\ told <= Len(p)
  /\ GraphFits(file, p) /\ OwnFits(own, p) /\ SharedFits(shared, p)
  /\ DOMAIN graph = Servers /\ DOMAIN request = Servers /\ DOMAIN answer = Servers
  /\ \A s \in Servers : GraphFits(graph[s], p) /\ RequestFits(request[s], graph[s], p) /\ AnswerFits(answer[s], p)

ViewsInv == past \in Seq(Bodies) /\ Len(past) >= 1 /\ ViewsFit(past)

-----------------------------------------------------------------------------
(* Lemmas about the caches and about memories that get a new revision.     *)

LEMMA LivesLong ==
  /\ Life[1] \in Nat \ {0} /\ Life[2] \in Nat \ {0} /\ Life[3] \in Nat \ {0}
  /\ Oldest1 \in Nat \ {0} /\ Oldest2 \in Nat \ {0} /\ Oldest3 \in Nat \ {0}
  /\ Oldest3 = Life[3] /\ Oldest2 + 1 = Oldest3 + Life[2] /\ Oldest1 + 1 = Oldest2 + Life[1]
  /\ CacheSize \in Nat \ {0}
  <1>1. Life[1] \in Nat \ {0} /\ Life[2] \in Nat \ {0} /\ Life[3] \in Nat \ {0} /\ CacheSize \in Nat \ {0}
    BY ViewsAssumption
  <1>2. PICK a \in Nat \ {0}, b \in Nat \ {0}, c \in Nat \ {0} : a = Life[1] /\ b = Life[2] /\ c = Life[3]
    BY <1>1
  <1>3. Oldest1 = a + b + c - 2 /\ Oldest2 = b + c - 1 /\ Oldest3 = c
    BY <1>2 DEF Oldest1, Oldest2, Oldest3
  <1>4. /\ a + b + c - 2 \in Nat \ {0} /\ b + c - 1 \in Nat \ {0}
        /\ b + c - 1 + 1 = c + b /\ a + b + c - 2 + 1 = b + c - 1 + a
    OBVIOUS
  <1> QED
    BY <1>1, <1>2, <1>3, <1>4

LEMMA YoungIsYoung ==
  ASSUME NEW n \in Nat
  PROVE  (n < Oldest3 => n < Oldest2 /\ n < Oldest1) /\ (n < Oldest2 => n < Oldest1) /\ 0 < Oldest1 /\ 0 < Oldest2 /\ 0 < Oldest3
  BY LivesLong

\* RemoveAt and the trimming of a sequence stay among its elements.
LEMMA WithoutKeeps ==
  ASSUME NEW S, NEW entries \in Seq(S), NEW key
  PROVE  Without(entries, key) \in Seq(S)
  <1> DEFINE at == {i \in DOMAIN entries : entries[i].key = key}
  <1>1. CASE at = {}
    BY <1>1 DEF Without
  <1>2. CASE at # {}
    <2>1. PICK i : i = CHOOSE j \in at : TRUE
      OBVIOUS
    <2>2. i \in 1..Len(entries) /\ Len(entries) \in Nat
      BY <1>2, <2>1
    <2>3. Without(entries, key) = SubSeq(entries, 1, i - 1) \o SubSeq(entries, i + 1, Len(entries))
      BY <1>2, <2>1 DEF Without, RemoveAt
    <2>4. SubSeq(entries, 1, i - 1) \in Seq(S)
      <3>1. 1 \in Int /\ i - 1 \in Int /\ \A k \in 1..(i - 1) : entries[k] \in S
        BY <2>2
      <3> QED
        BY <3>1, SubSeqProperties
    <2>5. SubSeq(entries, i + 1, Len(entries)) \in Seq(S)
      <3>1. i + 1 \in Int /\ Len(entries) \in Int /\ \A k \in (i + 1)..Len(entries) : entries[k] \in S
        BY <2>2
      <3> QED
        BY <3>1, SubSeqProperties
    <2> QED
      BY <2>3, <2>4, <2>5, ConcatProperties
  <1> QED
    BY <1>1, <1>2

LEMMA YoungestKeeps ==
  ASSUME NEW S, NEW entries \in Seq(S)
  PROVE  Youngest(entries) \in Seq(S)
  <1>1. PICK n \in Nat : n = Len(entries)
    OBVIOUS
  <1>2. PICK m : m = 1 + (IF n > CacheSize THEN n - CacheSize ELSE 0)
    OBVIOUS
  <1>3. m >= 1 /\ n \in Int /\ m \in Int
    <2>1. CacheSize \in Nat
      BY LivesLong
    <2>2. CASE n > CacheSize
      BY <1>2, <2>1, <2>2
    <2>3. CASE ~(n > CacheSize)
      BY <1>2, <2>3
    <2> QED
      BY <2>2, <2>3
  <1>4. \A i \in m..n : entries[i] \in S
    BY <1>1, <1>3
  <1>5. SubSeq(entries, m, n) \in Seq(S)
    BY <1>3, <1>4, SubSeqProperties
  <1> QED
    BY <1>1, <1>2, <1>5 DEF Youngest

\* What was right of an earlier revision stays so when there is a later one.
LEMMA RevisionsStay ==
  ASSUME NEW p \in Seq(Bodies), NEW body \in Bodies, NEW more, more = Append(p, body)
  PROVE  /\ more \in Seq(Bodies) /\ Len(more) = Len(p) + 1 /\ more[Len(p) + 1] = body
         /\ \A n \in 1..Len(p) : n \in 1..Len(more) /\ more[n] = p[n]
         /\ \A bound : Kept(bound, p) \subseteq Kept(bound, more)
         /\ \A g : GraphFits(g, p) => GraphFits(g, more)
         /\ \A q, g : RequestFits(q, g, p) => RequestFits(q, g, more)
         /\ \A a : AnswerFits(a, p) => AnswerFits(a, more)
  <1>1. /\ more \in Seq(Bodies) /\ Len(more) = Len(p) + 1 /\ Len(p) \in Nat /\ more[Len(p) + 1] = body
        /\ \A n \in 1..Len(p) : n \in 1..Len(more) /\ more[n] = p[n]
    BY AppendProperties
  <1>2. \A r, scope, n : Answering(r, scope, n, p) => Answering(r, scope, n, more)
    BY <1>1 DEF Answering
  <1>3. \A bound : Kept(bound, p) \subseteq Kept(bound, more)
    BY <1>2 DEF Kept
  <1>4. \A g : GraphFits(g, p) => GraphFits(g, more)
    BY <1>1 DEF GraphFits
  <1>5. ASSUME NEW q, NEW g, RequestFits(q, g, p)  PROVE RequestFits(q, g, more)
    <2>1. q \in Asked /\ q.wrote \in Nat /\ q.since \in Nat /\ q.wrote <= Len(p) /\ q.since <= Len(p)
      BY <1>5 DEF RequestFits, Asked
    <2>2. q.wrote <= Len(more) /\ q.since <= Len(more)
      BY <1>1, <2>1
    <2> QED
      BY <1>1, <1>2, <1>5, <2>2 DEF RequestFits
  <1>6. \A a : AnswerFits(a, p) => AnswerFits(a, more)
    BY <1>1 DEF AnswerFits
  <1> QED
    BY <1>1, <1>3, <1>4, <1>5, <1>6

LEMMA CorpusIsTyped ==
  ASSUME NEW body \in Bodies, NEW scope
  PROVE  /\ Corpus(body, scope) \subseteq Facts \X Written
         /\ {c[1] : c \in Corpus(body, scope)} = Seen(body, scope)
         /\ NodesOf(body) \subseteq Facts \X (Texts \union {0})
  <1>1. \A m \in Facts : body[m] \in Written /\ body[m].text \in Texts \union {0}
    BY DEF Bodies, Written
  <1>2. Corpus(body, scope) \subseteq Facts \X Written
    BY <1>1 DEF Corpus
  <1>3. {c[1] : c \in Corpus(body, scope)} = Seen(body, scope)
    <2>1. \A c \in Corpus(body, scope) :
            \E f \in Facts : c = <<f, body[f]>> /\ body[f].status # "none" /\ InScope(f, scope)
      BY DEF Corpus
    <2>2. \A c \in Corpus(body, scope) : c[1] \in Seen(body, scope)
      <3>1. ASSUME NEW c \in Corpus(body, scope)  PROVE c[1] \in Seen(body, scope)
        <4>1. PICK f \in Facts : c = <<f, body[f]>> /\ body[f].status # "none" /\ InScope(f, scope)
          BY <2>1
        <4>2. c[1] = f
          BY <4>1
        <4> QED
          BY <4>1, <4>2 DEF Seen
      <3> QED
        BY <3>1
    <2>3. ASSUME NEW m \in Seen(body, scope)  PROVE \E c \in Corpus(body, scope) : c[1] = m
      <3>1. PICK c : c = <<m, body[m]>>
        OBVIOUS
      <3>2. c \in Corpus(body, scope) /\ c[1] = m
        BY <3>1 DEF Corpus, Seen
      <3> QED
        BY <3>2
    <2> QED
      BY <2>2, <2>3
  <1>4. NodesOf(body) \subseteq Facts \X (Texts \union {0})
    BY <1>1 DEF NodesOf, Eligible
  <1> QED
    BY <1>2, <1>3, <1>4

\* The memories of a step: as they were, or with one more revision.
Grown == past' = past \/ \E body \in Bodies : past' = Append(past, body)

LEMMA PastGrows ==
  ASSUME ViewsInv, Grown
  PROVE  past' \in Seq(Bodies) /\ Len(past') >= 1 /\ Len(past') >= Len(past) /\ ViewsFit(past')
  <1>1. CASE past' = past
    BY <1>1 DEF ViewsInv
  <1>2. CASE \E body \in Bodies : past' = Append(past, body)
    <2>1. PICK body \in Bodies : past' = Append(past, body)
      BY <1>2
    <2>2. past \in Seq(Bodies) /\ Len(past) >= 1 /\ ViewsFit(past) /\ Len(past) \in Nat
      BY DEF ViewsInv
    <2>3. /\ past' \in Seq(Bodies) /\ Len(past') = Len(past) + 1
          /\ \A bound : Kept(bound, past) \subseteq Kept(bound, past')
          /\ \A g : GraphFits(g, past) => GraphFits(g, past')
          /\ \A q, g : RequestFits(q, g, past) => RequestFits(q, g, past')
          /\ \A a : AnswerFits(a, past) => AnswerFits(a, past')
      BY <2>1, <2>2, RevisionsStay
    <2>4. OwnFits(own, past')
      <3>1. \A s \in Servers : own[s] \in Seq(Kept(Oldest1, past))
        BY <2>2 DEF ViewsFit, OwnFits
      <3>2. \A s \in Servers : own[s] \in Seq(Kept(Oldest1, past'))
        BY <2>3, <3>1, SeqMonotonic
      <3> QED
        BY <2>2, <3>2 DEF ViewsFit, OwnFits
    <2>5. SharedFits(shared, past')
      BY <2>2, <2>3 DEF ViewsFit, SharedFits
    <2>6. told \in Nat /\ told <= Len(past')
      <3>1. told \in Nat /\ told <= Len(past)
        BY <2>2 DEF ViewsFit
      <3> QED
        BY <2>2, <2>3, <3>1
    <2> QED
      BY <2>2, <2>3, <2>4, <2>5, <2>6 DEF ViewsFit
  <1> QED
    BY <1>1, <1>2 DEF Grown

Puts(new, old, s, v) == DOMAIN new = Servers /\ \A t \in Servers : new[t] = IF t = s THEN v ELSE old[t]

LEMMA PutsOne ==
  ASSUME NEW f, DOMAIN f = Servers, NEW s \in Servers, NEW v
  PROVE  Puts([f EXCEPT ![s] = v], f, s, v) /\ Puts(f, f, s, f[s])
  BY DEF Puts

\* A server goes on to the request q, the answer a and the graph g.
LEMMA ServerGoesOn ==
  ASSUME ViewsInv, Grown, NEW s \in Servers, NEW q, NEW a, NEW g,
         Puts(request', request, s, q), Puts(answer', answer, s, a), Puts(graph', graph, s, g),
         RequestFits(q, g, past'), AnswerFits(a, past'), GraphFits(g, past'), GraphFits(file', past'),
         OwnFits(own', past'), SharedFits(shared', past'), told' \in Nat, told' <= Len(past')
  PROVE  ViewsInv'
  <1>1. past' \in Seq(Bodies) /\ Len(past') >= 1 /\ ViewsFit(past')
    BY PastGrows
  <1>2. ASSUME NEW t \in Servers
        PROVE  GraphFits(graph'[t], past') /\ RequestFits(request'[t], graph'[t], past') /\ AnswerFits(answer'[t], past')
    <2>1. CASE t = s
      BY <2>1 DEF Puts
    <2>2. CASE t # s
      <3>1. graph'[t] = graph[t] /\ request'[t] = request[t] /\ answer'[t] = answer[t]
        BY <2>2 DEF Puts
      <3> QED
        BY <1>1, <3>1 DEF ViewsFit
    <2> QED
      BY <2>1, <2>2
  <1>3. DOMAIN graph' = Servers /\ DOMAIN request' = Servers /\ DOMAIN answer' = Servers
    BY DEF Puts
  <1>4. ViewsFit(past)'
    BY <1>2, <1>3 DEF ViewsFit
  <1> QED
    BY <1>1, <1>4 DEF ViewsInv

\* What a server may read of its own request.
LEMMA RequestIsTyped ==
  ASSUME ViewsInv, NEW s \in Servers
  PROVE  /\ request[s] \in Asked /\ RequestFits(request[s], graph[s], past)
         /\ request[s].scope \in Scopes /\ request[s].revision \in Nat /\ request[s].result \in Results
         /\ request[s].wrote \in Nat /\ request[s].since \in Nat /\ request[s].result.age \in Nat
         /\ request[s].step \in {"cache", "disk", "compute", "backfill", "store", "check", "save"} =>
              request[s].revision \in 1..Len(past) /\ request[s].since <= request[s].revision
         /\ Len(past) \in Nat /\ Len(past) >= 1
         /\ DOMAIN request = Servers /\ DOMAIN answer = Servers /\ DOMAIN graph = Servers /\ DOMAIN own = Servers
         /\ OwnFits(own, past) /\ SharedFits(shared, past) /\ GraphFits(file, past) /\ GraphFits(graph[s], past)
         /\ AnswerFits(answer[s], past) /\ told \in Nat /\ told <= Len(past)
  <1>1. past \in Seq(Bodies) /\ Len(past) >= 1 /\ ViewsFit(past)
    BY DEF ViewsInv
  <1>2. request[s] \in Asked /\ RequestFits(request[s], graph[s], past)
    BY <1>1 DEF ViewsFit, RequestFits
  <1>3. /\ request[s].scope \in Scopes /\ request[s].revision \in Nat /\ request[s].result \in Results
        /\ request[s].wrote \in Nat /\ request[s].since \in Nat
    BY <1>2 DEF Asked
  <1>4. request[s].result.age \in Nat
    BY <1>3 DEF Results
  <1>5. request[s].step \in {"cache", "disk", "compute", "backfill", "store", "check", "save"} =>
          request[s].revision \in 1..Len(past) /\ request[s].since <= request[s].revision
    BY <1>2 DEF RequestFits
  <1>6. Len(past) \in Nat
    BY <1>1
  <1> QED
    BY <1>1, <1>2, <1>3, <1>4, <1>5, <1>6 DEF ViewsFit, OwnFits

LEMMA KeyIsTyped ==
  ASSUME ViewsInv, NEW s \in Servers, request[s].revision \in 1..Len(past)
  PROVE  /\ KeyOf(s) \in Keys /\ KeyOf(s)[1] = request[s].scope /\ KeyOf(s)[2] = request[s].revision
  <1>1. PICK sc \in Scopes, n \in Nat : sc = request[s].scope /\ n = request[s].revision
    BY RequestIsTyped
  <1>2. past[n] \in Bodies
    BY <1>1 DEF ViewsInv
  <1>3. PICK c : c = Corpus(past[n], sc) /\ c \in SUBSET (Facts \X Written)
    BY <1>2, CorpusIsTyped
  <1>4. KeyOf(s) = <<sc, n, c>>
    BY <1>1, <1>3 DEF KeyOf, Key
  <1> QED
    BY <1>1, <1>3, <1>4 DEF Keys

\* A result that is entered in a level at its age.
LEMMA EntryIsKept ==
  ASSUME ViewsInv, NEW s \in Servers, request[s].revision \in 1..Len(past), NEW r, NEW bound \in Nat,
         NEW level \in 1..3,
         Answering(r, request[s].scope, request[s].revision, past), r.age + Life[level] <= bound
  PROVE  Lives(level, KeyOf(s), r) \in Kept(bound, past) /\ Lives(level, KeyOf(s), r).left > 0
  <1>1. PICK e : e = Lives(level, KeyOf(s), r)
    OBVIOUS
  <1>2. e = [key |-> KeyOf(s), result |-> r, left |-> Life[level]]
    BY <1>1 DEF Lives
  <1>3. e.key = KeyOf(s) /\ e.result = r /\ e.left = Life[level] /\ Life[level] \in Nat \ {0}
    BY <1>2, ViewsAssumption
  <1>4. e \in Entries
    BY <1>2, <1>3, KeyIsTyped DEF Entries, Answering
  <1>5. Answering(e.result, e.key[1], e.key[2], past)
    BY <1>3, KeyIsTyped
  <1>6. e \in Kept(bound, past)
    BY <1>3, <1>4, <1>5 DEF Kept
  <1> QED
    BY <1>1, <1>3, <1>6

LEMMA OwnIsKept ==
  ASSUME ViewsInv, NEW s \in Servers, request[s].revision \in 1..Len(past), NEW r,
         Answering(r, request[s].scope, request[s].revision, past), r.age < Oldest2,
         KeepsOwn(s, r)
  PROVE  OwnFits(own', past)
  <1>1. r.age \in Nat /\ r.age + Life[1] <= Oldest1
    <2>1. r.age \in Nat
      BY DEF Answering, Results
    <2> QED
      BY <2>1, LivesLong
  <1>2. PICK e : e = Lives(1, KeyOf(s), r)
    OBVIOUS
  <1>3. e \in Kept(Oldest1, past)
    <2>1. Oldest1 \in Nat /\ 1 \in 1..3
      BY LivesLong
    <2> QED
      BY <1>1, <1>2, <2>1, EntryIsKept
  <1>4. DOMAIN own = Servers /\ \A t \in Servers : own[t] \in Seq(Kept(Oldest1, past))
    BY DEF ViewsInv, ViewsFit, OwnFits
  <1>5. PICK new : new = Youngest(Append(Without(own[s], KeyOf(s)), e))
    OBVIOUS
  <1>6. new \in Seq(Kept(Oldest1, past))
    <2>1. Without(own[s], KeyOf(s)) \in Seq(Kept(Oldest1, past))
      BY <1>4, WithoutKeeps
    <2>2. Append(Without(own[s], KeyOf(s)), e) \in Seq(Kept(Oldest1, past))
      BY <1>3, <2>1, AppendProperties
    <2> QED
      BY <1>5, <2>2, YoungestKeeps
  <1>7. own' = [own EXCEPT ![s] = new]
    BY <1>2, <1>5 DEF KeepsOwn
  <1> QED
    BY <1>4, <1>6, <1>7 DEF OwnFits

LEMMA SharedIsKept ==
  ASSUME ViewsInv, NEW s \in Servers, request[s].revision \in 1..Len(past), NEW r, NEW level \in 2..3,
         Answering(r, request[s].scope, request[s].revision, past),
         IF level = 2 THEN r.age < Oldest3 ELSE r.age = 0,
         shared' \in Stored(s, level, r)
  PROVE  SharedFits(shared', past)
  <1>1. PICK bound \in Nat : bound = IF level = 2 THEN Oldest2 ELSE Oldest3
    BY LivesLong
  <1>2. r.age \in Nat /\ r.age + Life[level] <= bound
    <2>1. r.age \in Nat
      BY DEF Answering, Results
    <2>2. CASE level = 2
      BY <1>1, <2>1, <2>2, LivesLong
    <2>3. CASE level = 3
      BY <1>1, <2>1, <2>3, LivesLong
    <2> QED
      BY <2>1, <2>2, <2>3
  <1>3. PICK e : e = Lives(level, KeyOf(s), r)
    OBVIOUS
  <1>4. e \in Kept(bound, past) /\ e.left > 0
    BY <1>2, <1>3, EntryIsKept
  <1>5. SharedFits(shared, past)
    BY RequestIsTyped
  <1>6. CASE shared' = shared
    BY <1>5, <1>6
  <1>7. CASE shared' = [shared EXCEPT ![level] = {x \in shared[level] : x.key # KeyOf(s)} \union {e}]
    BY <1>1, <1>4, <1>5, <1>7 DEF SharedFits
  <1> QED
    BY <1>3, <1>6, <1>7 DEF Stored

-----------------------------------------------------------------------------
(* SearchViews: the steps of a search.                                     *)

LEMMA GoesOn ==
  ASSUME ViewsInv, NEW s \in Servers, NEW step, GoesTo(s, step),
         step \in {"none", "cache", "disk", "compute", "backfill", "store", "build", "check", "save",
                   "view", "clear", "flush"}
  PROVE  \E q \in Asked : /\ Puts(request', request, s, q) /\ q.step = step
                          /\ q.op = request[s].op /\ q.scope = request[s].scope
                          /\ q.revision = request[s].revision /\ q.result = request[s].result
                          /\ q.wrote = request[s].wrote /\ q.since = request[s].since
  <1>1. request[s] \in Asked /\ DOMAIN request = Servers
    BY RequestIsTyped
  <1>2. PICK q : q = [request[s] EXCEPT !.step = step]
    OBVIOUS
  <1>3. /\ q \in Asked /\ q.step = step /\ q.op = request[s].op /\ q.scope = request[s].scope
        /\ q.revision = request[s].revision /\ q.result = request[s].result
        /\ q.wrote = request[s].wrote /\ q.since = request[s].since
    BY <1>1, <1>2 DEF Asked
  <1>4. request' = [request EXCEPT ![s] = q]
    BY <1>2 DEF GoesTo
  <1> QED
    BY <1>1, <1>3, <1>4, PutsOne

LEMMA NothingAsked ==
  /\ Unasked \in Asked /\ Unasked.step = "none" /\ Unasked.wrote = 0 /\ Unasked.since = 0
  /\ Unasked.scope = "default" /\ Unasked.revision = 0 /\ Unasked.result = NoResult /\ NoResult \in Results
  /\ NoAnswer.age = 0 /\ NoAnswer.kind = "none"
  /\ \A p \in Seq(Bodies) : AnswerFits(NoAnswer, p) /\ \A g : RequestFits(Unasked, g, p)
  <1>1. NoResult \in Results
    BY DEF NoResult, Results
  <1>2. /\ Unasked \in Asked /\ Unasked.step = "none" /\ Unasked.wrote = 0 /\ Unasked.since = 0
        /\ Unasked.scope = "default" /\ Unasked.revision = 0 /\ Unasked.result = NoResult
    BY <1>1 DEF Unasked, Asked, Scopes
  <1>3. NoAnswer.age = 0 /\ NoAnswer.kind = "none"
    BY DEF NoAnswer
  <1>4. ASSUME NEW p \in Seq(Bodies)
        PROVE  AnswerFits(NoAnswer, p) /\ \A g : RequestFits(Unasked, g, p)
    <2>1. 0 < Oldest1 /\ Len(p) \in Nat
      BY LivesLong
    <2> QED
      BY <1>2, <1>3, <2>1 DEF AnswerFits, RequestFits
  <1> QED
    BY <1>1, <1>2, <1>3, <1>4

\* A search is answered with a result of the revision it has read.
LEMMA SearchIsAnswered ==
  ASSUME ViewsInv, NEW s \in Servers, NEW r,
         request[s].revision \in 1..Len(past), request[s].since <= request[s].revision,
         Answering(r, request[s].scope, request[s].revision, past), r.age < Oldest1,
         AnswersSearch(s, r), UNCHANGED <<past, file, graph, told>>,
         OwnFits(own', past), SharedFits(shared', past)
  PROVE  ViewsInv'
  <1>1. PICK a : a = [NoAnswer EXCEPT !.kind = "search", !.scope = request[s].scope, !.revision = r.of,
                                      !.found = r.found, !.age = r.age, !.since = request[s].since]
    OBVIOUS
  <1>2. /\ a.kind = "search" /\ a.scope = request[s].scope /\ a.revision = r.of /\ a.found = r.found
        /\ a.age = r.age /\ a.since = request[s].since
    BY <1>1 DEF NoAnswer
  <1>3. request' = [request EXCEPT ![s] = Unasked] /\ answer' = [answer EXCEPT ![s] = a]
    BY <1>1 DEF AnswersSearch
  <1>4. r.of = request[s].revision /\ r.age \in Nat
    BY DEF Answering, Results
  <1>5. AnswerFits(a, past)
    BY <1>2, <1>4 DEF AnswerFits, Answering
  <1>6. Puts(request', request, s, Unasked) /\ Puts(answer', answer, s, a) /\ Puts(graph', graph, s, graph[s])
    BY <1>3, RequestIsTyped, PutsOne
  <1>7. RequestFits(Unasked, graph[s], past) /\ past' = past /\ Grown
    BY NothingAsked DEF ViewsInv, Grown
  <1> QED
    BY <1>5, <1>6, <1>7, RequestIsTyped, ServerGoesOn

LEMMA SearchKeeps ==
  ASSUME ViewsInv, NEW s \in Servers, NEW scope \in Scopes, Search(s, scope)
  PROVE  ViewsInv'
  <1>1. PICK q : q = [[Unasked EXCEPT !.op = "search", !.step = "cache", !.scope = scope, !.revision = newest]
                        EXCEPT !.since = told]
    OBVIOUS
  <1>2. newest = Len(past) /\ Len(past) \in Nat /\ told \in Nat /\ told <= Len(past) /\ Len(past) >= 1
    BY RequestIsTyped DEF newest
  <1>3. /\ q \in Asked /\ q.step = "cache" /\ q.scope = scope /\ q.revision = Len(past)
        /\ q.since = told /\ q.wrote = 0
    BY <1>1, <1>2, NothingAsked DEF Unasked, Asked
  <1>4. RequestFits(q, graph[s], past) /\ AnswerFits(NoAnswer, past)
    BY <1>2, <1>3, NothingAsked DEF RequestFits, ViewsInv
  <1>5. /\ request' = [request EXCEPT ![s] = q] /\ answer' = [answer EXCEPT ![s] = NoAnswer]
        /\ UNCHANGED <<past, file, graph, own, shared, told>>
    BY <1>1 DEF Search, Begins
  <1>6. Puts(request', request, s, q) /\ Puts(answer', answer, s, NoAnswer) /\ Puts(graph', graph, s, graph[s])
    BY <1>5, RequestIsTyped, PutsOne
  <1> QED
    BY <1>4, <1>5, <1>6, RequestIsTyped, ServerGoesOn DEF Grown

\* The answer of a server that goes on stays what it is.
LEMMA AnswerStays ==
  ASSUME ViewsInv, NEW s \in Servers, NEW q, Puts(request', request, s, q), RequestFits(q, graph[s], past),
         UNCHANGED <<past, file, graph, answer, told>>, OwnFits(own', past), SharedFits(shared', past)
  PROVE  ViewsInv'
  <1>1. Puts(answer', answer, s, answer[s]) /\ Puts(graph', graph, s, graph[s])
    BY RequestIsTyped, PutsOne
  <1> QED
    BY <1>1, RequestIsTyped, ServerGoesOn DEF Grown

LEMMA LooksUpKeeps ==
  ASSUME ViewsInv, NEW s \in Servers, LooksUp(s)
  PROVE  ViewsInv'
  <1>1. /\ request[s].step = "cache" /\ UNCHANGED <<past, file, graph, shared, told>>
        /\ \/ \E e \in Range(own[s]) : /\ e.key = KeyOf(s) /\ e.left > 0
                                       /\ own' = [own EXCEPT ![s] = Append(Without(own[s], KeyOf(s)), e)]
                                       /\ AnswersSearch(s, e.result)
           \/ \E e \in shared[2] : e.key = KeyOf(s) /\ KeepsOwn(s, e.result) /\ AnswersSearch(s, e.result)
           \/ /\ own' = [own EXCEPT ![s] = Without(own[s], KeyOf(s))] /\ GoesTo(s, "disk") /\ UNCHANGED answer
    BY DEF LooksUp, At
  <1>2. request[s].revision \in 1..Len(past) /\ request[s].since <= request[s].revision
    BY <1>1, RequestIsTyped
  <1>3. KeyOf(s) \in Keys /\ KeyOf(s)[1] = request[s].scope /\ KeyOf(s)[2] = request[s].revision
    BY <1>2, KeyIsTyped
  <1>4. /\ own[s] \in Seq(Kept(Oldest1, past)) /\ DOMAIN own = Servers /\ SharedFits(shared', past)
        /\ \A t \in Servers : own[t] \in Seq(Kept(Oldest1, past))
    BY <1>1, RequestIsTyped DEF OwnFits
  <1>5. Without(own[s], KeyOf(s)) \in Seq(Kept(Oldest1, past))
    BY <1>4, WithoutKeeps
  <1>6. ASSUME NEW e \in Range(own[s]), e.key = KeyOf(s), e.left > 0,
               own' = [own EXCEPT ![s] = Append(Without(own[s], KeyOf(s)), e)], AnswersSearch(s, e.result)
        PROVE  ViewsInv'
    <2>1. e \in Kept(Oldest1, past)
      BY <1>4 DEF Range
    <2>2. /\ Answering(e.result, request[s].scope, request[s].revision, past)
          /\ e.result.age + e.left <= Oldest1 /\ e.left \in Nat /\ e.result.age \in Nat
      BY <1>3, <1>6, <2>1 DEF Kept, Entries, Results
    <2>3. e.result.age < Oldest1
      <3>1. PICK age \in Nat, left \in Nat, oldest \in Nat :
              age = e.result.age /\ left = e.left /\ oldest = Oldest1
        BY <2>2, LivesLong
      <3>2. age + left <= oldest /\ left > 0
        BY <1>6, <2>2, <3>1
      <3>3. age < oldest
        BY <3>2
      <3> QED
        BY <3>1, <3>3
    <2>4. Append(Without(own[s], KeyOf(s)), e) \in Seq(Kept(Oldest1, past))
      BY <1>5, <2>1, AppendProperties
    <2>5. OwnFits(own', past)
      BY <1>4, <1>6, <2>4 DEF OwnFits
    <2> QED
      BY <1>1, <1>2, <1>4, <1>6, <2>2, <2>3, <2>5, SearchIsAnswered
  <1>7. ASSUME NEW e \in shared[2], e.key = KeyOf(s), KeepsOwn(s, e.result), AnswersSearch(s, e.result)
        PROVE  ViewsInv'
    <2>1. e \in Kept(Oldest2, past) /\ e.left > 0
      BY RequestIsTyped DEF SharedFits
    <2>2. /\ Answering(e.result, request[s].scope, request[s].revision, past)
          /\ e.result.age + e.left <= Oldest2 /\ e.left \in Nat /\ e.result.age \in Nat
      BY <1>3, <1>7, <2>1 DEF Kept, Entries, Results
    <2>3. e.result.age < Oldest2 /\ e.result.age < Oldest1
      BY <2>1, <2>2, LivesLong
    <2>4. OwnFits(own', past)
      BY <1>2, <1>7, <2>2, <2>3, OwnIsKept
    <2> QED
      BY <1>1, <1>2, <1>4, <1>7, <2>2, <2>3, <2>4, SearchIsAnswered
  <1>8. CASE own' = [own EXCEPT ![s] = Without(own[s], KeyOf(s))] /\ GoesTo(s, "disk") /\ UNCHANGED answer
    <2>1. PICK q \in Asked : /\ Puts(request', request, s, q) /\ q.step = "disk"
                             /\ q.revision = request[s].revision /\ q.wrote = request[s].wrote
                             /\ q.since = request[s].since
      BY <1>8, GoesOn
    <2>2. RequestFits(q, graph[s], past)
      <3>1. request[s].wrote <= Len(past) /\ request[s].since <= Len(past)
        BY RequestIsTyped DEF RequestFits
      <3> QED
        BY <1>2, <2>1, <3>1 DEF RequestFits
    <2>3. OwnFits(own', past)
      BY <1>4, <1>5, <1>8 DEF OwnFits
    <2> QED
      BY <1>1, <1>4, <1>8, <2>1, <2>2, <2>3, AnswerStays
  <1> QED
    BY <1>1, <1>6, <1>7, <1>8

\* A server goes on with what it has read, to a result or without one.
LEMMA SearchGoesOn ==
  ASSUME ViewsInv, NEW s \in Servers, NEW q \in Asked, Puts(request', request, s, q),
         q.step \in {"disk", "compute", "backfill", "store"},
         q.revision = request[s].revision, q.wrote = request[s].wrote, q.since = request[s].since,
         request[s].step \in {"cache", "disk", "compute"},
         q.step \in {"backfill", "store"} => Answering(q.result, q.scope, q.revision, past),
         q.step = "backfill" => q.result.age < Oldest3, q.step = "store" => q.result.age = 0,
         UNCHANGED <<past, file, graph, answer, told>>, OwnFits(own', past), SharedFits(shared', past)
  PROVE  ViewsInv'
  <1>1. /\ request[s].wrote <= Len(past) /\ request[s].since <= Len(past)
        /\ request[s].revision \in 1..Len(past) /\ request[s].since <= request[s].revision
    BY RequestIsTyped DEF RequestFits
  <1>2. RequestFits(q, graph[s], past)
    BY <1>1 DEF RequestFits
  <1> QED
    BY <1>2, AnswerStays

LEMMA LooksOnDiskKeeps ==
  ASSUME ViewsInv, NEW s \in Servers, LooksOnDisk(s)
  PROVE  ViewsInv'
  <1>1. /\ request[s].step = "disk" /\ UNCHANGED <<past, file, graph, answer, told>>
        /\ shared' = [shared EXCEPT ![3] = shared[3] \ Over(s)]
        /\ \/ GoesTo(s, "compute") /\ UNCHANGED own
           \/ \E e \in shared[3] \ Over(s) :
                /\ e.key = KeyOf(s) /\ KeepsOwn(s, e.result)
                /\ request' = [request EXCEPT ![s].step = "backfill", ![s].result = e.result]
    BY DEF LooksOnDisk, At
  <1>2. request[s].revision \in 1..Len(past)
    BY <1>1, RequestIsTyped
  <1>3. KeyOf(s) \in Keys /\ KeyOf(s)[1] = request[s].scope /\ KeyOf(s)[2] = request[s].revision
    BY <1>2, KeyIsTyped
  <1>4. SharedFits(shared', past) /\ OwnFits(own, past) /\ shared[3] \subseteq Kept(Oldest3, past)
    <2>1. SharedFits(shared, past) /\ OwnFits(own, past)
      BY RequestIsTyped
    <2> QED
      BY <1>1, <2>1 DEF SharedFits
  <1>5. CASE GoesTo(s, "compute") /\ UNCHANGED own
    <2>1. PICK q \in Asked : /\ Puts(request', request, s, q) /\ q.step = "compute"
                             /\ q.revision = request[s].revision /\ q.wrote = request[s].wrote
                             /\ q.since = request[s].since
      BY <1>5, GoesOn
    <2> QED
      BY <1>1, <1>4, <1>5, <2>1, SearchGoesOn
  <1>6. ASSUME NEW e \in shared[3] \ Over(s), e.key = KeyOf(s), KeepsOwn(s, e.result),
               request' = [request EXCEPT ![s].step = "backfill", ![s].result = e.result]
        PROVE  ViewsInv'
    <2>1. e \in Kept(Oldest3, past)
      BY <1>4
    <2>2. /\ Answering(e.result, request[s].scope, request[s].revision, past)
          /\ e.result.age + e.left <= Oldest3 /\ e.left \in Nat /\ e.result.age \in Nat /\ e.result \in Results
      BY <1>3, <1>6, <2>1 DEF Kept, Entries, Results
    <2>3. e.left # 0
      BY <1>6 DEF Over
    <2>4. e.result.age < Oldest3 /\ e.result.age < Oldest2
      BY <2>2, <2>3, LivesLong
    <2>5. OwnFits(own', past)
      BY <1>2, <1>6, <2>2, <2>4, OwnIsKept
    <2>6. PICK q : q = [request[s] EXCEPT !.step = "backfill", !.result = e.result]
      OBVIOUS
    <2>7. /\ q \in Asked /\ q.step = "backfill" /\ q.result = e.result /\ q.scope = request[s].scope
          /\ q.revision = request[s].revision /\ q.wrote = request[s].wrote /\ q.since = request[s].since
      BY <2>2, <2>6, RequestIsTyped DEF Asked
    <2>8. Puts(request', request, s, q)
      BY <1>6, <2>6, RequestIsTyped DEF Puts
    <2> QED
      BY <1>1, <1>4, <2>2, <2>4, <2>5, <2>7, <2>8, SearchGoesOn
  <1> QED
    BY <1>1, <1>5, <1>6

LEMMA BackfillsKeeps ==
  ASSUME ViewsInv, NEW s \in Servers, Backfills(s)
  PROVE  ViewsInv'
  <1>1. /\ request[s].step = "backfill" /\ shared' \in Stored(s, 2, request[s].result)
        /\ AnswersSearch(s, request[s].result) /\ UNCHANGED <<past, file, graph, own, told>>
    BY DEF Backfills, At
  <1>2. /\ request[s].revision \in 1..Len(past) /\ request[s].since <= request[s].revision
        /\ Answering(request[s].result, request[s].scope, request[s].revision, past)
        /\ request[s].result.age < Oldest3 /\ request[s].result.age \in Nat
    BY <1>1, RequestIsTyped DEF RequestFits
  <1>3. request[s].result.age < Oldest1
    BY <1>2, YoungIsYoung
  <1>4. SharedFits(shared', past)
    BY <1>1, <1>2, SharedIsKept
  <1>5. OwnFits(own', past)
    BY <1>1, RequestIsTyped
  <1> QED
    BY <1>1, <1>2, <1>3, <1>4, <1>5, SearchIsAnswered

\* What was cut is full.
LEMMA FullWhenCut ==
  ASSUME NEW lexical \in SUBSET Facts, NEW kept, kept \in Best(lexical, Limit),
         NEW more \in SUBSET Facts, NEW found, found \in Best(kept \union more, TopK)
  PROVE  /\ found \subseteq lexical \union more
         /\ Full(found) \/ lexical \subseteq found
  <1>1. IsFiniteSet(Facts) /\ Limit \in Nat /\ TopK \in Nat
    BY ViewsAssumption
  <1>2. /\ kept \subseteq lexical /\ found \subseteq kept \union more
        /\ kept \subseteq Facts /\ found \subseteq Facts
    BY DEF Best
  <1>3. IsFiniteSet(kept) /\ IsFiniteSet(found)
    BY <1>1, <1>2, FS_Subset
  <1>4. CASE Cardinality(kept \union more) > TopK \/ Cardinality(lexical) > Limit
    <2>1. IsFiniteSet(kept \union more) /\ IsFiniteSet(lexical)
      BY <1>1, <1>2, FS_Subset
    <2>2. /\ Cardinality(kept \union more) \in Nat /\ Cardinality(lexical) \in Nat
          /\ Cardinality(kept) \in Nat /\ Cardinality(found) \in Nat
      BY <1>3, <2>1, FS_CardinalityType
    <2>3. CASE Cardinality(kept \union more) > TopK
      <3>1. Cardinality(found) = TopK
        BY <1>1, <2>2, <2>3 DEF Best
      <3> QED
        BY <1>1, <1>2, <3>1 DEF Full
    <2>4. CASE Cardinality(kept \union more) <= TopK /\ Cardinality(lexical) > Limit
      <3>1. found = kept \union more
        BY <2>4 DEF Best
      <3>2. Cardinality(kept) = Limit
        BY <1>1, <2>2, <2>4 DEF Best
      <3>3. Cardinality(kept) <= Cardinality(found)
        BY <1>3, <3>1, FS_Subset
      <3> QED
        BY <1>1, <1>2, <2>2, <3>2, <3>3 DEF Full
    <2> QED
      BY <1>1, <1>4, <2>2, <2>3, <2>4
  <1>5. CASE ~(Cardinality(kept \union more) > TopK \/ Cardinality(lexical) > Limit)
    <2>1. IsFiniteSet(kept \union more) /\ IsFiniteSet(lexical)
      BY <1>1, <1>2, FS_Subset
    <2>2. Cardinality(kept \union more) \in Nat /\ Cardinality(lexical) \in Nat
      BY <2>1, FS_CardinalityType
    <2>3. Cardinality(kept \union more) <= TopK /\ Cardinality(lexical) <= Limit
      BY <1>1, <1>5, <2>2
    <2>4. kept = lexical /\ found = kept \union more
      BY <2>3 DEF Best
    <2> QED
      BY <1>2, <2>4
  <1> QED
    BY <1>4, <1>5

\* What is computed is of the revision it was computed from.
Computed(n, found) == [of |-> n, age |-> 0, found |-> found]

LEMMA ComputedAnswers ==
  ASSUME past \in Seq(Bodies), NEW n \in 1..Len(past), NEW scope,
         NEW lexical, lexical \in Best(Lexical(Corpus(past[n], scope)), Limit),
         NEW semantic, semantic \subseteq Semantic(Corpus(past[n], scope)),
         NEW found, found \in Best(lexical \union semantic, TopK)
  PROVE  /\ Answering(Computed(n, found), scope, n, past) /\ Computed(n, found).age = 0
         /\ Computed(n, found) \in Results
  <1>1. past[n] \in Bodies /\ n \in Nat
    OBVIOUS
  <1>2. /\ Lexical(Corpus(past[n], scope)) \subseteq Seen(past[n], scope)
        /\ Semantic(Corpus(past[n], scope)) \subseteq Seen(past[n], scope)
        /\ Seen(past[n], scope) \subseteq Facts
    <2>1. {c[1] : c \in Corpus(past[n], scope)} = Seen(past[n], scope)
      BY <1>1, CorpusIsTyped
    <2>2. \A S \in SUBSET Corpus(past[n], scope) : {c[1] : c \in S} \subseteq Seen(past[n], scope)
      BY <2>1
    <2>3. Lexical(Corpus(past[n], scope)) \subseteq Seen(past[n], scope)
      BY <2>2 DEF Lexical
    <2>4. Semantic(Corpus(past[n], scope)) \subseteq Seen(past[n], scope)
      BY <2>2 DEF Semantic
    <2> QED
      BY <2>3, <2>4 DEF Seen
  <1>3. semantic \subseteq Seen(past[n], scope)
    BY <1>2
  <1>4. /\ found \subseteq Lexical(Corpus(past[n], scope)) \union semantic
        /\ Full(found) \/ Lexical(Corpus(past[n], scope)) \subseteq found
    BY <1>2, <1>3, FullWhenCut
  <1>5. found \subseteq Seen(past[n], scope)
    BY <1>2, <1>3, <1>4
  <1>6. PICK r : r = [of |-> n, age |-> 0, found |-> found]
    OBVIOUS
  <1>7. r.of = n /\ r.age = 0 /\ r.found = found /\ r \in Results
    BY <1>1, <1>2, <1>5, <1>6 DEF Results
  <1>8. Answering(r, scope, n, past)
    BY <1>4, <1>5, <1>7 DEF Answering
  <1> QED
    BY <1>6, <1>7, <1>8 DEF Computed

\* The result of a computation answers the request it was computed for.
LEMMA ComputesAnswer ==
  ASSUME ViewsInv, NEW s \in Servers, Computes(s), request[s].revision \in 1..Len(past)
  PROVE  \E r \in Results :
           /\ Answering(r, request[s].scope, request[s].revision, past) /\ r.age = 0
           /\ KeepsOwn(s, r) /\ shared' \in Stored(s, 2, r)
           /\ request' = [request EXCEPT ![s].step = "store", ![s].result = r]
  <1> DEFINE corpus == Corpus(past[request[s].revision], request[s].scope)
             Result(found) == Computed(request[s].revision, found)
             Keeps(found) == /\ KeepsOwn(s, Result(found)) /\ shared' \in Stored(s, 2, Result(found))
                             /\ request' = [request EXCEPT ![s].step = "store", ![s].result = Result(found)]
  <1>1. PICK works : \E lexical \in Best(Lexical(corpus), Limit),
                        semantic \in Best(IF works THEN Semantic(corpus) ELSE {}, Limit) :
                     \E found \in Best(lexical \union semantic, TopK) : Keeps(found)
    BY Zenon DEF Computes, Computed
  <1>2. PICK lexical \in Best(Lexical(corpus), Limit),
             semantic \in Best(IF works THEN Semantic(corpus) ELSE {}, Limit) :
               \E found \in Best(lexical \union semantic, TopK) : Keeps(found)
    BY <1>1, Zenon
  <1>3. PICK found \in Best(lexical \union semantic, TopK) : Keeps(found)
    BY <1>2, Zenon
  <1>4. past \in Seq(Bodies)
    BY DEF ViewsInv
  <1>5. /\ Answering(Result(found), request[s].scope, request[s].revision, past)
        /\ Result(found).age = 0 /\ Result(found) \in Results
    <2>1. /\ lexical \in Best(Lexical(corpus), Limit)
          /\ semantic \subseteq Semantic(corpus)
          /\ found \in Best(lexical \union semantic, TopK)
      BY DEF Best
    <2> QED
      BY <1>4, <2>1, ComputedAnswers
  <1> QED
    BY <1>3, <1>5, Zenon

LEMMA ComputesKeeps ==
  ASSUME ViewsInv, NEW s \in Servers, Computes(s)
  PROVE  ViewsInv'
  <1>1. request[s].step = "compute" /\ UNCHANGED <<past, file, graph, answer, told>>
    BY DEF Computes, At
  <1>2. request[s].revision \in 1..Len(past)
    BY <1>1, RequestIsTyped
  <1>3. PICK r \in Results :
          /\ Answering(r, request[s].scope, request[s].revision, past) /\ r.age = 0
          /\ KeepsOwn(s, r) /\ shared' \in Stored(s, 2, r)
          /\ request' = [request EXCEPT ![s].step = "store", ![s].result = r]
    BY <1>2, ComputesAnswer
  <1>4. 0 < Oldest2 /\ 0 < Oldest3
    BY YoungIsYoung
  <1>5. OwnFits(own', past)
    BY <1>2, <1>3, <1>4, OwnIsKept
  <1>6. SharedFits(shared', past)
    BY <1>2, <1>3, <1>4, SharedIsKept
  <1>7. PICK q : q = [request[s] EXCEPT !.step = "store", !.result = r]
    OBVIOUS
  <1>8. /\ q \in Asked /\ q.step = "store" /\ q.result = r /\ q.scope = request[s].scope
        /\ q.revision = request[s].revision /\ q.wrote = request[s].wrote /\ q.since = request[s].since
    BY <1>3, <1>7, RequestIsTyped DEF Asked
  <1>9. Puts(request', request, s, q)
    BY <1>3, <1>7, RequestIsTyped DEF Puts
  <1> QED
    BY <1>1, <1>3, <1>5, <1>6, <1>8, <1>9, SearchGoesOn

LEMMA StoresKeeps ==
  ASSUME ViewsInv, NEW s \in Servers, Stores(s)
  PROVE  ViewsInv'
  <1>1. /\ request[s].step = "store" /\ shared' \in Stored(s, 3, request[s].result)
        /\ AnswersSearch(s, request[s].result) /\ UNCHANGED <<past, file, graph, own, told>>
    BY DEF Stores, At
  <1>2. /\ request[s].revision \in 1..Len(past) /\ request[s].since <= request[s].revision
        /\ Answering(request[s].result, request[s].scope, request[s].revision, past)
        /\ request[s].result.age = 0
    BY <1>1, RequestIsTyped DEF RequestFits
  <1>3. request[s].result.age < Oldest1
    BY <1>2, YoungIsYoung
  <1>4. SharedFits(shared', past)
    BY <1>1, <1>2, SharedIsKept
  <1>5. OwnFits(own', past)
    BY <1>1, RequestIsTyped
  <1> QED
    BY <1>1, <1>2, <1>3, <1>4, <1>5, SearchIsAnswered

\* Time passes: what an entry gets older it has less left.
LEMMA EntryAges ==
  ASSUME NEW p, NEW bound \in Nat, NEW e \in Kept(bound, p)
  PROVE  Ages(e) \in Kept(bound, p)
  <1>1. /\ e \in Entries /\ e.key \in Keys /\ e.result \in Results /\ e.left \in Nat /\ e.result.age \in Nat
        /\ e.result.age + e.left <= bound /\ Answering(e.result, e.key[1], e.key[2], p)
    BY DEF Kept, Entries, Results
  <1>2. CASE e.left = 0
    BY <1>2 DEF Ages
  <1>3. CASE e.left # 0
    <2>1. PICK r : r = Older(e.result)
      OBVIOUS
    <2>2. r \in Results /\ r.of = e.result.of /\ r.found = e.result.found /\ r.age = e.result.age + 1
      BY <1>1, <2>1 DEF Results, Older
    <2>3. PICK f : f = [e EXCEPT !.left = e.left - 1, !.result = r]
      OBVIOUS
    <2>4. f \in Entries /\ f.key = e.key /\ f.result = r /\ f.left = e.left - 1 /\ f.left \in Nat
      <3>1. e.left - 1 \in Nat
        BY <1>1, <1>3
      <3>2. PICK n \in Nat : n = e.left - 1
        BY <3>1
      <3>3. f = [e EXCEPT !.left = n, !.result = r]
        BY <2>3, <3>2
      <3> QED
        BY <1>1, <2>2, <3>2, <3>3 DEF Entries
    <2>5. Ages(e) = f
      BY <1>3, <2>1, <2>3, Zenon DEF Ages
    <2>7. f.result.age + f.left <= bound
      BY <1>1, <1>3, <2>2, <2>4
    <2>8. Answering(f.result, f.key[1], f.key[2], p)
      BY <1>1, <2>2, <2>4 DEF Answering
    <2> QED
      BY <2>4, <2>5, <2>7, <2>8 DEF Kept
  <1> QED
    BY <1>2, <1>3

LEMMA TickKeeps ==
  ASSUME ViewsInv, Tick
  PROVE  ViewsInv'
  <1>1. /\ own' = [s \in Servers |-> [i \in DOMAIN own[s] |-> Ages(own[s][i])]]
        /\ shared' = [shared EXCEPT ![2] = {f \in {Ages(e) : e \in shared[2]} : f.left > 0},
                                    ![3] = {Ages(e) : e \in shared[3]}]
        /\ UNCHANGED <<past, file, graph, request, answer, told>>
    BY DEF Tick
  <1>2. past \in Seq(Bodies) /\ Len(past) >= 1 /\ ViewsFit(past)
    BY DEF ViewsInv
  <1>3. ASSUME NEW s \in Servers  PROVE own'[s] \in Seq(Kept(Oldest1, past))
    <2>1. own[s] \in Seq(Kept(Oldest1, past))
      BY <1>2 DEF ViewsFit, OwnFits
    <2>2. PICK n \in Nat : n = Len(own[s]) /\ DOMAIN own[s] = 1..n
      BY <2>1
    <2>3. \A i \in 1..n : own[s][i] \in Kept(Oldest1, past)
      BY <2>1, <2>2
    <2>4. \A i \in 1..n : Ages(own[s][i]) \in Kept(Oldest1, past)
      BY <2>3, EntryAges, LivesLong
    <2>5. own'[s] = [i \in 1..n |-> Ages(own[s][i])]
      BY <1>1, <2>2
    <2>6. own'[s] \in [1..n -> Kept(Oldest1, past)]
      BY <2>4, <2>5
    <2> QED
      BY <2>2, <2>6, SeqDef
  <1>4. OwnFits(own', past)
    BY <1>1, <1>3 DEF OwnFits
  <1>5. SharedFits(shared', past)
    <2>1. /\ DOMAIN shared = 2..3 /\ shared[2] \subseteq Kept(Oldest2, past) /\ shared[3] \subseteq Kept(Oldest3, past)
      BY <1>2 DEF ViewsFit, SharedFits
    <2>2. \A e \in shared[2] : Ages(e) \in Kept(Oldest2, past)
      BY <2>1, EntryAges, LivesLong
    <2>3. \A e \in shared[3] : Ages(e) \in Kept(Oldest3, past)
      BY <2>1, EntryAges, LivesLong
    <2>4. /\ DOMAIN shared' = 2..3 /\ shared'[2] = {f \in {Ages(e) : e \in shared[2]} : f.left > 0}
          /\ shared'[3] = {Ages(e) : e \in shared[3]}
      BY <1>1, <2>1
    <2> QED
      BY <2>2, <2>3, <2>4 DEF SharedFits
  <1>6. ViewsFit(past)'
    BY <1>1, <1>2, <1>4, <1>5 DEF ViewsFit
  <1> QED
    BY <1>1, <1>2, <1>6 DEF ViewsInv

-----------------------------------------------------------------------------
(* SearchViews: the graph, the writes, the processes.                      *)

\* A request begins with what is confirmed by then.
LEMMA BeginsKeeps ==
  ASSUME ViewsInv, Grown, NEW s \in Servers, NEW new \in Asked, Begins(s, new),
         UNCHANGED <<file, graph, told>>, OwnFits(own', past'), SharedFits(shared', past'),
         new.wrote <= Len(past'), new.step \in {"build", "clear", "flush", "view"},
         new.step = "view" => graph[s] # NoGraph /\ graph[s].revision = Len(past)
  PROVE  ViewsInv'
  <1>1. PICK q : q = [new EXCEPT !.since = told]
    OBVIOUS
  <1>2. told \in Nat /\ told <= Len(past) /\ Len(past) \in Nat /\ GraphFits(graph[s], past)
    BY RequestIsTyped
  <1>3. q \in Asked /\ q.step = new.step /\ q.wrote = new.wrote /\ q.since = told
    BY <1>1, <1>2 DEF Asked
  <1>4. past' \in Seq(Bodies) /\ Len(past') >= 1 /\ Len(past') >= Len(past) /\ ViewsFit(past')
    BY PastGrows
  <1>5. told <= Len(past') /\ GraphFits(graph[s], past') /\ GraphFits(file, past')
    BY <1>4 DEF ViewsFit
  <1>6. RequestFits(q, graph[s], past')
    BY <1>2, <1>3, <1>5 DEF RequestFits
  <1>7. AnswerFits(NoAnswer, past')
    BY <1>4, NothingAsked
  <1>8. request' = [request EXCEPT ![s] = q] /\ answer' = [answer EXCEPT ![s] = NoAnswer]
    BY <1>1 DEF Begins
  <1>9. Puts(request', request, s, q) /\ Puts(answer', answer, s, NoAnswer) /\ Puts(graph', graph, s, graph[s])
    BY <1>8, RequestIsTyped, PutsOne
  <1> QED
    BY <1>2, <1>5, <1>6, <1>7, <1>9, ServerGoesOn

\* A request ends with no more than a word.
LEMMA ReplyKeeps ==
  ASSUME ViewsInv, NEW s \in Servers, NEW kind, kind \notin {"search", "graph"}, Replies(s, kind),
         past' = past, NEW g, Puts(graph', graph, s, g), GraphFits(g, past), GraphFits(file', past),
         OwnFits(own', past), SharedFits(shared', past), told' \in Nat, told' <= Len(past)
  PROVE  ViewsInv'
  <1>1. PICK a : a = [NoAnswer EXCEPT !.kind = kind, !.since = request[s].since]
    OBVIOUS
  <1>2. a.kind = kind /\ a.age = 0
    BY <1>1 DEF NoAnswer
  <1>3. AnswerFits(a, past)
    BY <1>2, YoungIsYoung DEF AnswerFits
  <1>4. request' = [request EXCEPT ![s] = Unasked] /\ answer' = [answer EXCEPT ![s] = a]
    BY <1>1 DEF Replies
  <1>5. Puts(request', request, s, Unasked) /\ Puts(answer', answer, s, a)
    BY <1>4, RequestIsTyped, PutsOne
  <1>6. RequestFits(Unasked, g, past) /\ Grown
    BY NothingAsked DEF ViewsInv, Grown
  <1> QED
    BY <1>3, <1>5, <1>6, ServerGoesOn

LEMMA ConfirmsKeeps ==
  ASSUME ViewsInv, NEW s \in Servers, Confirms(s)
  PROVE  told' \in Nat /\ told' <= Len(past)
  <1>1. request[s].wrote <= Len(past) /\ request[s].wrote \in Nat /\ told \in Nat /\ told <= Len(past)
    BY RequestIsTyped DEF RequestFits
  <1> QED
    BY <1>1 DEF Confirms

LEMMA RebuildFailsKeeps ==
  ASSUME ViewsInv, NEW s \in Servers, RebuildFails(s), UNCHANGED <<past, file, graph, own, shared>>
  PROVE  ViewsInv'
  <1>1. PICK kind \in {"degraded", "failed"} : Replies(s, kind) /\ (Confirms(s) \/ told' = told)
    BY DEF RebuildFails
  <1>2. told' \in Nat /\ told' <= Len(past)
    BY <1>1, ConfirmsKeeps, RequestIsTyped
  <1>3. Puts(graph', graph, s, graph[s])
    BY RequestIsTyped, PutsOne
  <1> QED
    BY <1>1, <1>2, <1>3, RequestIsTyped, ReplyKeeps

LEMMA BuildLoadsKeeps ==
  ASSUME ViewsInv, NEW s \in Servers, BuildLoads(s)
  PROVE  ViewsInv'
  <1>1. PICK q : q = [request[s] EXCEPT !.step = "check", !.revision = newest]
    OBVIOUS
  <1>2. /\ request[s] \in Asked /\ Len(past) \in Nat /\ Len(past) >= 1 /\ newest = Len(past)
        /\ request[s].since <= Len(past) /\ request[s].wrote <= Len(past)
    BY RequestIsTyped DEF RequestFits, newest
  <1>3. /\ q \in Asked /\ q.step = "check" /\ q.revision = Len(past)
        /\ q.since = request[s].since /\ q.wrote = request[s].wrote
    BY <1>1, <1>2 DEF Asked
  <1>4. RequestFits(q, graph[s], past)
    BY <1>2, <1>3 DEF RequestFits
  <1>5. Puts(request', request, s, q)
    BY <1>1, RequestIsTyped DEF BuildLoads, Puts
  <1>6. UNCHANGED <<past, file, graph, own, shared, answer, told>>
    BY DEF BuildLoads
  <1> QED
    BY <1>4, <1>5, <1>6, RequestIsTyped, AnswerStays

LEMMA BuildChecksKeeps ==
  ASSUME ViewsInv, NEW s \in Servers, BuildChecks(s)
  PROVE  ViewsInv'
  <1>1. request[s].step = "check" /\ GoesTo(s, "save") /\ UNCHANGED <<past, file, graph, own, shared, answer, told>>
    BY DEF BuildChecks, At
  <1>2. PICK q \in Asked : /\ Puts(request', request, s, q) /\ q.step = "save"
                           /\ q.revision = request[s].revision /\ q.wrote = request[s].wrote
                           /\ q.since = request[s].since
    BY <1>1, GoesOn
  <1>3. RequestFits(q, graph[s], past)
    <2>1. /\ request[s].wrote <= Len(past) /\ request[s].since <= Len(past)
          /\ request[s].revision \in 1..Len(past) /\ request[s].since <= request[s].revision
      BY <1>1, RequestIsTyped DEF RequestFits
    <2> QED
      BY <1>2, <2>1 DEF RequestFits
  <1> QED
    BY <1>1, <1>2, <1>3, RequestIsTyped, AnswerStays

\* What is saved is the projection of the revision that was loaded.
LEMMA BuildSavesKeeps ==
  ASSUME ViewsInv, NEW s \in Servers, BuildSaves(s)
  PROVE  ViewsInv'
  <1>1. /\ request[s].step = "save" /\ file' = Projection(s) /\ graph' = [graph EXCEPT ![s] = Projection(s)]
        /\ UNCHANGED <<past, own, shared>>
        /\ \/ GoesTo(s, "view") /\ UNCHANGED <<answer, told>>
           \/ Replies(s, "done") /\ Confirms(s)
    BY DEF BuildSaves, At
  <1>2. /\ request[s].revision \in 1..Len(past) /\ request[s].since <= request[s].revision
        /\ request[s].wrote <= Len(past) /\ request[s].since <= Len(past)
    BY <1>1, RequestIsTyped DEF RequestFits
  <1>3. PICK g : g = Projection(s)
    OBVIOUS
  <1>4. past[request[s].revision] \in Bodies
    BY <1>2 DEF ViewsInv
  <1>5. g.revision = request[s].revision /\ g.nodes = NodesOf(past[request[s].revision]) /\ g \in Graphs
    BY <1>3, <1>4, RequestIsTyped, CorpusIsTyped DEF Projection, Graphs
  <1>6. GraphFits(g, past) /\ g # NoGraph
    BY <1>2, <1>5 DEF GraphFits, NoGraph
  <1>7. Puts(graph', graph, s, g)
    BY <1>1, <1>3, RequestIsTyped, PutsOne
  <1>8. CASE GoesTo(s, "view") /\ UNCHANGED <<answer, told>>
    <2>1. PICK q \in Asked : /\ Puts(request', request, s, q) /\ q.step = "view"
                             /\ q.revision = request[s].revision /\ q.wrote = request[s].wrote
                             /\ q.since = request[s].since
      BY <1>8, GoesOn
    <2>2. RequestFits(q, g, past)
      BY <1>2, <1>5, <1>6, <2>1 DEF RequestFits
    <2>3. Puts(answer', answer, s, answer[s])
      BY <1>8, RequestIsTyped, PutsOne
    <2> QED
      BY <1>1, <1>3, <1>6, <1>7, <1>8, <2>1, <2>2, <2>3, RequestIsTyped, ServerGoesOn DEF Grown
  <1>9. CASE Replies(s, "done") /\ Confirms(s)
    <2>1. told' \in Nat /\ told' <= Len(past)
      BY <1>9, ConfirmsKeeps
    <2> QED
      BY <1>1, <1>3, <1>6, <1>7, <1>9, <2>1, RequestIsTyped, ReplyKeeps
  <1> QED
    BY <1>1, <1>8, <1>9

\* What a scope shows of a projection: its memories and what they mention.
LEMMA NodesShow ==
  ASSUME NEW body \in Bodies, NEW scope, NEW nodes, nodes = NodesOf(body),
         NEW admitted, \A m \in admitted : InScope(m, scope)
  PROVE  /\ {n[1] : n \in {k \in nodes : InScope(k[1], scope)}} = Eligible(body) \cap Seen(body, scope)
         /\ UNION {Topics[n[2]] : n \in {k \in nodes : k[1] \in admitted}}
              \subseteq UNION {Topics[body[m].text] : m \in Eligible(body) \cap Seen(body, scope)}
  <1>1. \A n \in nodes : \E m \in Eligible(body) : n = <<m, body[m].text>>
    BY DEF NodesOf
  <1>2. \A m \in Eligible(body) : <<m, body[m].text>> \in nodes
    BY DEF NodesOf
  <1>3. \A m \in Eligible(body) : InScope(m, scope) <=> m \in Seen(body, scope)
    BY DEF Eligible, Seen
  <1>4. ASSUME NEW n \in nodes
        PROVE  n[1] \in Eligible(body) /\ n[2] = body[n[1]].text
    <2>1. PICK m \in Eligible(body) : n = <<m, body[m].text>>
      BY <1>1
    <2>2. n[1] = m /\ n[2] = body[m].text
      BY <2>1
    <2> QED
      BY <2>2
  <1>5. ASSUME NEW m \in Eligible(body) \cap Seen(body, scope)
        PROVE  \E n \in nodes : n[1] = m /\ InScope(n[1], scope)
    <2>1. PICK n : n = <<m, body[m].text>>
      OBVIOUS
    <2>2. n[1] = m /\ n \in nodes
      BY <1>2, <2>1
    <2> QED
      BY <1>3, <2>2
  <1>6. {n[1] : n \in {k \in nodes : InScope(k[1], scope)}} = Eligible(body) \cap Seen(body, scope)
    BY <1>3, <1>4, <1>5
  <1>7. ASSUME NEW n \in nodes, n[1] \in admitted
        PROVE  \E m \in Eligible(body) \cap Seen(body, scope) : Topics[n[2]] = Topics[body[m].text]
    BY <1>3, <1>4, <1>7
  <1> QED
    BY <1>6, <1>7

LEMMA ViewsKeeps ==
  ASSUME ViewsInv, NEW s \in Servers, Views(s)
  PROVE  ViewsInv'
  <1>1. PICK scope, nodes, a :
          /\ scope = request[s].scope /\ nodes = graph[s].nodes
          /\ a = [NoAnswer EXCEPT !.kind = "graph", !.scope = scope, !.revision = graph[s].revision,
                    !.found = {n[1] : n \in {k \in nodes : InScope(k[1], scope)}},
                    !.topics = UNION {Topics[n[2]] : n \in {k \in nodes : k[1] \in Admitted(scope)}},
                    !.since = request[s].since]
    OBVIOUS
  <1>2. /\ request[s].step = "view" /\ request' = [request EXCEPT ![s] = Unasked]
        /\ answer' = [answer EXCEPT ![s] = a] /\ UNCHANGED <<past, file, graph, own, shared, told>>
    BY <1>1, Zenon DEF Views, At
  <1>3. /\ graph[s] # NoGraph /\ request[s].since <= graph[s].revision
        /\ graph[s].revision \in 1..Len(past) /\ nodes = NodesOf(past[graph[s].revision])
    BY <1>1, <1>2, RequestIsTyped DEF RequestFits, GraphFits
  <1>4. past[graph[s].revision] \in Bodies /\ memories \in Bodies
    BY <1>3, RequestIsTyped DEF ViewsInv, memories, newest
  <1>5. \A m \in Admitted(scope) : InScope(m, scope)
    BY <1>4, CorpusIsTyped DEF Admitted, Seen
  <1>6. /\ a.kind = "graph" /\ a.scope = scope /\ a.revision = graph[s].revision /\ a.age = 0
        /\ a.found = {n[1] : n \in {k \in nodes : InScope(k[1], scope)}}
        /\ a.topics = UNION {Topics[n[2]] : n \in {k \in nodes : k[1] \in Admitted(scope)}}
        /\ a.since = request[s].since
    BY <1>1 DEF NoAnswer
  <1>7. /\ a.found = Eligible(past[a.revision]) \cap Seen(past[a.revision], a.scope)
        /\ a.topics \subseteq UNION {Topics[past[a.revision][m].text] : m \in a.found}
    <2>1. PICK body \in Bodies : body = past[graph[s].revision] /\ nodes = NodesOf(body)
      BY <1>3, <1>4
    <2>2. /\ {n[1] : n \in {k \in nodes : InScope(k[1], scope)}} = Eligible(body) \cap Seen(body, scope)
          /\ UNION {Topics[n[2]] : n \in {k \in nodes : k[1] \in Admitted(scope)}}
               \subseteq UNION {Topics[body[m].text] : m \in Eligible(body) \cap Seen(body, scope)}
      BY <1>5, <2>1, NodesShow
    <2>3. body = past[a.revision] /\ a.scope = scope
      BY <1>6, <2>1
    <2>4. a.found = Eligible(body) \cap Seen(body, scope)
      BY <1>6, <2>2
    <2>5. a.topics \subseteq UNION {Topics[body[m].text] : m \in a.found}
      BY <1>6, <2>2, <2>4
    <2> QED
      BY <2>3, <2>4, <2>5
  <1>8. AnswerFits(a, past)
    BY <1>3, <1>6, <1>7, YoungIsYoung DEF AnswerFits
  <1>9. Puts(request', request, s, Unasked) /\ Puts(answer', answer, s, a) /\ Puts(graph', graph, s, graph[s])
    BY <1>2, RequestIsTyped, PutsOne
  <1>10. RequestFits(Unasked, graph[s], past)
    BY NothingAsked DEF ViewsInv
  <1> QED
    BY <1>2, <1>8, <1>9, <1>10, RequestIsTyped, ServerGoesOn DEF Grown

LEMMA AsksKeep ==
  ASSUME ViewsInv, NEW s \in Servers, Rebuild(s) \/ \E scope \in Scopes : AskGraph(s, scope)
  PROVE  ViewsInv'
  <1>1. PICK new \in Asked : /\ Begins(s, new) /\ new.step \in {"build", "view"} /\ new.wrote = 0
                             /\ new.step = "view" => Running(s) /\ Current(s)
    <2>1. CASE Rebuild(s)
      <3>1. PICK new : new = [Unasked EXCEPT !.op = "rebuild", !.step = "build"]
        OBVIOUS
      <3>2. new \in Asked /\ new.step = "build" /\ new.wrote = 0
        BY <3>1, NothingAsked DEF Unasked, Asked
      <3> QED
        BY <2>1, <3>1, <3>2 DEF Rebuild
    <2>2. ASSUME NEW scope \in Scopes, AskGraph(s, scope)
          PROVE  \E new \in Asked : /\ Begins(s, new) /\ new.step \in {"build", "view"} /\ new.wrote = 0
                                    /\ new.step = "view" => Running(s) /\ Current(s)
      <3>1. PICK step : step = IF Current(s) THEN "view" ELSE "build"
        OBVIOUS
      <3>2. PICK new : new = [Unasked EXCEPT !.op = "graph", !.scope = scope, !.step = step]
        OBVIOUS
      <3>3. new \in Asked /\ new.step = step /\ new.wrote = 0
        BY <3>1, <3>2, NothingAsked DEF Unasked, Asked
      <3>4. Begins(s, new) /\ Running(s)
        BY <2>2, <3>1, <3>2 DEF AskGraph
      <3> QED
        BY <3>1, <3>3, <3>4
    <2> QED
      BY <2>1, <2>2
  <1>4. UNCHANGED <<past, file, graph, own, shared, told>>
    BY DEF Rebuild, AskGraph
  <1>5. new.step = "view" => graph[s] # NoGraph /\ graph[s].revision = Len(past)
    BY <1>1 DEF Running, Current, newest
  <1>6. 0 <= Len(past) /\ Grown
    BY <1>4, RequestIsTyped DEF Grown
  <1> QED
    BY <1>1, <1>4, <1>5, <1>6, RequestIsTyped, BeginsKeeps

LEMMA ChangeIsTyped ==
  ASSUME ViewsInv, NEW m \in Facts, NEW change \in Changed(m)
  PROVE  change[1] \in {"create", "update", "delete"} /\ [memories EXCEPT ![m] = change[2]] \in Bodies
  <1>1. memories \in Bodies
    <2>1. newest \in 1..Len(past)
      BY RequestIsTyped DEF newest, ViewsInv
    <2> QED
      BY <2>1 DEF ViewsInv, memories
  <1>2. PICK now \in Written : now = memories[m]
    BY <1>1 DEF Bodies, Written
  <1>3. change \in {"create", "update", "delete"} \X Written
    <2>1. CASE now.status = "none"
      <3>1. Changed(m) = {<<"create", [text |-> t, status |-> st]>> : t \in Texts, st \in {"draft", "active"}}
        BY <1>2, <2>1 DEF Changed
      <3>2. PICK t \in Texts, st \in {"draft", "active"} : change = <<"create", [text |-> t, status |-> st]>>
        BY <3>1
      <3>3. [text |-> t, status |-> st] \in Written
        BY <3>2 DEF Written, Standings
      <3> QED
        BY <3>2, <3>3
    <2>2. CASE now.status # "none"
      <3>1. /\ now.status # "closed"
            /\ change \in {<<"update", [now EXCEPT !.text = t]>> : t \in Texts \ {now.text}}
                 \union {<<"update", [now EXCEPT !.status = "closed"]>>, <<"delete", [now EXCEPT !.status = "closed"]>>}
        BY <1>2, <2>2 DEF Changed
      <3>2. PICK closed : closed = [now EXCEPT !.status = "closed"]
        OBVIOUS
      <3>3. closed \in Written
        BY <3>2 DEF Written, Standings
      <3>4. CASE change \in {<<"update", [now EXCEPT !.text = t]>> : t \in Texts \ {now.text}}
        <4>1. PICK t \in Texts : change = <<"update", [now EXCEPT !.text = t]>>
          BY <3>4
        <4>2. PICK new : new = [now EXCEPT !.text = t]
          OBVIOUS
        <4>3. new \in Written
          BY <4>2 DEF Written
        <4> QED
          BY <4>1, <4>2, <4>3
      <3>5. CASE change \in {<<"update", closed>>, <<"delete", closed>>}
        BY <3>3, <3>5
      <3> QED
        BY <3>1, <3>2, <3>4, <3>5
    <2> QED
      BY <2>1, <2>2
  <1>4. change[1] \in {"create", "update", "delete"} /\ change[2] \in Written
    BY <1>3
  <1> QED
    BY <1>1, <1>4 DEF Bodies, Written

LEMMA CommitsKeeps ==
  ASSUME ViewsInv, NEW s \in Servers, Commits(s)
  PROVE  ViewsInv'
  <1>00. PICK m \in Facts : \E c \in Changed(m) :
          /\ past' = Append(past, [memories EXCEPT ![m] = c[2]])
          /\ Begins(s, [Unasked EXCEPT !.op = c[1], !.step = "clear", !.wrote = newest + 1])
    BY Zenon DEF Commits
  <1>1. PICK change \in Changed(m) :
          /\ past' = Append(past, [memories EXCEPT ![m] = change[2]])
          /\ Begins(s, [Unasked EXCEPT !.op = change[1], !.step = "clear", !.wrote = newest + 1])
    BY <1>00, Zenon
  <1>2. PICK body \in Bodies : body = [memories EXCEPT ![m] = change[2]]
    BY ChangeIsTyped
  <1>3. past' = Append(past, body) /\ Grown
    BY <1>1, <1>2 DEF Grown
  <1>4. PICK op \in {"create", "update", "delete"} : op = change[1]
    BY ChangeIsTyped
  <1>5. Len(past') = Len(past) + 1 /\ newest = Len(past) /\ Len(past) \in Nat
    BY <1>3, AppendProperties DEF ViewsInv, newest
  <1>b. PICK n \in Nat : n = newest + 1 /\ n = Len(past')
    BY <1>5
  <1>6. PICK new : new = [Unasked EXCEPT !.op = op, !.step = "clear", !.wrote = n]
    OBVIOUS
  <1>7. new \in Asked /\ new.step = "clear" /\ new.wrote = Len(past')
    BY <1>b, <1>6, NothingAsked DEF Unasked, Asked
  <1>8. UNCHANGED <<file, graph, own, shared, told>>
    BY DEF Commits
  <1>9. OwnFits(own', past') /\ SharedFits(shared', past')
    BY <1>3, <1>8, PastGrows DEF ViewsFit
  <1>10. Begins(s, new) /\ new.wrote <= Len(past')
    BY <1>1, <1>b, <1>4, <1>5, <1>6, <1>7
  <1> QED
    BY <1>3, <1>7, <1>8, <1>9, <1>10, BeginsKeeps

LEMMA EmptyFits ==
  ASSUME ViewsInv, NEW s \in Servers, NEW level \in 2..3
  PROVE  /\ OwnFits([own EXCEPT ![s] = <<>>], past)
         /\ SharedFits([shared EXCEPT ![level] = {}], past)
  <1>1. OwnFits(own, past) /\ SharedFits(shared, past)
    BY RequestIsTyped
  <1>2. <<>> \in Seq(Kept(Oldest1, past))
    BY EmptySeq
  <1> QED
    BY <1>1, <1>2 DEF OwnFits, SharedFits

\* A server goes on to a step in which it has nothing to keep.
LEMMA WorkGoesOn ==
  ASSUME ViewsInv, NEW s \in Servers, NEW step \in {"flush", "build"}, GoesTo(s, step),
         UNCHANGED <<past, file, graph, answer, told>>, OwnFits(own', past), SharedFits(shared', past)
  PROVE  ViewsInv'
  <1>1. PICK q \in Asked : /\ Puts(request', request, s, q) /\ q.step = step
                           /\ q.wrote = request[s].wrote /\ q.since = request[s].since
    BY GoesOn
  <1>2. request[s].wrote <= Len(past) /\ request[s].since <= Len(past)
    BY RequestIsTyped DEF RequestFits
  <1>3. RequestFits(q, graph[s], past)
    BY <1>1, <1>2 DEF RequestFits
  <1> QED
    BY <1>1, <1>3, AnswerStays

LEMMA ClearsKeeps ==
  ASSUME ViewsInv, NEW s \in Servers, Clears(s)
  PROVE  ViewsInv'
  <1>1. /\ own' = [own EXCEPT ![s] = <<>>] /\ shared' = [shared EXCEPT ![3] = {}]
        /\ UNCHANGED <<past, file, graph, told>>
        /\ \/ GoesTo(s, "flush") /\ UNCHANGED answer
           \/ Begins(s, [Unasked EXCEPT !.op = "clear", !.step = "flush"])
    BY DEF Clears
  <1>2. OwnFits(own', past) /\ SharedFits(shared', past)
    <2>1. 3 \in 2..3
      OBVIOUS
    <2> QED
      BY <1>1, <2>1, EmptyFits
  <1>3. CASE GoesTo(s, "flush") /\ UNCHANGED answer
    BY <1>1, <1>2, <1>3, WorkGoesOn
  <1>4. CASE Begins(s, [Unasked EXCEPT !.op = "clear", !.step = "flush"])
    <2>1. PICK new : new = [Unasked EXCEPT !.op = "clear", !.step = "flush"]
      OBVIOUS
    <2>2. new \in Asked /\ new.step = "flush" /\ new.wrote = 0
      BY <2>1, NothingAsked DEF Unasked, Asked
    <2>3. 0 <= Len(past) /\ Grown /\ Begins(s, new)
      BY <1>1, <1>4, <2>1, RequestIsTyped DEF Grown
    <2> QED
      BY <1>1, <1>2, <2>2, <2>3, BeginsKeeps
  <1> QED
    BY <1>1, <1>3, <1>4

LEMMA FlushesKeeps ==
  ASSUME ViewsInv, NEW s \in Servers, Flushes(s)
  PROVE  ViewsInv'
  <1>1. /\ shared' \in {shared, [shared EXCEPT ![2] = {}]}
        /\ UNCHANGED <<past, file, graph, own, told>>
        /\ \/ Replies(s, "done")
           \/ GoesTo(s, "build") /\ UNCHANGED answer
    BY DEF Flushes
  <1>2. OwnFits(own', past) /\ SharedFits(shared', past)
    <2>1. 2 \in 2..3
      OBVIOUS
    <2> QED
      BY <1>1, <2>1, EmptyFits, RequestIsTyped
  <1>3. CASE Replies(s, "done")
    <2>1. Puts(graph', graph, s, graph[s])
      BY <1>1, RequestIsTyped, PutsOne
    <2> QED
      BY <1>1, <1>2, <1>3, <2>1, RequestIsTyped, ReplyKeeps
  <1>4. CASE GoesTo(s, "build") /\ UNCHANGED answer
    BY <1>1, <1>2, <1>4, WorkGoesOn
  <1> QED
    BY <1>1, <1>3, <1>4

LEMMA StopsKeeps ==
  ASSUME ViewsInv, NEW s \in Servers, Stops(s)
  PROVE  ViewsInv'
  <1>1. /\ graph' = [graph EXCEPT ![s] = NoGraph] /\ own' = [own EXCEPT ![s] = <<>>]
        /\ request' = [request EXCEPT ![s] = Unasked] /\ answer' = [answer EXCEPT ![s] = NoAnswer]
        /\ UNCHANGED <<past, file, shared, told>>
    BY DEF Stops
  <1>2. Puts(request', request, s, Unasked) /\ Puts(answer', answer, s, NoAnswer) /\ Puts(graph', graph, s, NoGraph)
    BY <1>1, RequestIsTyped, PutsOne
  <1>3. GraphFits(NoGraph, past)
    BY DEF GraphFits, NoGraph, Graphs
  <1>4. RequestFits(Unasked, NoGraph, past) /\ AnswerFits(NoAnswer, past)
    BY NothingAsked DEF ViewsInv
  <1>5. OwnFits(own', past)
    <2>1. 2 \in 2..3
      OBVIOUS
    <2> QED
      BY <1>1, <2>1, EmptyFits
  <1> QED
    BY <1>1, <1>2, <1>3, <1>4, <1>5, RequestIsTyped, ServerGoesOn DEF Grown

\* Steps of others: the memory may have one more revision.
LEMMA OthersKeep ==
  ASSUME ViewsInv, Grown, UNCHANGED <<file, graph, own, shared, request, answer, told>>
  PROVE  ViewsInv'
  <1>1. past' \in Seq(Bodies) /\ Len(past') >= 1 /\ ViewsFit(past')
    BY PastGrows
  <1>2. ViewsFit(past)'
    BY <1>1 DEF ViewsFit
  <1> QED
    BY <1>1, <1>2 DEF ViewsInv

LEMMA ViewsStart ==
  ASSUME ViewsInit
  PROVE  ViewsInv
  <1>1. PICK m \in Facts, st \in {"active", "closed"} :
          past = <<[Nothing EXCEPT ![m] = [text |-> CHOOSE t \in Texts : TRUE, status |-> st]]>>
    BY DEF ViewsInit
  <1>2. PICK t \in Texts : t = CHOOSE u \in Texts : TRUE
    BY ViewsAssumption
  <1>3. PICK body : body = [Nothing EXCEPT ![m] = [text |-> t, status |-> st]]
    OBVIOUS
  <1>4. body \in Bodies
    BY <1>3 DEF Nothing, Bodies, Standings
  <1>5. past = <<body>>
    BY <1>1, <1>2, <1>3
  <1>6. past \in Seq(Bodies) /\ Len(past) = 1
    BY <1>4, <1>5
  <1>7. /\ file = NoGraph /\ graph = [s \in Servers |-> NoGraph]
        /\ own = [s \in Servers |-> <<>>] /\ shared = [level \in 2..3 |-> {}]
        /\ request = [s \in Servers |-> Unasked] /\ answer = [s \in Servers |-> NoAnswer] /\ told = 0
    BY DEF ViewsInit
  <1>8. GraphFits(NoGraph, past)
    BY DEF GraphFits, NoGraph, Graphs
  <1>9. OwnFits(own, past)
    <2>1. <<>> \in Seq(Kept(Oldest1, past))
      BY EmptySeq
    <2> QED
      BY <1>7, <2>1 DEF OwnFits
  <1>10. SharedFits(shared, past)
    BY <1>7 DEF SharedFits
  <1>11. AnswerFits(NoAnswer, past) /\ \A g : RequestFits(Unasked, g, past)
    BY <1>6, NothingAsked
  <1>12. ViewsFit(past)
    BY <1>6, <1>7, <1>8, <1>9, <1>10, <1>11 DEF ViewsFit
  <1> QED
    BY <1>6, <1>12 DEF ViewsInv

LEMMA ViewsStepKeeps ==
  ASSUME ViewsInv, [ViewsNext]_viewVars
  PROVE  ViewsInv'
  <1>1. ASSUME NEW s \in Servers, Searching(s)  PROVE ViewsInv'
    BY <1>1, SearchKeeps, LooksUpKeeps, LooksOnDiskKeeps, BackfillsKeeps, ComputesKeeps, StoresKeeps DEF Searching
  <1>2. ASSUME NEW s \in Servers, Graphing(s)  PROVE ViewsInv'
    BY <1>2, AsksKeep, ViewsKeeps DEF Graphing
  <1>3. ASSUME NEW s \in Servers, Building(s)  PROVE ViewsInv'
    <2>1. CASE BuildRefused(s) \/ BuildCannotSave(s)
      BY <2>1, RebuildFailsKeeps DEF BuildRefused, BuildCannotSave
    <2> QED
      BY <1>3, <2>1, AsksKeep, BuildLoadsKeeps, BuildChecksKeeps, BuildSavesKeeps DEF Building
  <1>4. ASSUME NEW s \in Servers, Writing(s)  PROVE ViewsInv'
    BY <1>4, CommitsKeeps, ClearsKeeps, FlushesKeeps DEF Writing
  <1>5. ASSUME NEW s \in Servers, Stops(s)  PROVE ViewsInv'
    BY <1>5, StopsKeeps
  <1>6. CASE WrittenElsewhere
    <2>a. PICK m \in Facts : \E c \in Changed(m) : past' = Append(past, [memories EXCEPT ![m] = c[2]])
      BY <1>6, Zenon DEF WrittenElsewhere
    <2>1. PICK change \in Changed(m) : past' = Append(past, [memories EXCEPT ![m] = change[2]])
      BY <2>a, Zenon
    <2>2. Grown
      BY <2>1, ChangeIsTyped DEF Grown
    <2> QED
      BY <1>6, <2>2, OthersKeep DEF WrittenElsewhere
  <1>7. CASE Indexing \/ ProjectChanges \/ UNCHANGED viewVars
    <2>1. UNCHANGED <<past, file, graph, own, shared, request, answer, told>>
      BY <1>7 DEF Indexing, Embeds, Saves, ClearsIndex, ProjectChanges, viewVars
    <2> QED
      BY <2>1, OthersKeep DEF Grown
  <1>8. CASE Tick
    BY <1>8, TickKeeps
  <1> QED
    BY <1>1, <1>2, <1>3, <1>4, <1>5, <1>6, <1>7, <1>8 DEF ViewsNext

\* Every step keeps graphs, caches, requests and answers true: a graph is of the
\* revision it names, an entry of the revision in its key and no older than its
\* level lets it get, and what a request has read is not older than what was
\* confirmed when it came (EntityExtractor.build_graph, CacheManager, search).
THEOREM ViewsInvariant == ViewsSpec => []ViewsInv
  <1>1. ViewsInit => ViewsInv
    BY ViewsStart
  <1>2. ViewsInv /\ [ViewsNext]_viewVars => ViewsInv'
    BY ViewsStepKeeps
  <1> QED
    BY <1>1, <1>2, PTL DEF ViewsSpec

\* A graph, saved or served, is the projection of the revision it names
\* (EntityExtractor.build_graph, KnowledgeGraph.save).
THEOREM ViewsGraphs == ViewsSpec => []GraphIsTrue
  <1>1. ViewsInv => GraphIsTrue
    BY DEF ViewsInv, ViewsFit, GraphFits, GraphIsTrue
  <1> QED
    BY <1>1, ViewsInvariant, PTL

\* An answer, from whatever level of the cache or from whichever graph, is of a
\* revision that is not older than what was confirmed when the question came, and
\* of its scope; a search that is not full has all that is active and matches; and
\* none is older than each level may keep it (search, _ensure_graph_current,
\* _HttpScopedGraphView).
THEOREM ViewsAnswers == ViewsSpec => []AnswersAreSound
  <1>1. ViewsInv => AnswersAreSound
    <2> SUFFICES ASSUME ViewsInv, NEW s \in Servers
                 PROVE  /\ answer[s].age <= Life[1] + Life[2] + Life[3] - 3
                        /\ answer[s].kind \in {"search", "graph"} => answer[s].revision >= answer[s].since
                        /\ answer[s].kind = "search" =>
                             /\ answer[s].found \subseteq Seen(past[answer[s].revision], answer[s].scope)
                             /\ \/ Full(answer[s].found)
                                \/ Lexical(Corpus(past[answer[s].revision], answer[s].scope)) \subseteq answer[s].found
                        /\ answer[s].kind = "graph" =>
                             /\ answer[s].found = Eligible(past[answer[s].revision])
                                                    \cap Seen(past[answer[s].revision], answer[s].scope)
                             /\ answer[s].topics
                                  \subseteq UNION {Topics[past[answer[s].revision][m].text] : m \in answer[s].found}
      BY Zenon DEF AnswersAreSound, Seen
    <2>1. AnswerFits(answer[s], past)
      BY RequestIsTyped
    <2>2. answer[s].age \in Nat /\ answer[s].age < Oldest1
      BY <2>1 DEF AnswerFits
    <2>3. answer[s].age <= Life[1] + Life[2] + Life[3] - 3
      <3>1. PICK a \in Nat, b \in Nat, c \in Nat, n \in Nat :
              a = Life[1] /\ b = Life[2] /\ c = Life[3] /\ n = answer[s].age
        BY <2>2, LivesLong
      <3>2. n < a + b + c - 2
        BY <2>2, <3>1 DEF Oldest1
      <3>3. n <= a + b + c - 3
        BY <3>2
      <3> QED
        BY <3>1, <3>3
    <2> QED
      BY <2>1, <2>3 DEF AnswerFits
  <1> QED
    BY <1>1, ViewsInvariant, PTL

\* A generator that saves keeps the vectors another has saved meanwhile, and
\* brings back none that was cleared (_merge_cache_entries, clear_cache).
THEOREM ViewsIndex == ViewsSpec => IndexIsMerged
  <1> DEFINE Kept1 == \/ index' = NoVectors
                      \/ \A m \in Facts : \/ index'[m] = index[m]
                                          \/ /\ index[m] = 0
                                             /\ \E g \in Indexers : vectors[g].held[m] = index'[m] /\ vectors[g].base[m] # index'[m]
  <1>1. [ViewsNext]_viewVars => [Kept1]_index
    <2> SUFFICES ASSUME [ViewsNext]_viewVars  PROVE Kept1 \/ index' = index
      OBVIOUS
    <2>1. ASSUME NEW g \in Indexers, Saves(g)  PROVE Kept1 \/ index' = index
      <3>1. CASE Incompatible(g)
        BY <2>1, <3>1 DEF Saves
      <3>2. CASE ~Incompatible(g)
        <4>1. index' = [m \in Facts |-> IF m \in Dirty(g) THEN vectors[g].held[m] ELSE index[m]]
          BY <2>1, <3>2 DEF Saves, Merged
        <4>2. \A m \in Facts : index'[m] = IF m \in Dirty(g) THEN vectors[g].held[m] ELSE index[m]
          BY <4>1
        <4>3. \A m \in Dirty(g) : index[m] = 0 \/ index[m] = vectors[g].held[m]
          BY <3>2 DEF Incompatible
        <4>4. \A m \in Dirty(g) : vectors[g].held[m] # vectors[g].base[m]
          BY DEF Dirty
        <4> QED
          BY <4>2, <4>3, <4>4
      <3> QED
        BY <3>1, <3>2
    <2>2. CASE ClearsIndex
      BY <2>2 DEF ClearsIndex
    <2>3. ASSUME NEW s \in Servers, Searching(s)  PROVE index' = index
      BY <2>3 DEF Searching, Search, LooksUp, LooksOnDisk, Backfills, Computes, Stores
    <2>4. ASSUME NEW s \in Servers, Graphing(s)  PROVE index' = index
      BY <2>4 DEF Graphing, AskGraph, Views
    <2>5. ASSUME NEW s \in Servers, Building(s)  PROVE index' = index
      BY <2>5 DEF Building, Rebuild, BuildLoads, BuildRefused, BuildChecks, BuildSaves, BuildCannotSave
    <2>6. ASSUME NEW s \in Servers, Writing(s) \/ Stops(s)  PROVE index' = index
      BY <2>6 DEF Writing, Commits, Clears, Flushes, Stops
    <2>7. CASE (\E g \in Indexers : Embeds(g)) \/ WrittenElsewhere \/ ProjectChanges \/ Tick \/ UNCHANGED viewVars
      BY <2>7 DEF Embeds, WrittenElsewhere, ProjectChanges, Tick, viewVars
    <2> HIDE DEF Kept1
    <2> QED
      BY <2>1, <2>2, <2>3, <2>4, <2>5, <2>6, <2>7 DEF ViewsNext, Indexing
  <1> QED
    BY <1>1, PTL DEF ViewsSpec, IndexIsMerged

-----------------------------------------------------------------------------
(* Housekeeping: what the triage goes by.                                  *)

Sorts == [at : {"idle", "judged", "merged", "applying"}, read : [Proposals -> Advice], open : SUBSET Proposals,
          accept : BOOLEAN, fresh : [Proposals -> Advice], list : SUBSET Proposals]

\* What a run of the triage would accept was verified, and the service accepts
\* nothing it was not permitted to.
SortFits(s, run) ==
  /\ run \in Sorts /\ run.list \subseteq verified
  /\ \A p \in Proposals : run.fresh[p] \in {"ACCEPT", "VERIFIED"} => p \in verified
  /\ s = Service => /\ run.at = "judged" => run.accept = permitted
                    /\ run.at \in {"merged", "applying"} => permitted

SortInv ==
  /\ decided \in [Proposals -> {"open", "person", "rejected"} \union Sorters]
  /\ advice \in [Proposals -> Advice] /\ automatic \in BOOLEAN /\ permitted \in BOOLEAN
  /\ DOMAIN sorter = Sorters /\ hands \in Nat
  /\ \A p \in Proposals : advice[p] \in {"ACCEPT", "VERIFIED"} => p \in verified
  /\ \A s \in Sorters : SortFits(s, sorter[s])

LEMMA IdleSorts ==
  ASSUME NEW s
  PROVE  SortFits(s, NotSorting) /\ NotSorting \in Sorts
         /\ NotSorting.at = "idle" /\ NotSorting.list = {}
  <1>1. NotSorting \in Sorts
    BY DEF NotSorting, Sorts, Advice
  <1>2. NotSorting.at = "idle" /\ NotSorting.list = {} /\ \A p \in Proposals : NotSorting.fresh[p] = "none"
    BY DEF NotSorting
  <1> QED
    BY <1>1, <1>2 DEF SortFits

\* A run of the triage goes on to v, by itself.
LEMMA SortGoesOn ==
  ASSUME SortInv, NEW s \in Sorters, NEW v, sorter' = [sorter EXCEPT ![s] = v],
         SortFits(s, v)', verified \subseteq verified', s # Service => permitted' = permitted,
         decided' \in [Proposals -> {"open", "person", "rejected"} \union Sorters],
         advice' \in [Proposals -> Advice], automatic' \in BOOLEAN, permitted' \in BOOLEAN, hands' \in Nat,
         \A p \in Proposals : advice'[p] \in {"ACCEPT", "VERIFIED"} => p \in verified'
  PROVE  SortInv'
  <1>1. ASSUME NEW t \in Sorters  PROVE SortFits(t, sorter[t])'
    <2>1. CASE t = s
      <3>1. sorter'[t] = v
        BY <2>1 DEF SortInv
      <3> QED
        BY <2>1, <3>1 DEF SortFits
    <2>2. CASE t # s
      <3>1. sorter'[t] = sorter[t] /\ SortFits(t, sorter[t])
        BY <2>2 DEF SortInv
      <3>2. t = Service => permitted' = permitted
        BY <2>2
      <3> QED
        BY <3>1, <3>2 DEF SortFits
    <2> QED
      BY <2>1, <2>2
  <1>2. DOMAIN sorter' = Sorters
    BY DEF SortInv
  <1> QED
    BY <1>1, <1>2 DEF SortInv

\* A step that leaves the runs of the triage alone.
LEMMA SortsStay ==
  ASSUME SortInv, UNCHANGED <<sorter, permitted>>, verified \subseteq verified',
         decided' \in [Proposals -> {"open", "person", "rejected"} \union Sorters],
         advice' \in [Proposals -> Advice], automatic' \in BOOLEAN, hands' \in Nat,
         \A p \in Proposals : advice'[p] \in {"ACCEPT", "VERIFIED"} => p \in verified'
  PROVE  SortInv'
  <1>1. ASSUME NEW t \in Sorters  PROVE SortFits(t, sorter[t])'
    <2>1. SortFits(t, sorter[t])
      BY DEF SortInv
    <2> QED
      BY <2>1 DEF SortFits
  <1> QED
    BY <1>1 DEF SortInv

LEMMA HandsAreCounted ==
  ASSUME SortInv, HandsDo
  PROVE  hands' \in Nat /\ hands' # hands
  BY DEF SortInv, HandsDo

LEMMA PersonsSort ==
  ASSUME SortInv, OwnerSwitches \/ \E p \in Proposals : PersonDecides(p) \/ PersonAdvises(p)
  PROVE  SortInv'
  <1>1. CASE OwnerSwitches
    BY <1>1, HandsAreCounted, SortsStay DEF OwnerSwitches, SortInv
  <1>2. ASSUME NEW p \in Proposals, PersonDecides(p)  PROVE SortInv'
    <2>1. PICK d \in {"person", "rejected"} : decided' = [decided EXCEPT ![p] = d]
      BY <1>2 DEF PersonDecides
    <2>2. decided' \in [Proposals -> {"open", "person", "rejected"} \union Sorters]
      BY <2>1 DEF SortInv
    <2>3. UNCHANGED <<advice, automatic, sorter, verified, permitted>> /\ hands' \in Nat
      BY <1>2, HandsAreCounted DEF PersonDecides
    <2> QED
      BY <2>2, <2>3, SortsStay DEF SortInv
  <1>3. ASSUME NEW p \in Proposals, PersonAdvises(p)  PROVE SortInv'
    <2>1. PICK a \in {"ACCEPT", "REVIEW", "DUPLICATE"} :
            /\ advice' = [advice EXCEPT ![p] = a]
            /\ verified' = IF a = "ACCEPT" THEN verified \union {p} ELSE verified
      BY <1>3 DEF PersonAdvises
    <2>2. advice' \in [Proposals -> Advice] /\ verified \subseteq verified'
      BY <2>1 DEF SortInv, Advice
    <2>3. UNCHANGED <<decided, automatic, sorter, permitted>> /\ hands' \in Nat
      BY <1>3, HandsAreCounted DEF PersonAdvises
    <2>4. \A q \in Proposals : advice'[q] \in {"ACCEPT", "VERIFIED"} => q \in verified'
      BY <2>1 DEF SortInv
    <2> QED
      BY <2>2, <2>3, <2>4, SortsStay DEF SortInv
  <1> QED
    BY <1>1, <1>2, <1>3

LEMMA SortBeginsKeeps ==
  ASSUME SortInv, NEW s \in Sorters, SortBegins(s)
  PROVE  SortInv'
  <1>1. PICK said \in [Proposals -> UNION {Outcome[p] : p \in Proposals} \union {"none"}] :
          /\ \A p \in Proposals : said[p] \in IF p \in ToSort THEN Outcome[p] ELSE {"none"}
          /\ sorter' = [sorter EXCEPT ![s] =
               [at |-> "judged", open |-> Open, accept |-> automatic, list |-> {},
                read |-> [p \in Proposals |-> IF said[p] = "none" THEN "none" ELSE advice[p]],
                fresh |-> [p \in Proposals |-> IF said[p] = "VERIFIED" /\ automatic THEN "ACCEPT" ELSE said[p]]]]
          /\ verified' = verified \union {p \in ToSort : said[p] = "VERIFIED"}
    BY Zenon DEF SortBegins
  <1>2. PICK read, fresh :
          /\ read = [p \in Proposals |-> IF said[p] = "none" THEN "none" ELSE advice[p]]
          /\ fresh = [p \in Proposals |-> IF said[p] = "VERIFIED" /\ automatic THEN "ACCEPT" ELSE said[p]]
    OBVIOUS
  <1>3. \A p \in Proposals : said[p] \in {"none", "REJECT", "FRAGMENT", "VERIFIED", "REVIEW"}
    BY <1>1, HousekeepingAssumption
  <1>4. read \in [Proposals -> Advice] /\ fresh \in [Proposals -> Advice]
    BY <1>2, <1>3 DEF SortInv, Advice
  <1>5. PICK v : v = [at |-> "judged", open |-> Open, accept |-> automatic, list |-> {}, read |-> read, fresh |-> fresh]
    OBVIOUS
  <1>6. /\ v \in Sorts /\ v.at = "judged" /\ v.list = {} /\ v.fresh = fresh /\ v.accept = automatic
    BY <1>4, <1>5 DEF Sorts, Open, SortInv
  <1>7. \A p \in Proposals : fresh[p] \in {"ACCEPT", "VERIFIED"} => said[p] = "VERIFIED"
    BY <1>2, <1>3
  <1>8. \A p \in Proposals : said[p] = "VERIFIED" => p \in verified'
    BY <1>1
  <1>9. /\ permitted' = IF s = Service THEN automatic ELSE permitted
        /\ UNCHANGED <<decided, advice, automatic, hands>>
    BY DEF SortBegins, Runs
  <1>10. SortFits(s, v)'
    BY <1>6, <1>7, <1>8, <1>9 DEF SortFits, SortInv
  <1>11. sorter' = [sorter EXCEPT ![s] = v]
    BY <1>1, <1>2, <1>5
  <1>12. verified \subseteq verified' /\ permitted' \in BOOLEAN
    BY <1>1, <1>9 DEF SortInv
  <1> QED
    BY <1>9, <1>10, <1>11, <1>12, SortGoesOn DEF SortInv

\* What is merged was verified, and the promoted ones too.
LEMMA MergedIsVerified ==
  ASSUME SortInv, NEW s \in Sorters
  PROVE  /\ MergedAdvice(s) \in [Proposals -> Advice]
         /\ \A p \in Proposals : /\ MergedAdvice(s)[p] \in {"ACCEPT", "VERIFIED"} => p \in verified
                                 /\ \/ MergedAdvice(s)[p] = advice[p]
                                    \/ advice[p] = "VERIFIED" /\ MergedAdvice(s)[p] = "ACCEPT"
                                    \/ sorter[s].read[p] = advice[p]
  <1>1. SortFits(s, sorter[s])
    BY DEF SortInv
  <1>2. PICK run \in Sorts : run = sorter[s]
    BY <1>1 DEF SortFits
  <1>3. \A p \in Proposals : run.fresh[p] \in Advice /\ advice[p] \in Advice
    BY <1>2 DEF Sorts, SortInv
  <1>4. ASSUME NEW p \in Proposals
        PROVE  \E now \in {run.fresh[p], advice[p]} :
                 /\ now = run.fresh[p] \/ now = advice[p]
                 /\ now # advice[p] => run.read[p] = advice[p]
                 /\ MergedAdvice(s)[p] = IF run.accept /\ p \in run.open /\ now = "VERIFIED" THEN "ACCEPT" ELSE now
    <2>1. CASE run.fresh[p] # "none" /\ advice[p] = run.read[p]
      BY <1>2, <2>1 DEF MergedAdvice
    <2>2. CASE ~(run.fresh[p] # "none" /\ advice[p] = run.read[p])
      BY <1>2, <2>2 DEF MergedAdvice
    <2> QED
      BY <2>1, <2>2
  <1>5. ASSUME NEW p \in Proposals
        PROVE  /\ MergedAdvice(s)[p] \in Advice
               /\ MergedAdvice(s)[p] \in {"ACCEPT", "VERIFIED"} => p \in verified
               /\ \/ MergedAdvice(s)[p] = advice[p]
                  \/ advice[p] = "VERIFIED" /\ MergedAdvice(s)[p] = "ACCEPT"
                  \/ sorter[s].read[p] = advice[p]
    <2>1. PICK now \in {run.fresh[p], advice[p]} :
                 /\ now # advice[p] => run.read[p] = advice[p]
                 /\ MergedAdvice(s)[p] = IF run.accept /\ p \in run.open /\ now = "VERIFIED" THEN "ACCEPT" ELSE now
      BY <1>4
    <2>2. now \in {"ACCEPT", "VERIFIED"} => p \in verified
      BY <1>1, <1>2, <2>1 DEF SortFits, SortInv
    <2>3. now \in Advice /\ "ACCEPT" \in Advice
      BY <1>3, <2>1 DEF Advice
    <2> QED
      BY <1>2, <2>1, <2>2, <2>3
  <1>6. MergedAdvice(s) = [p \in Proposals |-> MergedAdvice(s)[p]]
    BY DEF MergedAdvice
  <1>7. MergedAdvice(s) \in [Proposals -> Advice]
    BY <1>5, <1>6
  <1> QED
    BY <1>5, <1>7

LEMMA SortMergesKeeps ==
  ASSUME SortInv, NEW s \in Sorters, SortMerges(s)
  PROVE  SortInv'
  <1>1. /\ sorter[s].at = "judged" /\ advice' = MergedAdvice(s)
        /\ UNCHANGED <<decided, automatic, verified, permitted, hands>>
    BY DEF SortMerges, counts
  <1>2. \/ (s = Service => sorter[s].accept) /\ sorter' = [sorter EXCEPT ![s] = [NotSorting EXCEPT !.at = "merged"]]
        \/ sorter' = [sorter EXCEPT ![s] = NotSorting]
    BY DEF SortMerges
  <1>3. /\ advice' \in [Proposals -> Advice]
        /\ \A p \in Proposals : advice'[p] \in {"ACCEPT", "VERIFIED"} => p \in verified'
    BY <1>1, MergedIsVerified
  <1>4. PICK merged : merged = [NotSorting EXCEPT !.at = "merged"]
    OBVIOUS
  <1>5. /\ merged \in Sorts /\ merged.at = "merged" /\ merged.list = {}
        /\ \A p \in Proposals : merged.fresh[p] = "none"
    BY <1>4 DEF NotSorting, Sorts, Advice
  <1>6. s = Service => sorter[s].accept = permitted
    BY <1>1 DEF SortInv, SortFits
  <1>7. CASE (s = Service => sorter[s].accept) /\ sorter' = [sorter EXCEPT ![s] = merged]
    <2>1. SortFits(s, merged)'
      BY <1>1, <1>5, <1>6, <1>7 DEF SortFits, SortInv
    <2> QED
      BY <1>1, <1>3, <1>7, <2>1, SortGoesOn DEF SortInv
  <1>8. CASE sorter' = [sorter EXCEPT ![s] = NotSorting]
    <2>1. SortFits(s, NotSorting)'
      BY <1>1, IdleSorts DEF SortFits
    <2> QED
      BY <1>1, <1>3, <1>8, <2>1, SortGoesOn DEF SortInv
  <1> QED
    BY <1>2, <1>4, <1>7, <1>8

LEMMA SortRestKeeps ==
  ASSUME SortInv, NEW s \in Sorters, ApplyLoads(s) \/ Applies(s) \/ SortEnds(s) \/ SortStops(s)
  PROVE  SortInv'
  <1>1. SortFits(s, sorter[s]) /\ sorter[s] \in Sorts
    BY DEF SortInv, SortFits
  <1>2. CASE SortEnds(s) \/ SortStops(s)
    <2>1. /\ sorter' = [sorter EXCEPT ![s] = NotSorting]
          /\ UNCHANGED <<decided, advice, automatic, verified, permitted, hands>>
      BY <1>2 DEF SortEnds, SortStops, counts
    <2>2. SortFits(s, NotSorting)'
      BY <2>1, IdleSorts DEF SortFits
    <2> QED
      BY <2>1, <2>2, SortGoesOn DEF SortInv
  <1>3. CASE ApplyLoads(s)
    <2>1. PICK v : v = [sorter[s] EXCEPT !.at = "applying", !.list = {p \in Proposals : Shown(p) = "ACCEPT"}]
      OBVIOUS
    <2>2. /\ sorter[s].at = "merged" /\ sorter' = [sorter EXCEPT ![s] = v]
          /\ UNCHANGED <<decided, advice, automatic, verified, permitted, hands>>
      BY <1>3, <2>1 DEF ApplyLoads, counts, SortInv
    <2>3. /\ v \in Sorts /\ v.at = "applying" /\ v.fresh = sorter[s].fresh
          /\ v.list = {p \in Proposals : Shown(p) = "ACCEPT"}
      BY <1>1, <2>1 DEF Sorts
    <2>4. v.list \subseteq verified
      BY <2>3 DEF Shown, SortInv
    <2>5. SortFits(s, v)'
      BY <1>1, <2>2, <2>3, <2>4 DEF SortFits
    <2> QED
      BY <2>2, <2>5, SortGoesOn DEF SortInv
  <1>4. CASE Applies(s)
    <2>1. PICK p \in sorter[s].list :
            /\ sorter' = [sorter EXCEPT ![s].list = sorter[s].list \ {p}]
            /\ decided' = [decided EXCEPT ![p] = s] \/ UNCHANGED decided
      BY <1>4 DEF Applies
    <2>2. sorter[s].at = "applying" /\ UNCHANGED <<advice, automatic, verified, permitted, hands>>
      BY <1>4 DEF Applies, counts
    <2>3. PICK v : v = [sorter[s] EXCEPT !.list = sorter[s].list \ {p}]
      OBVIOUS
    <2>4. /\ v \in Sorts /\ v.at = sorter[s].at /\ v.fresh = sorter[s].fresh /\ v.accept = sorter[s].accept
          /\ v.list = sorter[s].list \ {p}
      BY <1>1, <2>3 DEF Sorts
    <2>5. SortFits(s, v)'
      BY <1>1, <2>2, <2>4 DEF SortFits
    <2>6. sorter' = [sorter EXCEPT ![s] = v]
      BY <2>1, <2>3 DEF SortInv
    <2>7. decided' \in [Proposals -> {"open", "person", "rejected"} \union Sorters]
      BY <2>1 DEF SortInv
    <2> QED
      BY <2>2, <2>5, <2>6, <2>7, SortGoesOn DEF SortInv
  <1> QED
    BY <1>2, <1>3, <1>4

-----------------------------------------------------------------------------
(* Housekeeping: what is retired.                                          *)

Turns == [at : {"idle", "working", "retiring", "resolving", "recording"}, live : SUBSET Records,
          own : SUBSET Records, todo : SUBSET (Records \union Copies), target : Records \union {NoRecord},
          persons : SUBSET Records, raced : BOOLEAN]

\* What a run of j knows while `alive` is there.  It has read what is alive,
\* less what it retired itself, unless somebody else retired too; what it is
\* about to retire is not the last answer to a question it has read, no
\* person's memory, and the copy of one that stays.
RunFits(j, r, alive) ==
  /\ r \in Turns
  /\ r.at # "idle" /\ ~r.raced => alive = r.live \ r.own
  /\ j \in Auditors => \A pair \in r.todo : pair \in Copies /\ pair \subseteq r.live
  /\ j = Prober => r.todo \subseteq Records /\ r.todo \cap r.persons = {}
  /\ r.at \in {"retiring", "resolving"} =>
       /\ r.target \in Records /\ r.target \notin Protected(r.live \ r.own)
       /\ j = Prober => r.target \notin r.persons
       /\ j \in Auditors => \E pair \in Copies : r.target \in pair /\ pair \subseteq r.live \ r.own

\* What an audit that is at work is owed to is among what it retired.
OwnIsOwed == \A a \in Auditors : runner[a].at # "idle" => owed \subseteq runner[a].own

RetireInv ==
  /\ retired \in [Records -> {"no", "person", "superseded"} \union Runners]
  /\ DOMAIN runner = Runners
  /\ report \in [retired : SUBSET Records, status : {"NONE", "RUNNING", "OK", "FAILED"}]
  /\ \A j \in Runners : RunFits(j, runner[j], Alive)
  /\ AuditIsRecorded /\ OwnIsOwed

LEMMA IdleFits ==
  ASSUME NEW j, NEW alive
  PROVE  RunFits(j, NoRunner, alive) /\ NoRunner.at = "idle" /\ NoRunner \in Turns
  <1>1. NoRunner \in Turns
    BY DEF NoRunner, Turns
  <1>2. NoRunner.at = "idle" /\ NoRunner.todo = {}
    BY DEF NoRunner
  <1> QED
    BY <1>1, <1>2 DEF RunFits

\* A run that is idle or raced goes by nothing that is alive.
LEMMA RacedFits ==
  ASSUME NEW j, NEW r, NEW alive, NEW later, RunFits(j, r, alive), NEW v,
         \/ r.at = "idle" /\ v = r
         \/ v = [r EXCEPT !.raced = TRUE]
  PROVE  RunFits(j, v, later) /\ v.at = r.at /\ v.own = r.own /\ v.target = r.target
  <1>1. r \in Turns
    BY DEF RunFits
  <1>2. CASE r.at = "idle" /\ v = r
    BY <1>2 DEF RunFits
  <1>3. CASE v = [r EXCEPT !.raced = TRUE]
    <2>1. /\ v \in Turns /\ v.raced = TRUE /\ v.at = r.at /\ v.own = r.own /\ v.target = r.target
          /\ v.live = r.live /\ v.todo = r.todo /\ v.persons = r.persons
      BY <1>1, <1>3 DEF Turns
    <2> QED
      BY <2>1 DEF RunFits
  <1> QED
    BY <1>2, <1>3

\* Run j goes on to v and retires nothing.
LEMMA RetireGoesOn ==
  ASSUME RetireInv, NEW j \in Runners, NEW v, runner' = [runner EXCEPT ![j] = v], UNCHANGED retired,
         RunFits(j, v, Alive), owed' \subseteq owed,
         report' \in [retired : SUBSET Records, status : {"NONE", "RUNNING", "OK", "FAILED"}],
         \/ owed' \subseteq report'.retired
         \/ /\ report'.retired = report.retired
            /\ j \in Auditors /\ runner[j].at = "recording" => runner[j].target \notin owed',
         j \in Auditors /\ v.at # "idle" => owed' \subseteq v.own
  PROVE  RetireInv'
  <1>1. Alive' = Alive
    BY DEF Alive
  <1>2. DOMAIN runner' = Runners /\ runner'[j] = v /\ \A i \in Runners \ {j} : runner'[i] = runner[i]
    BY DEF RetireInv
  <1>3. ASSUME NEW i \in Runners  PROVE RunFits(i, runner'[i], Alive)
    BY <1>2 DEF RetireInv
  <1>4. ASSUME NEW m \in owed', m \notin report'.retired
        PROVE  \E a \in Auditors : runner'[a].at = "recording" /\ runner'[a].target = m
    <2>1. /\ report'.retired = report.retired
          /\ j \in Auditors /\ runner[j].at = "recording" => runner[j].target \notin owed'
      BY <1>4
    <2>2. PICK a \in Auditors : runner[a].at = "recording" /\ runner[a].target = m
      BY <1>4, <2>1 DEF RetireInv, AuditIsRecorded
    <2>3. a # j /\ a \in Runners
      BY <1>4, <2>1, <2>2 DEF Runners
    <2> QED
      BY <1>2, <2>2, <2>3
  <1>5. AuditIsRecorded'
    BY <1>4 DEF AuditIsRecorded
  <1>6. ASSUME NEW a \in Auditors, runner'[a].at # "idle"  PROVE owed' \subseteq runner'[a].own
    <2>1. a \in Runners
      BY DEF Runners
    <2>2. CASE a = j
      BY <1>2, <1>6, <2>2
    <2>3. CASE a # j
      BY <1>2, <1>6, <2>1, <2>3 DEF RetireInv, OwnIsOwed
    <2> QED
      BY <2>2, <2>3
  <1>7. OwnIsOwed'
    BY <1>6 DEF OwnIsOwed
  <1>8. (\A i \in Runners : RunFits(i, runner[i], Alive))'
    BY <1>1, <1>3 DEF RunFits, Runners, Protected
  <1> QED
    BY <1>2, <1>5, <1>7, <1>8 DEF RetireInv, Runners

\* A run that ends or stops.
LEMMA TurnEnds ==
  ASSUME RetireInv, NEW j \in Runners, runner' = [runner EXCEPT ![j] = NoRunner], UNCHANGED retired,
         owed' \subseteq owed,
         report' \in [retired : SUBSET Records, status : {"NONE", "RUNNING", "OK", "FAILED"}],
         \/ owed' \subseteq report'.retired
         \/ /\ report'.retired = report.retired
            /\ j \in Auditors /\ runner[j].at = "recording" => runner[j].target \notin owed'
  PROVE  RetireInv'
  BY IdleFits, RetireGoesOn

LEMMA EndsKeep ==
  ASSUME RetireInv, (\E a \in Auditors : AuditEnds(a) \/ AuditFails(a)) \/ ProbationEnds
                    \/ (\E j \in Runners : RunnerStops(j))
  PROVE  RetireInv'
  <1>1. report \in [retired : SUBSET Records, status : {"NONE", "RUNNING", "OK", "FAILED"}]
    BY DEF RetireInv
  <1>2. ASSUME NEW a \in Auditors, AuditEnds(a)  PROVE RetireInv'
    <2>1. a \in Runners /\ runner[a].at = "working" /\ runner[a].own \subseteq Records
      BY <1>2 DEF Runners, AuditEnds, RetireInv, RunFits, Turns
    <2>2. report' = [retired |-> runner[a].own, status |-> "OK"] /\ owed' = owed
      BY <1>2 DEF AuditEnds
    <2>3. owed' \subseteq report'.retired
      BY <2>1, <2>2 DEF RetireInv, OwnIsOwed
    <2>4. report' \in [retired : SUBSET Records, status : {"NONE", "RUNNING", "OK", "FAILED"}]
      BY <2>1, <2>2
    <2> QED
      BY <1>2, <2>1, <2>2, <2>3, <2>4, TurnEnds DEF AuditEnds, RunnerDoes
  <1>3. ASSUME NEW a \in Auditors, AuditFails(a)  PROVE RetireInv'
    <2>1. a \in Runners /\ runner[a].at = "working" /\ owed' = owed /\ report' = [report EXCEPT !.status = "FAILED"]
      BY <1>3 DEF Runners, AuditFails
    <2>2. /\ report' \in [retired : SUBSET Records, status : {"NONE", "RUNNING", "OK", "FAILED"}]
          /\ report'.retired = report.retired
      BY <1>1, <2>1
    <2> QED
      BY <1>3, <2>1, <2>2, TurnEnds DEF AuditFails, RunnerDoes
  <1>4. CASE ProbationEnds
    <2>1. Prober \in Runners /\ Prober \notin Auditors
      BY HousekeepingAssumption DEF Runners
    <2> QED
      BY <1>1, <1>4, <2>1, TurnEnds DEF ProbationEnds, RunnerDoes
  <1>5. ASSUME NEW j \in Runners, RunnerStops(j)  PROVE RetireInv'
    <2>1. owed' = IF runner[j].at = "recording" THEN owed \ {runner[j].target} ELSE owed
      BY <1>5 DEF RunnerStops
    <2>2. UNCHANGED <<retired, report>> /\ runner' = [runner EXCEPT ![j] = NoRunner]
      BY <1>5 DEF RunnerStops, RunnerDoes
    <2> QED
      BY <1>1, <2>1, <2>2, TurnEnds
  <1> QED
    BY <1>2, <1>3, <1>4, <1>5

LEMMA AuditBeginsKeeps ==
  ASSUME RetireInv, NEW a \in Auditors, AuditBegins(a)
  PROVE  RetireInv'
  <1>1. PICK v : v = [NoRunner EXCEPT !.at = "working", !.live = Alive, !.todo = {pair \in Copies : pair \subseteq Alive}]
    OBVIOUS
  <1>2. /\ v.at = "working" /\ v.live = Alive /\ v.own = {} /\ v.todo = {pair \in Copies : pair \subseteq Alive}
        /\ v.target = NoRecord /\ v.persons = {} /\ v.raced = FALSE
    BY <1>1 DEF NoRunner
  <1>3. v \in Turns
    BY <1>1 DEF NoRunner, Turns, Alive
  <1>4. a # Prober /\ a \in Runners
    BY HousekeepingAssumption DEF Runners
  <1>5. RunFits(a, v, Alive)
    BY <1>2, <1>3, <1>4 DEF RunFits
  <1>6. runner' = [runner EXCEPT ![a] = v] /\ owed' = {} /\ UNCHANGED <<retired, report>>
    BY <1>1 DEF AuditBegins, RunnerDoes
  <1> QED
    BY <1>4, <1>5, <1>6, RetireGoesOn DEF RetireInv

\* The copy that goes is not the last to answer a question, and the other one stays.
LEMMA ComparesKeeps ==
  ASSUME RetireInv, NEW a \in Auditors, Compares(a)
  PROVE  RetireInv'
  <1>p. PICK pair \in runner[a].todo : \E less \in pair :
          LET rest == runner[a].todo \ {pair}
              drop == IF less \in Guard(a) THEN CHOOSE m \in pair : m # less ELSE less IN
          IF pair \cap runner[a].own # {} \/ drop \in Guard(a)
          THEN RunnerDoes(a, [runner[a] EXCEPT !.todo = rest])
          ELSE RunnerDoes(a, [runner[a] EXCEPT !.todo = rest, !.at = "retiring", !.target = drop])
    BY Zenon DEF Compares
  <1>00. PICK less \in pair :
          LET rest == runner[a].todo \ {pair}
              drop == IF less \in Guard(a) THEN CHOOSE m \in pair : m # less ELSE less IN
          IF pair \cap runner[a].own # {} \/ drop \in Guard(a)
          THEN RunnerDoes(a, [runner[a] EXCEPT !.todo = rest])
          ELSE RunnerDoes(a, [runner[a] EXCEPT !.todo = rest, !.at = "retiring", !.target = drop])
    BY <1>p, Zenon
  <1>r. PICK rest : rest = runner[a].todo \ {pair}
    OBVIOUS
  <1> DEFINE drop == IF less \in Guard(a) THEN CHOOSE m \in pair : m # less ELSE less
  <1>1. \/ RunnerDoes(a, [runner[a] EXCEPT !.todo = rest])
        \/ /\ pair \cap runner[a].own = {} /\ drop \notin Guard(a)
           /\ RunnerDoes(a, [runner[a] EXCEPT !.todo = rest, !.at = "retiring", !.target = drop])
    BY <1>00, <1>r
  <1>2. /\ a \in Runners /\ a # Prober /\ RunFits(a, runner[a], Alive) /\ runner[a] \in Turns /\ runner[a].at = "working"
        /\ UNCHANGED <<retired, report, owed>>
    BY HousekeepingAssumption DEF Runners, RetireInv, RunFits, Compares
  <1>3. pair \in Copies /\ pair \subseteq runner[a].live
    BY <1>1, <1>2 DEF RunFits
  <1>4. drop \in pair /\ drop \in Records
    BY <1>3, HousekeepingAssumption
  <1> HIDE DEF drop
  <1>5. rest \subseteq runner[a].todo
    BY <1>r
  <1>6. CASE runner' = [runner EXCEPT ![a] = [runner[a] EXCEPT !.todo = rest]]
    <2>1. PICK v : v = [runner[a] EXCEPT !.todo = rest]
      OBVIOUS
    <2>2. /\ v.at = "working" /\ v.live = runner[a].live /\ v.own = runner[a].own /\ v.todo = rest
          /\ v.raced = runner[a].raced
      BY <1>2, <2>1 DEF Turns
    <2>3. v \in Turns
      BY <1>2, <1>5, <2>1 DEF Turns
    <2>4. RunFits(a, v, Alive)
      BY <1>2, <1>5, <2>2, <2>3 DEF RunFits
    <2>5. runner' = [runner EXCEPT ![a] = v]
      BY <1>6, <2>1
    <2>6. owed' \subseteq v.own
      BY <1>2, <2>2 DEF RetireInv, OwnIsOwed
    <2> QED
      BY <1>2, <2>4, <2>5, <2>6, RetireGoesOn DEF RetireInv
  <1>7. CASE /\ pair \cap runner[a].own = {} /\ drop \notin Guard(a)
             /\ runner' = [runner EXCEPT ![a] = [runner[a] EXCEPT !.todo = rest, !.at = "retiring", !.target = drop]]
    <2>1. PICK v : v = [runner[a] EXCEPT !.todo = rest, !.at = "retiring", !.target = drop]
      OBVIOUS
    <2>2. /\ v.at = "retiring" /\ v.live = runner[a].live /\ v.own = runner[a].own /\ v.todo = rest
          /\ v.raced = runner[a].raced /\ v.target = drop
      BY <1>2, <2>1 DEF Turns
    <2>3. v \in Turns
      BY <1>2, <1>4, <1>5, <2>1 DEF Turns
    <2>4. pair \subseteq v.live \ v.own /\ v.target \notin Protected(v.live \ v.own)
      BY <1>3, <1>7, <2>2 DEF Guard
    <2>5. RunFits(a, v, Alive)
      BY <1>2, <1>3, <1>4, <1>5, <2>2, <2>3, <2>4 DEF RunFits
    <2>6. runner' = [runner EXCEPT ![a] = v]
      BY <1>7, <2>1
    <2>7. owed' \subseteq v.own
      BY <1>2, <2>2 DEF RetireInv, OwnIsOwed
    <2> QED
      BY <1>2, <2>5, <2>6, <2>7, RetireGoesOn DEF RetireInv
  <1> QED
    BY <1>1, <1>6, <1>7 DEF RunnerDoes

LEMMA ProbationBeginsKeeps ==
  ASSUME RetireInv, ProbationBegins
  PROVE  RetireInv'
  <1>1. Prober \in Runners /\ Prober \notin Auditors /\ Twin \in [Proposals -> Records]
    BY HousekeepingAssumption DEF Runners
  <1> DEFINE persons == {Twin[p] : p \in {r \in Proposals : decided[r] = "person"}}
             judged == {m \in (Alive \cap Machine) \ AcceptedByPerson : checked[m] = "none"}
  <1>2. persons \subseteq Records /\ persons = AcceptedByPerson
    BY <1>1 DEF AcceptedByPerson
  <1>3. judged \subseteq Alive /\ judged \cap persons = {}
    BY <1>2
  <1>4. runner' = [runner EXCEPT ![Prober] = [NoRunner EXCEPT !.at = "working", !.live = Alive, !.persons = persons,
                                                              !.todo = judged]]
    BY DEF ProbationBegins, RunnerDoes
  <1> HIDE DEF persons, judged
  <1>5. PICK v : v = [NoRunner EXCEPT !.at = "working", !.live = Alive, !.persons = persons, !.todo = judged]
    OBVIOUS
  <1>6. /\ v.at = "working" /\ v.live = Alive /\ v.own = {} /\ v.todo = judged
        /\ v.target = NoRecord /\ v.persons = persons /\ v.raced = FALSE
    BY <1>5 DEF NoRunner
  <1>7. v \in Turns /\ judged \subseteq Records
    BY <1>2, <1>3, <1>5 DEF NoRunner, Turns, Alive
  <1>8. RunFits(Prober, v, Alive)
    BY <1>1, <1>3, <1>6, <1>7 DEF RunFits
  <1>9. runner' = [runner EXCEPT ![Prober] = v] /\ UNCHANGED <<retired, report, owed>>
    BY <1>4, <1>5 DEF ProbationBegins
  <1>10. \/ owed' \subseteq report'.retired
         \/ /\ report'.retired = report.retired
            /\ Prober \in Auditors /\ runner[Prober].at = "recording" => runner[Prober].target \notin owed'
    BY <1>1, <1>9
  <1> QED
    BY <1>1, <1>8, <1>9, <1>10, RetireGoesOn DEF RetireInv

\* The probation touches no memory a person had accepted when it began.
LEMMA ProbesKeeps ==
  ASSUME RetireInv, Probes
  PROVE  RetireInv'
  <1>1. Prober \in Runners /\ Prober \notin Auditors
    BY HousekeepingAssumption DEF Runners
  <1>2. /\ RunFits(Prober, runner[Prober], Alive) /\ runner[Prober] \in Turns /\ runner[Prober].at = "working"
        /\ UNCHANGED <<retired, report, owed>>
    BY <1>1 DEF RetireInv, RunFits, Probes
  <1>3. PICK m \in runner[Prober].todo :
          \/ RunnerDoes(Prober, [runner[Prober] EXCEPT !.todo = runner[Prober].todo \ {m}])
          \/ /\ m \notin Guard(Prober)
             /\ RunnerDoes(Prober, [[runner[Prober] EXCEPT !.todo = runner[Prober].todo \ {m}]
                                      EXCEPT !.at = "retiring", !.target = m])
    BY DEF Probes
  <1>4. m \in Records /\ m \notin runner[Prober].persons
    BY <1>1, <1>2 DEF RunFits
  <1>5. PICK rest : rest = runner[Prober].todo \ {m}
    OBVIOUS
  <1>6. PICK on : on = [runner[Prober] EXCEPT !.todo = rest]
    OBVIOUS
  <1>7. /\ on.at = "working" /\ on.live = runner[Prober].live /\ on.own = runner[Prober].own /\ on.todo = rest
        /\ on.raced = runner[Prober].raced /\ on.persons = runner[Prober].persons
    BY <1>2, <1>6 DEF Turns
  <1>8. on \in Turns
    BY <1>2, <1>5, <1>6 DEF Turns
  <1>9. rest \subseteq Records /\ rest \cap runner[Prober].persons = {}
    BY <1>1, <1>2, <1>5 DEF RunFits
  <1>10. \/ owed' \subseteq report'.retired
         \/ /\ report'.retired = report.retired
            /\ Prober \in Auditors /\ runner[Prober].at = "recording" => runner[Prober].target \notin owed'
    BY <1>1, <1>2
  <1>11. CASE RunnerDoes(Prober, on)
    <2>1. RunFits(Prober, on, Alive)
      BY <1>1, <1>2, <1>7, <1>8, <1>9 DEF RunFits
    <2> QED
      BY <1>1, <1>2, <1>10, <1>11, <2>1, RetireGoesOn DEF RetireInv, RunnerDoes
  <1>12. CASE m \notin Guard(Prober) /\ RunnerDoes(Prober, [on EXCEPT !.at = "retiring", !.target = m])
    <2>1. PICK v : v = [on EXCEPT !.at = "retiring", !.target = m]
      OBVIOUS
    <2>2. /\ v.at = "retiring" /\ v.live = on.live /\ v.own = on.own /\ v.todo = rest
          /\ v.raced = on.raced /\ v.persons = on.persons /\ v.target = m
      BY <1>7, <1>8, <2>1 DEF Turns
    <2>3. v \in Turns
      BY <1>4, <1>8, <2>1 DEF Turns
    <2>4. v.target \notin Protected(v.live \ v.own)
      BY <1>7, <1>12, <2>2 DEF Guard
    <2>5. RunFits(Prober, v, Alive)
      BY <1>1, <1>2, <1>4, <1>7, <1>9, <2>2, <2>3, <2>4 DEF RunFits
    <2>6. runner' = [runner EXCEPT ![Prober] = v]
      BY <1>12, <2>1 DEF RunnerDoes
    <2> QED
      BY <1>1, <1>2, <1>10, <2>5, <2>6, RetireGoesOn DEF RetireInv
  <1> QED
    BY <1>3, <1>5, <1>6, <1>11, <1>12

LEMMA RetireLooksKeeps ==
  ASSUME RetireInv, NEW j \in Runners, RetireLooks(j)
  PROVE  RetireInv'
  <1>1. RunFits(j, runner[j], Alive) /\ runner[j] \in Turns /\ runner[j].at = "retiring"
        /\ UNCHANGED <<retired, report, owed>>
    BY DEF RetireInv, RunFits, RetireLooks
  <1>2. PICK now \in {"resolving", "working"} : runner' = [runner EXCEPT ![j] = [runner[j] EXCEPT !.at = now]]
    BY DEF RetireLooks, RunnerDoes
  <1>3. PICK v : v = [runner[j] EXCEPT !.at = now]
    OBVIOUS
  <1>4. /\ v \in Turns /\ v.at = now /\ v.live = runner[j].live /\ v.own = runner[j].own /\ v.todo = runner[j].todo
        /\ v.raced = runner[j].raced /\ v.persons = runner[j].persons /\ v.target = runner[j].target
    BY <1>1, <1>3 DEF Turns
  <1>5. RunFits(j, v, Alive)
    BY <1>1, <1>4 DEF RunFits
  <1>6. j \in Auditors => owed' \subseteq v.own
    BY <1>1, <1>4 DEF RetireInv, OwnIsOwed
  <1>7. runner' = [runner EXCEPT ![j] = v] /\ report'.retired = report.retired
    BY <1>1, <1>2, <1>3
  <1> QED
    BY <1>1, <1>5, <1>6, <1>7, RetireGoesOn DEF RetireInv

LEMMA WritesDownKeeps ==
  ASSUME RetireInv, NEW j \in Runners, WritesDown(j)
  PROVE  RetireInv'
  <1>1. RunFits(j, runner[j], Alive) /\ runner[j] \in Turns /\ runner[j].at = "recording" /\ UNCHANGED <<retired, owed>>
    BY DEF RetireInv, RunFits, WritesDown
  <1>2. PICK v : v = [runner[j] EXCEPT !.at = "working", !.target = NoRecord]
    OBVIOUS
  <1>3. /\ v.at = "working" /\ v.live = runner[j].live /\ v.own = runner[j].own /\ v.todo = runner[j].todo
        /\ v.raced = runner[j].raced /\ v.persons = runner[j].persons
    BY <1>1, <1>2 DEF Turns
  <1>4. v \in Turns
    BY <1>1, <1>2 DEF Turns
  <1>5. RunFits(j, v, Alive)
    BY <1>1, <1>3, <1>4 DEF RunFits
  <1>6. runner' = [runner EXCEPT ![j] = v]
    BY <1>2 DEF WritesDown, RunnerDoes
  <1>7. j \in Auditors => owed' \subseteq v.own
    BY <1>1, <1>3 DEF RetireInv, OwnIsOwed
  <1>8. CASE j = Prober
    <2>1. j \notin Auditors /\ UNCHANGED report
      BY <1>8, HousekeepingAssumption DEF WritesDown
    <2> QED
      BY <1>1, <1>5, <1>6, <1>7, <2>1, RetireGoesOn DEF RetireInv
  <1>9. CASE j # Prober
    <2>1. report' = [retired |-> runner[j].own, status |-> "RUNNING"] /\ j \in Auditors
      BY <1>9 DEF WritesDown, Runners
    <2>2. report' \in [retired : SUBSET Records, status : {"NONE", "RUNNING", "OK", "FAILED"}]
      BY <1>1, <2>1 DEF Turns
    <2>3. owed' \subseteq report'.retired
      BY <1>3, <1>7, <2>1
    <2> QED
      BY <1>1, <1>5, <1>6, <1>7, <2>2, <2>3, RetireGoesOn
  <1> QED
    BY <1>8, <1>9

\* Who is at work while somebody retires a memory is raced.
LEMMA OthersAreRaced ==
  ASSUME RetireInv, NEW by, NEW i \in Runners, i # by, NEW later
  PROVE  /\ RunFits(i, Raced(by)[i], later) /\ Raced(by)[i].at = runner[i].at
         /\ Raced(by)[i].own = runner[i].own /\ Raced(by)[i].target = runner[i].target
  <1>1. RunFits(i, runner[i], Alive)
    BY DEF RetireInv
  <1>2. PICK v : v = Raced(by)[i]
    OBVIOUS
  <1>3. v = IF runner[i].at # "idle" THEN [runner[i] EXCEPT !.raced = TRUE] ELSE runner[i]
    BY <1>2 DEF Raced
  <1>4. \/ runner[i].at = "idle" /\ v = runner[i]
        \/ v = [runner[i] EXCEPT !.raced = TRUE]
    BY <1>3
  <1>5. RunFits(i, v, later) /\ v.at = runner[i].at /\ v.own = runner[i].own /\ v.target = runner[i].target
    BY <1>1, <1>4, RacedFits
  <1> QED
    BY <1>2, <1>5

LEMMA PersonRetiresKeeps ==
  ASSUME RetireInv, NEW m \in Records, PersonRetires(m)
  PROVE  RetireInv'
  <1>1. PICK how \in {"person", "superseded"} : retired' = [retired EXCEPT ![m] = how]
    BY DEF PersonRetires
  <1>2. retired' \in [Records -> {"no", "person", "superseded"} \union Runners]
    BY <1>1 DEF RetireInv
  <1>3. runner' = Raced("person") /\ UNCHANGED <<report, owed>>
    BY DEF PersonRetires
  <1>4. "person" \notin Runners
    BY HousekeepingAssumption DEF Runners
  <1>5. DOMAIN runner' = Runners
    BY <1>3 DEF Raced
  <1>6. PICK alive : alive = Alive'
    OBVIOUS
  <1>7. ASSUME NEW i \in Runners
        PROVE  /\ RunFits(i, runner'[i], alive) /\ runner'[i].at = runner[i].at
               /\ runner'[i].own = runner[i].own /\ runner'[i].target = runner[i].target
    <2>1. i # "person"
      BY <1>4
    <2> QED
      BY <1>3, <2>1, OthersAreRaced
  <1>8. AuditIsRecorded'
    <2>1. ASSUME NEW n \in owed', n \notin report'.retired
          PROVE  \E a \in Auditors : runner'[a].at = "recording" /\ runner'[a].target = n
      <3>1. PICK a \in Auditors : runner[a].at = "recording" /\ runner[a].target = n
        BY <1>3, <2>1 DEF RetireInv, AuditIsRecorded
      <3> QED
        BY <1>7, <3>1 DEF Runners
    <2> QED
      BY <2>1 DEF AuditIsRecorded
  <1>9. OwnIsOwed'
    BY <1>3, <1>7 DEF RetireInv, OwnIsOwed, Runners
  <1>10. (\A i \in Runners : RunFits(i, runner[i], Alive))'
    BY <1>6, <1>7 DEF RunFits, Runners, Protected
  <1> QED
    BY <1>2, <1>3, <1>5, <1>8, <1>9, <1>10 DEF RetireInv, Runners

\* What the engine was told to resolve.
LEMMA ResolvesGoesOn ==
  ASSUME RetireInv, NEW j \in Runners, Resolves(j)
  PROVE  \/ /\ runner' = [runner EXCEPT ![j] = [runner[j] EXCEPT !.at = "working"]] /\ UNCHANGED <<retired, owed>>
         \/ /\ retired' = IF runner[j].target \in Alive THEN [retired EXCEPT ![runner[j].target] = j] ELSE retired
            /\ DOMAIN runner' = Runners /\ \A i \in Runners \ {j} : runner'[i] = Raced(j)[i]
            /\ runner'[j] = [runner[j] EXCEPT !.at = "recording", !.own = runner[j].own \union {runner[j].target}]
            /\ owed' = IF AloneAtAudit(j) THEN owed \union {runner[j].target} ELSE owed
  <1>1. DOMAIN Raced(j) = Runners
    BY DEF Raced
  <1>2. CASE RunnerDoes(j, [runner[j] EXCEPT !.at = "working"]) /\ UNCHANGED <<retired, owed>>
    BY <1>2 DEF RunnerDoes
  <1>3. CASE ~(RunnerDoes(j, [runner[j] EXCEPT !.at = "working"]) /\ UNCHANGED <<retired, owed>>)
    <2>1. PICK v : v = [runner[j] EXCEPT !.at = "recording", !.own = runner[j].own \union {runner[j].target}]
      OBVIOUS
    <2>2. PICK raced : raced = Raced(j)
      OBVIOUS
    <2>3. runner' = [raced EXCEPT ![j] = v]
      BY <1>3, <2>1, <2>2 DEF Resolves
    <2>4. DOMAIN runner' = Runners /\ runner'[j] = v /\ \A i \in Runners \ {j} : runner'[i] = raced[i]
      BY <1>1, <2>2, <2>3
    <2>5. /\ retired' = IF runner[j].target \in Alive THEN [retired EXCEPT ![runner[j].target] = j] ELSE retired
          /\ owed' = IF AloneAtAudit(j) THEN owed \union {runner[j].target} ELSE owed
      BY <1>3 DEF Resolves
    <2> QED
      BY <2>1, <2>2, <2>4, <2>5
  <1> QED
    BY <1>2, <1>3

LEMMA ResolvesKeeps ==
  ASSUME RetireInv, NEW j \in Runners, Resolves(j)
  PROVE  RetireInv'
  <1>1. RunFits(j, runner[j], Alive) /\ runner[j] \in Turns /\ runner[j].at = "resolving" /\ UNCHANGED report
    BY DEF RetireInv, RunFits, Resolves
  <1>2. CASE runner' = [runner EXCEPT ![j] = [runner[j] EXCEPT !.at = "working"]] /\ UNCHANGED <<retired, owed>>
    <2>1. PICK v : v = [runner[j] EXCEPT !.at = "working"]
      OBVIOUS
    <2>2. /\ v \in Turns /\ v.at = "working" /\ v.live = runner[j].live /\ v.own = runner[j].own /\ v.todo = runner[j].todo
          /\ v.raced = runner[j].raced /\ v.persons = runner[j].persons
      BY <1>1, <2>1 DEF Turns
    <2>3. RunFits(j, v, Alive)
      BY <1>1, <2>2 DEF RunFits
    <2>4. j \in Auditors => owed' \subseteq v.own
      BY <1>1, <1>2, <2>2 DEF RetireInv, OwnIsOwed
    <2>5. runner' = [runner EXCEPT ![j] = v]
      BY <1>2, <2>1
    <2> QED
      BY <1>1, <1>2, <2>3, <2>4, <2>5, RetireGoesOn DEF RetireInv
  <1>3. CASE /\ retired' = IF runner[j].target \in Alive THEN [retired EXCEPT ![runner[j].target] = j] ELSE retired
             /\ DOMAIN runner' = Runners /\ \A i \in Runners \ {j} : runner'[i] = Raced(j)[i]
             /\ runner'[j] = [runner[j] EXCEPT !.at = "recording", !.own = runner[j].own \union {runner[j].target}]
             /\ owed' = IF AloneAtAudit(j) THEN owed \union {runner[j].target} ELSE owed
    <2>1. PICK m \in Records : m = runner[j].target
      BY <1>1 DEF RunFits
    <2>2. PICK v : v = [runner[j] EXCEPT !.at = "recording", !.own = runner[j].own \union {m}]
      OBVIOUS
    <2>3. /\ v.at = "recording" /\ v.live = runner[j].live /\ v.own = runner[j].own \union {m} /\ v.todo = runner[j].todo
          /\ v.raced = runner[j].raced /\ v.persons = runner[j].persons /\ v.target = m
      BY <1>1, <2>1, <2>2 DEF Turns
    <2>4. v \in Turns
      BY <1>1, <2>2 DEF Turns
    <2>5. retired' \in [Records -> {"no", "person", "superseded"} \union Runners]
      BY <1>3 DEF RetireInv
    <2>6. PICK alive : alive = Alive'
      OBVIOUS
    <2>7. alive = Alive \ {m}
      <3>1. retired \in [Records -> {"no", "person", "superseded"} \union Runners] /\ j # "no"
        BY HousekeepingAssumption DEF RetireInv, Runners
      <3>2. CASE m \in Alive
        <4>1. retired' = [retired EXCEPT ![m] = j]
          BY <1>3, <2>1, <3>2
        <4> QED
          BY <2>6, <3>1, <4>1 DEF Alive
      <3>3. CASE m \notin Alive
        BY <1>3, <2>1, <2>6, <3>3 DEF Alive
      <3> QED
        BY <3>2, <3>3
    <2>8. RunFits(j, v, alive)
      BY <1>1, <2>3, <2>4, <2>7 DEF RunFits
    <2>9. ASSUME NEW i \in Runners, i # j
          PROVE  /\ RunFits(i, runner'[i], alive) /\ runner'[i].at = runner[i].at
                 /\ runner'[i].own = runner[i].own /\ runner'[i].target = runner[i].target
      BY <1>3, <2>9, OthersAreRaced
    <2>10. runner'[j] = v
      BY <1>3, <2>1, <2>2
    <2>11. (\A i \in Runners : RunFits(i, runner[i], Alive))'
      BY <2>6, <2>8, <2>9, <2>10 DEF RunFits, Runners, Protected
    <2>12. AuditIsRecorded'
      <3>1. ASSUME NEW n \in owed', n \notin report'.retired
            PROVE  \E a \in Auditors : runner'[a].at = "recording" /\ runner'[a].target = n
        <4>1. CASE n \in owed
          <5>1. PICK a \in Auditors : runner[a].at = "recording" /\ runner[a].target = n
            BY <1>1, <3>1, <4>1 DEF RetireInv, AuditIsRecorded
          <5>2. a # j /\ a \in Runners
            BY <1>1, <5>1 DEF Runners
          <5> QED
            BY <2>9, <5>1, <5>2
        <4>2. CASE n \notin owed
          <5>1. n = m /\ j \in Auditors
            BY <1>3, <2>1, <3>1, <4>2 DEF AloneAtAudit
          <5> QED
            BY <2>3, <2>10, <5>1
        <4> QED
          BY <4>1, <4>2
      <3> QED
        BY <3>1 DEF AuditIsRecorded
    <2>13. OwnIsOwed'
      <3>1. ASSUME NEW a \in Auditors, runner'[a].at # "idle"  PROVE owed' \subseteq runner'[a].own
        <4>1. CASE a = j
          <5>1. owed \subseteq runner[j].own
            BY <1>1, <4>1 DEF RetireInv, OwnIsOwed
          <5> QED
            BY <1>3, <2>1, <2>3, <2>10, <4>1, <5>1
        <4>2. CASE a # j
          <5>1. runner[a].at # "idle" /\ runner'[a].own = runner[a].own
            BY <2>9, <3>1, <4>2 DEF Runners
          <5>2. ~AloneAtAudit(j)
            BY <4>2, <5>1 DEF AloneAtAudit
          <5> QED
            BY <1>3, <5>1, <5>2 DEF RetireInv, OwnIsOwed
        <4> QED
          BY <4>1, <4>2
      <3> QED
        BY <3>1 DEF OwnIsOwed
    <2> QED
      BY <1>1, <1>3, <2>5, <2>11, <2>12, <2>13 DEF RetireInv, Runners
  <1> QED
    BY <1>2, <1>3, ResolvesGoesOn

-----------------------------------------------------------------------------
UpkeepInv == SortInv /\ RetireInv

LEMMA SortingLeaves ==
  ASSUME Sorting
  PROVE  UNCHANGED memoryRunners
  BY DEF Sorting, OwnerSwitches, PersonDecides, PersonAdvises, SortBegins, SortMerges, ApplyLoads, Applies, SortEnds,
         SortStops, memoryRunners

LEMMA RetiringLeaves ==
  ASSUME SortInv, Retiring
  PROVE  UNCHANGED adviceVars /\ hands' \in Nat
  <1>1. ASSUME NEW m \in Records, PersonRetires(m)  PROVE UNCHANGED adviceVars /\ hands' \in Nat
    BY <1>1, HandsAreCounted DEF PersonRetires, adviceVars
  <1>2. ASSUME NEW a \in Auditors, AuditBegins(a) \/ Compares(a) \/ AuditEnds(a) \/ AuditFails(a)
        PROVE  UNCHANGED adviceVars /\ hands' \in Nat
    BY <1>2 DEF AuditBegins, Compares, AuditEnds, AuditFails, Runs, adviceVars, counts, SortInv
  <1>3. CASE ProbationBegins \/ Probes \/ ProbationEnds
    BY <1>3 DEF ProbationBegins, Probes, ProbationEnds, Runs, adviceVars, counts, SortInv
  <1>4. ASSUME NEW j \in Runners, RetireLooks(j) \/ Resolves(j) \/ WritesDown(j) \/ RunnerStops(j)
        PROVE  UNCHANGED adviceVars /\ hands' \in Nat
    BY <1>4 DEF RetireLooks, Resolves, WritesDown, RunnerStops, adviceVars, counts, SortInv
  <1> QED
    BY <1>1, <1>2, <1>3, <1>4 DEF Retiring

LEMMA UpkeepStarts ==
  ASSUME HousekeepingInit
  PROVE  UpkeepInv
  <1>1. SortInv
    <2>1. \A s \in Sorters : SortFits(s, NotSorting)
      BY IdleSorts
    <2> QED
      BY <2>1, HousekeepingAssumption DEF HousekeepingInit, SortInv, Advice
  <1>2. RetireInv
    <2>1. \A j \in Runners : runner[j] = NoRunner /\ RunFits(j, runner[j], Alive) /\ runner[j].at = "idle"
      BY IdleFits DEF HousekeepingInit
    <2>2. report \in [retired : SUBSET Records, status : {"NONE", "RUNNING", "OK", "FAILED"}]
      BY DEF HousekeepingInit, NoReport
    <2>3. AuditIsRecorded /\ OwnIsOwed
      BY DEF HousekeepingInit, AuditIsRecorded, OwnIsOwed
    <2> QED
      BY <2>1, <2>2, <2>3 DEF HousekeepingInit, RetireInv
  <1> QED
    BY <1>1, <1>2 DEF UpkeepInv

LEMMA UpkeepStepKeeps ==
  ASSUME UpkeepInv, [HousekeepingNext]_housekeepingVars
  PROVE  UpkeepInv'
  <1>1. SortInv /\ RetireInv
    BY DEF UpkeepInv
  <1>2. ASSUME UNCHANGED memoryRunners  PROVE RetireInv'
    <2>1. UNCHANGED <<retired, runner, report, owed>> /\ Alive' = Alive
      BY <1>2 DEF memoryRunners, Alive
    <2>2. (\A j \in Runners : RunFits(j, runner[j], Alive))'
      BY <1>1, <2>1 DEF RetireInv, RunFits, Runners, Protected
    <2>3. AuditIsRecorded' /\ OwnIsOwed'
      BY <1>1, <2>1 DEF RetireInv, AuditIsRecorded, OwnIsOwed
    <2> QED
      BY <1>1, <2>1, <2>2, <2>3 DEF RetireInv, Runners
  <1>3. ASSUME UNCHANGED adviceVars, hands' \in Nat  PROVE SortInv'
    BY <1>1, <1>3, SortsStay DEF adviceVars, SortInv
  <1>4. CASE Sorting
    <2>1. RetireInv'
      BY <1>2, <1>4, SortingLeaves
    <2>2. SortInv'
      BY <1>1, <1>4, PersonsSort, SortBeginsKeeps, SortMergesKeeps, SortRestKeeps DEF Sorting
    <2> QED
      BY <2>1, <2>2 DEF UpkeepInv
  <1>5. CASE Retiring
    <2>1. SortInv'
      BY <1>1, <1>3, <1>5, RetiringLeaves
    <2>2. RetireInv'
      BY <1>1, <1>5, PersonRetiresKeeps, AuditBeginsKeeps, ComparesKeeps, EndsKeep, ProbationBeginsKeeps, ProbesKeeps,
         RetireLooksKeeps, ResolvesKeeps, WritesDownKeeps DEF Retiring
    <2> QED
      BY <2>1, <2>2 DEF UpkeepInv
  <1>6. CASE UNCHANGED housekeepingVars
    <2>1. UNCHANGED memoryRunners /\ UNCHANGED adviceVars /\ hands' \in Nat
      BY <1>1, <1>6 DEF housekeepingVars, counts, SortInv
    <2> QED
      BY <1>2, <1>3, <2>1 DEF UpkeepInv
  <1> QED
    BY <1>4, <1>5, <1>6 DEF HousekeepingNext

\* The files and the runs fit each other: what a run of the triage would
\* accept was verified and permitted (queue_triage.py), an audit or a probation
\* that nobody raced knows what is alive (memory_audit.py, probation.py).
THEOREM UpkeepInvariant == HousekeepingSpec => []UpkeepInv
  <1>1. HousekeepingInit => UpkeepInv
    BY UpkeepStarts
  <1>2. UpkeepInv /\ [HousekeepingNext]_housekeepingVars => UpkeepInv'
    BY UpkeepStepKeeps
  <1> QED
    BY <1>1, <1>2, PTL DEF HousekeepingSpec

\* What an audit alone retired stands in its report (memory_audit.py).
THEOREM UpkeepRecords == HousekeepingSpec => []AuditIsRecorded
  <1>1. UpkeepInv => AuditIsRecorded
    BY DEF UpkeepInv, RetireInv
  <1> QED
    BY <1>1, UpkeepInvariant, PTL

\* A question that another memory answers keeps its answer without this one.
LEMMA AnswersStay ==
  ASSUME NEW live, NEW m \in live, m \notin Protected(live)
  PROVE  UNION {Answers[n] : n \in live} = UNION {Answers[n] : n \in live \ {m}}
  <1>1. \A q \in Answers[m] : \E n \in live \ {m} : q \in Answers[n]
    BY DEF Protected
  <1>2. ASSUME NEW q  PROVE q \in UNION {Answers[n] : n \in live} <=> q \in UNION {Answers[n] : n \in live \ {m}}
    BY <1>1
  <1> QED
    BY <1>2

\* An entry of the advice is replaced by who had read it, or promoted.
LEMMA AdviceIsGuarded ==
  ASSUME SortInv, [HousekeepingNext]_housekeepingVars, NEW p \in Proposals
  PROVE  advice'[p] = advice[p] \/ hands' # hands \/ (advice[p] = "VERIFIED" /\ advice'[p] = "ACCEPT")
         \/ \E s \in Sorters : sorter[s].at = "judged" /\ sorter[s].read[p] = advice[p]
  <1>1. CASE \E s \in Sorters : SortMerges(s)
    <2>1. PICK s \in Sorters : SortMerges(s)
      BY <1>1
    <2>2. sorter[s].at = "judged" /\ advice' = MergedAdvice(s)
      BY <2>1 DEF SortMerges
    <2> QED
      BY <2>2, MergedIsVerified
  <1>2. CASE \E q \in Proposals : PersonDecides(q) \/ PersonAdvises(q)
    BY <1>2, HandsAreCounted DEF PersonDecides, PersonAdvises
  <1>3. CASE OwnerSwitches \/ \E s \in Sorters : SortBegins(s) \/ ApplyLoads(s) \/ Applies(s) \/ SortEnds(s) \/ SortStops(s)
    BY <1>3 DEF OwnerSwitches, SortBegins, ApplyLoads, Applies, SortEnds, SortStops
  <1>4. CASE Retiring
    BY <1>4, RetiringLeaves DEF adviceVars
  <1>5. CASE UNCHANGED housekeepingVars
    BY <1>5 DEF housekeepingVars, adviceVars
  <1> QED
    BY <1>1, <1>2, <1>3, <1>4, <1>5 DEF HousekeepingNext, Sorting

\* What the machine accepts was verified, and permitted to the service.
LEMMA DecisionIsGuarded ==
  ASSUME SortInv, [HousekeepingNext]_housekeepingVars, NEW p \in Proposals, p \in Open, decided'[p] \in Sorters
  PROVE  p \in verified /\ (decided'[p] = Service => permitted)
  <1>1. decided[p] \notin Sorters /\ decided \in [Proposals -> {"open", "person", "rejected"} \union Sorters]
    BY HousekeepingAssumption DEF Open, SortInv
  <1>2. ASSUME NEW s \in Sorters, Applies(s)  PROVE p \in verified /\ (decided'[p] = Service => permitted)
    <2>1. PICK q \in sorter[s].list : decided' = [decided EXCEPT ![q] = s] \/ UNCHANGED decided
      BY <1>2 DEF Applies
    <2>2. sorter[s].at = "applying" /\ SortFits(s, sorter[s])
      BY <1>2 DEF Applies, SortInv
    <2>3. q = p /\ decided'[p] = s
      BY <1>1, <2>1
    <2> QED
      BY <2>2, <2>3 DEF SortFits
  <1>3. ASSUME NEW q \in Proposals, PersonDecides(q)  PROVE FALSE
    <2>1. PICK d \in {"person", "rejected"} : decided' = [decided EXCEPT ![q] = d]
      BY <1>3 DEF PersonDecides
    <2>2. decided'[p] = d \/ decided'[p] = decided[p]
      BY <1>1, <2>1
    <2> QED
      BY <1>1, <2>2, HousekeepingAssumption
  <1>4. CASE UNCHANGED decided
    BY <1>1, <1>4
  <1>5. CASE OwnerSwitches \/ (\E q \in Proposals : PersonAdvises(q))
             \/ \E s \in Sorters : SortBegins(s) \/ SortMerges(s) \/ ApplyLoads(s) \/ SortEnds(s) \/ SortStops(s)
    BY <1>4, <1>5 DEF OwnerSwitches, PersonAdvises, SortBegins, SortMerges, ApplyLoads, SortEnds, SortStops
  <1>6. CASE Retiring
    BY <1>4, <1>6, RetiringLeaves DEF adviceVars
  <1>7. CASE UNCHANGED housekeepingVars
    BY <1>4, <1>7 DEF housekeepingVars, adviceVars
  <1> QED
    BY <1>2, <1>3, <1>5, <1>6, <1>7 DEF HousekeepingNext, Sorting

\* Only a person and a run that resolves retire a memory.
LEMMA WhoRetires ==
  ASSUME [HousekeepingNext]_housekeepingVars, retired' # retired
  PROVE  (\E m \in Records : PersonRetires(m)) \/ \E j \in Runners : Resolves(j)
  <1>1. ~Sorting
    BY SortingLeaves DEF memoryRunners
  <1>2. ~UNCHANGED housekeepingVars
    BY DEF housekeepingVars, memoryRunners
  <1>3. Retiring
    BY <1>1, <1>2 DEF HousekeepingNext
  <1>4. \A a \in Auditors : ~(AuditBegins(a) \/ Compares(a) \/ AuditEnds(a) \/ AuditFails(a))
    BY DEF AuditBegins, Compares, AuditEnds, AuditFails
  <1>5. ~(ProbationBegins \/ Probes \/ ProbationEnds)
    BY DEF ProbationBegins, Probes, ProbationEnds
  <1>6. \A j \in Runners : ~(RetireLooks(j) \/ WritesDown(j) \/ RunnerStops(j))
    BY DEF RetireLooks, WritesDown, RunnerStops
  <1> QED
    BY <1>3, <1>4, <1>5, <1>6 DEF Retiring

\* A run retires what it was about to, and nobody else's run does.
LEMMA RetiresTarget ==
  ASSUME RetireInv, [HousekeepingNext]_housekeepingVars, retired' # retired, NEW j \in Runners, NewlyRetired(j) # {}
  PROVE  /\ runner[j].at = "resolving" /\ runner[j].target \in Alive
         /\ NewlyRetired(j) = {runner[j].target} /\ Alive' = Alive \ {runner[j].target}
  <1>1. /\ retired \in [Records -> {"no", "person", "superseded"} \union Runners]
        /\ \A i \in Runners : i \notin {"no", "person", "superseded"}
    BY HousekeepingAssumption DEF RetireInv, Runners
  <1>2. ASSUME NEW m \in Records, PersonRetires(m)  PROVE FALSE
    <2>1. PICK how \in {"person", "superseded"} : retired' = [retired EXCEPT ![m] = how]
      BY <1>2 DEF PersonRetires
    <2> QED
      BY <1>1, <2>1 DEF NewlyRetired, Alive
  <1>3. PICK i \in Runners : Resolves(i)
    BY <1>2, WhoRetires
  <1>4. PICK m : m = runner[i].target
    OBVIOUS
  <1>5. m \in Alive /\ retired' = [retired EXCEPT ![m] = i] /\ runner[i].at = "resolving"
    BY <1>3, <1>4 DEF Resolves
  <1>6. \A n \in Records : retired'[n] = IF n = m THEN i ELSE retired[n]
    BY <1>1, <1>5 DEF Alive
  <1>7. i = j /\ NewlyRetired(j) = {m}
    BY <1>1, <1>5, <1>6 DEF NewlyRetired, Alive
  <1>8. Alive' = Alive \ {m}
    BY <1>1, <1>6 DEF Alive
  <1> QED
    BY <1>4, <1>5, <1>7, <1>8

LEMMA RetirementIsGuarded ==
  ASSUME RetireInv, [HousekeepingNext]_housekeepingVars, retired' # retired, NEW j \in Runners, NewlyRetired(j) # {},
         ~runner[j].raced
  PROVE  /\ UNION {Answers[m] : m \in Alive} = UNION {Answers[m] : m \in Alive'}
         /\ j = Prober \/ \E pair \in Copies : pair \cap NewlyRetired(j) # {} /\ pair \cap Alive' # {}
  <1>1. PICK m : m = runner[j].target
    OBVIOUS
  <1>2. /\ runner[j].at = "resolving" /\ m \in Alive /\ NewlyRetired(j) = {m} /\ Alive' = Alive \ {m}
    BY <1>1, RetiresTarget
  <1>3. RunFits(j, runner[j], Alive)
    BY DEF RetireInv
  <1>4. Alive = runner[j].live \ runner[j].own
    BY <1>2, <1>3 DEF RunFits
  <1>5. m \notin Protected(Alive)
    BY <1>1, <1>2, <1>3, <1>4 DEF RunFits
  <1>6. UNION {Answers[n] : n \in Alive} = UNION {Answers[n] : n \in Alive \ {m}}
    BY <1>2, <1>5, AnswersStay
  <1>7. ASSUME j # Prober  PROVE \E pair \in Copies : pair \cap {m} # {} /\ pair \cap (Alive \ {m}) # {}
    <2>1. PICK pair \in Copies : m \in pair /\ pair \subseteq Alive
      BY <1>1, <1>2, <1>3, <1>4, <1>7 DEF RunFits, Runners
    <2> QED
      BY <2>1, HousekeepingAssumption
  <1> QED
    BY <1>2, <1>6, <1>7

\* What is done without a person rests on what was true when the run began or
\* later (queue_triage.py, memory_audit.py, probation.py).
THEOREM UpkeepGuarded == HousekeepingSpec => UpkeepIsGuarded
  <1> DEFINE Guarded ==
        /\ \A p \in Proposals :
              /\ advice'[p] = advice[p] \/ hands' # hands \/ (advice[p] = "VERIFIED" /\ advice'[p] = "ACCEPT")
                 \/ \E s \in Sorters : sorter[s].at = "judged" /\ sorter[s].read[p] = advice[p]
              /\ p \in Open /\ decided'[p] \in Sorters => p \in verified /\ (decided'[p] = Service => permitted)
        /\ retired' # retired =>
              /\ NewlyRetired(Prober) \cap runner[Prober].persons = {}
              /\ \A j \in Runners : NewlyRetired(j) # {} /\ ~runner[j].raced =>
                   /\ UNION {Answers[m] : m \in Alive} = UNION {Answers[m] : m \in Alive'}
                   /\ j = Prober \/ \E pair \in Copies : pair \cap NewlyRetired(j) # {} /\ pair \cap Alive' # {}
  <1>1. UpkeepInv /\ [HousekeepingNext]_housekeepingVars => Guarded
    <2> SUFFICES ASSUME UpkeepInv, [HousekeepingNext]_housekeepingVars  PROVE Guarded
      OBVIOUS
    <2>1. SortInv /\ RetireInv
      BY DEF UpkeepInv
    <2>2. ASSUME retired' # retired  PROVE NewlyRetired(Prober) \cap runner[Prober].persons = {}
      <3>1. Prober \in Runners /\ RunFits(Prober, runner[Prober], Alive)
        BY <2>1 DEF Runners, RetireInv
      <3>2. CASE NewlyRetired(Prober) # {}
        <4>1. runner[Prober].at = "resolving" /\ NewlyRetired(Prober) = {runner[Prober].target}
          BY <2>1, <2>2, <3>1, <3>2, RetiresTarget
        <4> QED
          BY <3>1, <4>1 DEF RunFits
      <3> QED
        BY <3>2
    <2>3. \A p \in Proposals :
            advice'[p] = advice[p] \/ hands' # hands \/ (advice[p] = "VERIFIED" /\ advice'[p] = "ACCEPT")
            \/ \E s \in Sorters : sorter[s].at = "judged" /\ sorter[s].read[p] = advice[p]
      BY <2>1, AdviceIsGuarded
    <2>4. \A p \in Proposals :
            p \in Open /\ decided'[p] \in Sorters => p \in verified /\ (decided'[p] = Service => permitted)
      BY <2>1, DecisionIsGuarded
    <2>5. retired' # retired =>
            \A j \in Runners : NewlyRetired(j) # {} /\ ~runner[j].raced =>
              /\ UNION {Answers[m] : m \in Alive} = UNION {Answers[m] : m \in Alive'}
              /\ j = Prober \/ \E pair \in Copies : pair \cap NewlyRetired(j) # {} /\ pair \cap Alive' # {}
      BY <2>1, RetirementIsGuarded
    <2> QED
      BY <2>2, <2>3, <2>4, <2>5
  <1>2. HousekeepingSpec => [][Guarded]_housekeepingVars
    BY <1>1, UpkeepInvariant, PTL DEF HousekeepingSpec
  <1> QED
    BY <1>2 DEF UpkeepIsGuarded

=============================================================================

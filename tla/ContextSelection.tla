--------------------------- MODULE ContextSelection ---------------------------
(***************************************************************************)
(* What a task-aware context says (context_router, authority,              *)
(* retrieval_decision_v2, context_density_v2, context_compiler_v2,         *)
(* composed by compile_task of brain_eleven/runtime/context.py): the       *)
(* router finds candidates among the memories and the state of a project,  *)
(* the authority judges them, the decision and the density choose, the     *)
(* compiler fits the choice into a budget.  The stores stand still here;   *)
(* what their changing does is in ContextRoute.  Scores are abstracted:    *)
(* where one of several candidates is preferred for its score, any is.     *)
(***************************************************************************)
EXTENDS Integers, FiniteSets

LOCAL INSTANCE FiniteSetsExt

CONSTANTS Scenarios,     \* what the stores hold and what is asked, a sequence of sets
          StrictMin,     \* strict_min_memory_candidates
          MaxChosen,   \* candidate budget of a profile for memories
          MaxDense,      \* DensityOptions.max_selected
          MaxRebalance   \* rounds of the compiler's last loop

\* Identifiers are ordered.
ASSUME SelectionAssumption ==
  /\ {StrictMin, MaxChosen, MaxDense, MaxRebalance} \subseteq Nat
  /\ \A k \in DOMAIN Scenarios : \A s \in Scenarios[k] : DOMAIN s.items \subseteq Nat \ {0}

VARIABLES stage, scenario,
          candidates, degraded,   \* of the router
          verdict,                \* of the authority, for each candidate
          selected,               \* by the decision, then by the density
          missing,                \* critical needs nothing selected is for
          said, status            \* of the compiler

selectionVars == <<stage, scenario, candidates, degraded, verdict, selected, missing, said, status>>

held == scenario.items
ask == scenario.ask
MemoryItems == {i \in DOMAIN held : held[i].source = "memory"}
StateItems == DOMAIN held \ MemoryItems

SelectionInit ==
  /\ stage = "asked" /\ \E k \in DOMAIN Scenarios : scenario \in Scenarios[k]
  /\ candidates = {} /\ degraded = FALSE /\ verdict = <<>>
  /\ selected = {} /\ missing = {} /\ said = {} /\ status = "NONE"

Stops(why) ==
  /\ stage' = "ended" /\ status' = why /\ said' = {}

-----------------------------------------------------------------------------
(* The router: _route, from the strict queries to _normalize.              *)

\* A subset as large as the budget allows.
Best(S, budget) == {T \in SUBSET S : Cardinality(T) = IF Cardinality(S) < budget THEN Cardinality(S) ELSE budget}

LifecycleAllowed(i) ==
  CASE ask.history = "ACTIVE_ONLY" -> held[i].status = "active"
    [] ask.history = "ACTIVE_PLUS_RELEVANT_HISTORY" -> TRUE
    [] ask.history = "HISTORY_ONLY" -> held[i].status # "active"

Allowed(i, global) ==
  /\ LifecycleAllowed(i)
  /\ IF held[i].project = "global" THEN global /\ ask.global ELSE held[i].project = "here"

\* The raw candidates of a tier, one for each query that finds a record.
Counted(S) == MapThenSumSet(LAMBDA i : held[i].hits, S)

\* Few strict hits, counted by query, open the global tier, the aliases and
\* the graph, which is asked only when it is fresh.  MemoryItems that only the
\* graph has found are of a budget of their own.
Retrieves ==
  LET strict == {i \in MemoryItems : Allowed(i, FALSE) /\ held[i].hits > 0}
      sparse == Counted(strict) < StrictMin
      wide == {i \in MemoryItems : Allowed(i, TRUE)}
      found == strict
               \union (IF sparse THEN {i \in wide : held[i].hits > 0 \/ held[i].alias} ELSE {})
               \union (IF ask.sweep THEN wide ELSE {})
      linked == IF sparse /\ ask.graph = "fresh" THEN {i \in wide : held[i].linked} ELSE {} IN
  /\ stage = "asked" /\ stage' = "retrieved"
  /\ \E T \in Best(found, MaxChosen) : \E G \in Best(linked \ found, MaxChosen) :
       \E S \in Best(StateItems, ask.states) : candidates' = T \union G \union S
  /\ degraded' = (sparse /\ ask.graph = "stale")
  /\ UNCHANGED <<scenario, verdict, selected, missing, said, status>>

-----------------------------------------------------------------------------
(* The authority: resolve_metadata.                                        *)

InStore(i) == i \in MemoryItems
Judged == candidates \intersect MemoryItems
Scope(i) == held[i].project

\* _supersession_chain: the walk along the successors does not end.
Cyclic(i) ==
  LET walk[n \in 0..Cardinality(MemoryItems)] ==
        IF n = 0 THEN i ELSE IF InStore(walk[n-1]) THEN held[walk[n-1]].by ELSE 0
  IN walk[Cardinality(MemoryItems)] # 0 /\ InStore(walk[Cardinality(MemoryItems)])

InScope(i) == Scope(i) = "here" \/ (Scope(i) = "global" /\ ask.global)
Broken ==
  \/ \E i \in candidates : ~InScope(i)
  \/ \E i \in Judged : Cyclic(i) \/ (InStore(held[i].by) /\ Scope(held[i].by) # Scope(i))

Lifecycle(i) ==
  CASE held[i].status = "superseded" -> "SUPERSEDED"
    [] held[i].status = "resolved" -> "HISTORICAL"
    [] OTHER -> "SUPPORTING"

\* The loop goes by id, and the last write to a record stands: one that has a
\* predecessor behind it in that order ends AUTHORITATIVE, its own successor
\* notwithstanding.
AfterChains(i) ==
  LET before == {j \in Judged : held[j].by = i} IN
  IF \E j \in before : j > i THEN "AUTHORITATIVE"
  ELSE IF held[i].by # 0 THEN IF InStore(held[i].by) THEN "SUPERSEDED" ELSE "INVALID"
  ELSE IF before # {} THEN "AUTHORITATIVE"
  ELSE Lifecycle(i)

SameClaim(i) == {j \in Judged : held[j].claim = held[i].claim /\ Scope(j) = Scope(i)}

\* Of a group of duplicates the oldest is the canonical one, unless the record
\* of one of them is incomplete.
AfterDuplicates(i) ==
  LET group == SameClaim(i)
      older(j) == held[j].time < held[i].time \/ (held[j].time = held[i].time /\ j < i) IN
  CASE held[i].claim = 0 \/ Cardinality(group) < 2 -> AfterChains(i)
    [] OTHER -> IF \E j \in group : held[j].time = 0 \/ ~held[j].declared THEN "UNRESOLVED"
                ELSE IF \E j \in group \ {i} : older(j) THEN "SUPPORTING" ELSE "AUTHORITATIVE"

\* The first active blocker that refers to a memory of the past.
Gap(b) ==
  LET m == held[b].ref IN
  /\ held[b].kind = "blocker" /\ m \in Judged
  /\ AfterDuplicates(m) \in {"HISTORICAL", "SUPERSEDED", "INVALID"}
  /\ ~\E a \in candidates \ MemoryItems : a < b /\ held[a].kind = "blocker" /\ held[a].ref = m

Verdict(i) ==
  IF i \in MemoryItems
  THEN IF \E b \in candidates \ MemoryItems : Gap(b) /\ held[b].ref = i THEN "IMPLEMENTATION_GAP" ELSE AfterDuplicates(i)
  ELSE IF Gap(i) THEN "IMPLEMENTATION_GAP" ELSE "AUTHORITATIVE"

Resolves ==
  /\ stage = "retrieved"
  /\ \/ Broken /\ Stops("FAILED") /\ UNCHANGED verdict
     \/ /\ ~Broken /\ verdict' = [i \in candidates |-> Verdict(i)]
        /\ stage' = IF ask.shadow THEN "selected" ELSE "resolved"
        /\ selected' = IF ask.shadow THEN candidates ELSE {}
        /\ UNCHANGED <<said, status>>
  /\ IF Broken THEN UNCHANGED selected ELSE TRUE
  /\ UNCHANGED <<scenario, candidates, degraded, missing>>

-----------------------------------------------------------------------------
(* The decision: build_need_plan, _need_matches, select.  The needs of the *)
(* task's own text are left out, as compile_task leaves them out.          *)

StateRecords == {i \in StateItems : held[i].kind \in {"blocker", "constraint"}}
Needs == {<<need, 0>> : need \in ask.needs} \union {<<"record", i>> : i \in StateRecords}
         \union (IF \E i \in StateItems : held[i].kind = "blocker" THEN {<<"state", 0>>} ELSE {})
Critical == {n \in Needs : n[1] \in {"record", "state", "constraint"}}

Matches(i) ==
  {n \in Needs : \/ n = <<"record", i>>
                 \/ n[1] = "state" /\ (i \in StateItems \/ held[i].kind = "requirement")
                 \/ n[1] = "constraint" /\ held[i].kind \in {"constraint", "requirement"}
                 \/ n[1] = "decision" /\ held[i].kind = "decision"}

Readable(i) == ~held[i].secret
Lexical(i) == IF Readable(i) THEN held[i].says ELSE 0
Relevant(i) ==
  \/ ~ask.query
  \/ <<"record", i>> \in Needs
  \/ Lexical(i) > 0 /\ \A j \in candidates : 20 * Lexical(i) >= 7 * Lexical(j)

\* Bug: records of the past are not turned away.
AcceptableInAnyLife(i) ==
  InScope(i) /\ verdict[i] \notin {"SUPERSEDED", "HISTORICAL", "INAPPLICABLE", "INVALID"}

\* HARD_AUTHORITY_REJECTIONS, and no lifecycle but ACTIVE.
Acceptable(i) ==
  InScope(i) /\ held[i].status = "active" /\ verdict[i] \notin {"SUPERSEDED", "HISTORICAL", "INAPPLICABLE", "INVALID"}

\* A fingerprint is of the text, the type and the scope: of two records of one
\* group the second is for no need the first is not for.
GroupOf(i) == IF held[i].claim # 0 THEN <<Scope(i), held[i].claim>> ELSE <<"alone", i>>
OnePerGroup(S) == \A i, j \in S : GroupOf(i) = GroupOf(j) => i = j
Covered(S) == UNION {Matches(i) : i \in S}

\* What is relevant, once for each claim; and for a critical need that stays
\* open the best of what was not.  Secrets are dropped after the choice.
Decides ==
  LET acceptable == {i \in candidates : Acceptable(i)}
      relevant == {i \in acceptable : Relevant(i)} IN
  /\ stage = "resolved" /\ stage' = "decided"
  /\ \E kept \in SUBSET relevant :
       /\ OnePerGroup(kept) /\ {GroupOf(i) : i \in kept} = {GroupOf(i) : i \in relevant}
       /\ LET open == Critical \ Covered(kept)
              parked(n) == {i \in acceptable \ relevant : n \in Matches(i)}
              fillable == {n \in open : parked(n) # {}} IN
          \E best \in [fillable -> acceptable \ relevant] :
            /\ \A n \in fillable : best[n] \in parked(n)
            /\ LET chosen == kept \union {best[n] : n \in fillable} IN
               OnePerGroup(chosen) /\ selected' = {i \in chosen : Readable(i)}
  /\ UNCHANGED <<scenario, candidates, degraded, verdict, missing, said, status>>

-----------------------------------------------------------------------------
(* The density: ContextDensityEngine.select.                               *)

\* Bug: the needs are looked up in what was decided, not in what is kept.
CondensesWithoutCheck ==
  /\ stage = "decided" /\ stage' = "selected"
  /\ \E S \in Best(selected, MaxDense) : selected' = S
  /\ missing' = Critical \ Covered(selected)
  /\ UNCHANGED <<scenario, candidates, degraded, verdict, said, status>>

Condenses ==
  LET mandatory == {i \in selected : Matches(i) \intersect Critical # {}} IN
  /\ stage = "decided"
  /\ \/ Cardinality(mandatory) > MaxDense /\ Stops("INSUFFICIENT_BUDGET")
        /\ UNCHANGED <<selected, missing>>
     \/ /\ Cardinality(mandatory) <= MaxDense /\ stage' = "selected"
        /\ \E S \in Best(selected \ mandatory, MaxDense - Cardinality(mandatory)) : selected' = mandatory \union S
        /\ missing' = Critical \ Covered(selected')
        /\ UNCHANGED <<said, status>>
  /\ UNCHANGED <<scenario, candidates, degraded, verdict>>

-----------------------------------------------------------------------------
(* The compiler: build_drafts, choose and the rebalancing of compile.      *)

\* Bug: the mark of the density is not taken over into the drafts.
MandatoryByRole(i) ==
  \/ verdict[i] \in {"IMPLEMENTATION_GAP", "UNRESOLVED"}
  \/ held[i].kind \in {"constraint", "requirement", "blocker"}

\* A mandatory role, or selected for a critical need.
Mandatory(i) ==
  \/ verdict[i] \in {"IMPLEMENTATION_GAP", "UNRESOLVED"}
  \/ held[i].kind \in {"constraint", "requirement", "blocker"}
  \/ ~ask.shadow /\ Matches(i) \intersect Critical # {}

Eligible(i) == verdict[i] \in {"AUTHORITATIVE", "SUPPORTING", "IMPLEMENTATION_GAP", "UNRESOLVED"} /\ Readable(i)

StatusRank(i) ==
  CASE verdict[i] = "AUTHORITATIVE" -> 0 [] verdict[i] = "IMPLEMENTATION_GAP" -> 1
    [] verdict[i] = "UNRESOLVED" -> 3 [] OTHER -> 4
Better(i, j) == StatusRank(i) < StatusRank(j) \/ (StatusRank(i) = StatusRank(j) /\ i < j)

\* Bug: duplicates stay.
AllOf(S) == S

\* _dedupe: of one claim the best judged.
Deduped(S) == {i \in S : ~\E j \in S : GroupOf(j) = GroupOf(i) /\ Better(j, i)}

CostIn(items, S) == MapThenSumSet(LAMBDA i : items[i].cost, S)
Cost(S) == CostIn(held, S)

\* Bug: the rendered text is taken to cost what its items were estimated at.
RenderedAsEstimated(S) == ask.base + Cost(S)

\* The renderer frames each item; the estimates of the plan are without it.
Rendered(S) == ask.base + Cost(S) + ask.framing * Cardinality(S)

Compiles ==
  LET eligible == Deduped({i \in selected : Eligible(i)})
      mandatory == {i \in eligible : Mandatory(i)}
      optional == eligible \ mandatory
      fits(O) == ask.base + Cost(mandatory \union O) <= ask.budget /\ Cost(O) <= ask.optional
      plans == {O \in SUBSET optional : fits(O) /\ \A i \in optional \ O : ~fits(O \union {i})}
      outcome(why, S) ==
        /\ stage' = "ended" /\ said' = S
        /\ status' = IF why # "SUCCESS" THEN why
                     ELSE IF missing # {} THEN "DEGRADED"
                     ELSE IF S = {} THEN "EMPTY"
                     ELSE IF degraded THEN "DEGRADED" ELSE "SUCCESS" IN
  /\ stage = "selected"
  /\ IF ask.base > ask.budget \/ ask.base + Cost(mandatory) > ask.budget THEN outcome("INSUFFICIENT_BUDGET", {})
     ELSE \E O \in plans :
       IF O # optional /\ ~ask.omit THEN outcome("INSUFFICIENT_BUDGET", {})
       ELSE IF Rendered(mandatory \union O) <= ask.budget THEN outcome("SUCCESS", mandatory \union O)
       ELSE IF O = {} \/ ~ask.omit \/ (Rendered(mandatory) > ask.budget /\ Cardinality(O) <= MaxRebalance)
            THEN outcome("INSUFFICIENT_BUDGET", {})
       ELSE IF Rendered(mandatory) > ask.budget THEN outcome("FAILED", {})
       ELSE \E R \in SUBSET O :
              /\ R # {} /\ Rendered(mandatory \union (O \ R)) <= ask.budget
              /\ \E i \in R : Rendered(mandatory \union (O \ R) \union {i}) > ask.budget
              /\ IF Cardinality(R) > MaxRebalance THEN outcome("FAILED", {})
                 ELSE outcome("SUCCESS", mandatory \union (O \ R))
  /\ UNCHANGED <<scenario, candidates, degraded, verdict, selected, missing>>

SelectionNext == Retrieves \/ Resolves \/ Decides \/ Condenses \/ Compiles

SelectionSpec == SelectionInit /\ [][SelectionNext]_selectionVars

-----------------------------------------------------------------------------
(* Properties                                                              *)

\* What a context says is in scope, without a secret, of each claim said once
\* and within the budget as it is rendered; the context of a task says
\* nothing of the past.
SaidIsFit ==
  /\ \A i \in said :
       /\ InScope(i)
       /\ ~held[i].secret
       /\ ask.shadow \/ held[i].status = "active"
  /\ OnePerGroup(said)
  /\ said # {} => ask.base + Cost(said) + ask.framing * Cardinality(said) <= ask.budget

\* A context that is given out as complete covers every critical need, each
\* blocker and constraint of the state among them: a need that was lost on
\* the way, to a secret or to a limit of any stage, is never lost silently.
CriticalIsSaid ==
  stage = "ended" /\ ~ask.shadow /\ status \in {"SUCCESS", "EMPTY"} => Critical \subseteq Covered(said)

\* Both: a context says nothing it should not and leaves out nothing it must
\* say without being marked.
ContextIsFit == SaidIsFit /\ CriticalIsSaid

\* The authority gives precedence to no record that another one, which is in
\* the store, has superseded.
SupersededIsNotAuthoritative ==
  \A i \in DOMAIN verdict : i \in MemoryItems /\ InStore(held[i].by) => verdict[i] # "AUTHORITATIVE"
=============================================================================

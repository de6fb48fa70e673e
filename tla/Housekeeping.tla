---------------------------- MODULE Housekeeping ----------------------------
(***************************************************************************)
(* What the service does by itself for the review queue and the memory,    *)
(* and a command line may do at the same time: the triage that writes the  *)
(* advice of runtime/review-suggestions.json and accepts what was verified *)
(* (src/brain_eleven/runtime/queue_triage.py, value.py), the weekly audit  *)
(* (memory_audit.py) and the probation of memories no person wrote         *)
(* (probation.py).  Persons decide, write advice and retire meanwhile.     *)
(*                                                                         *)
(* One project.  What a model answers and which copy usage prefers is      *)
(* open; a decision of the review desk is one step (ReviewDesk).           *)
(***************************************************************************)
EXTENDS Integers

CONSTANTS Proposals, Records,   \* candidates in review, memories
          Twin,                 \* the memory a candidate repeats or confirms
          Complete,             \* candidates the fragment rule of today lets through
          Sorters, Auditors,    \* triage and audit, of the service and of a command line
          Service,              \* the triage that nobody looks at
          Prober,               \* the probation of the service
          Answers,              \* the recall questions a memory answers in full
          Copies,               \* pairs of memories that are exact duplicates
          Machine,            \* memories the worker wrote
          Junk,                 \* memories the rules of form retire
          Outcome,              \* what rules and model may say of a candidate
          MaxHands, MaxRuns     \* bounds on what persons do and on runs

NoRecord == 0
ASSUME HousekeepingAssumption ==
  /\ NoRecord \notin Records /\ Twin \in [Proposals -> Records] /\ Complete \subseteq Proposals
  /\ Service \in Sorters /\ Prober \notin Auditors /\ MaxHands \in Nat /\ MaxRuns \in Nat
  /\ Outcome \in [Proposals -> SUBSET {"none", "REJECT", "FRAGMENT", "VERIFIED", "REVIEW"}]
  /\ \A pair \in Copies : \E m, n \in Records : m # n /\ pair = {m, n}
  /\ {"open", "person", "rejected"} \cap Sorters = {}
  /\ {"no", "person", "superseded"} \cap (Auditors \union {Prober}) = {}

VARIABLES decided,   \* who accepted a candidate, or that it was turned down
          advice,    \* the file of suggestions
          automatic, \* auto_accept_verified
          sorter,    \* a run of the triage
          retired,   \* memories that are no longer active: superseded, or resolved by whom
          runner,       \* a run of the audit or of the probation
          report,    \* memory-audit.json
          checked,   \* probation.json
          hands, runs,
          verified,  \* history: candidates a model verified or somebody advised to accept
          permitted, \* history: accepting was on when the run of the service began
          owed       \* history: what the audit retired while it ran alone

adviceVars == <<decided, advice, automatic, sorter, verified, permitted>>
memoryRunners == <<retired, runner, report, checked, owed>>
counts == <<hands, runs>>
housekeepingVars == <<adviceVars, memoryRunners, counts>>

Advice == {"none", "ACCEPT", "REJECT", "FRAGMENT", "VERIFIED", "REVIEW", "DUPLICATE"}
Open == {p \in Proposals : decided[p] = "open"}
Alive == {m \in Records : retired[m] = "no"}

NotSorting == [at |-> "idle", read |-> [p \in Proposals |-> "none"], open |-> {}, accept |-> FALSE,
               fresh |-> [p \in Proposals |-> "none"], list |-> {}]
NoRunner == [at |-> "idle", live |-> {}, own |-> {}, todo |-> {}, target |-> NoRecord,
          persons |-> {}, raced |-> FALSE]
NoReport == [retired |-> {}, status |-> "NONE"]
Runners == Auditors \union {Prober}

HousekeepingInit ==
  /\ decided = [p \in Proposals |-> "open"]
  /\ advice \in [Proposals -> {"none", "FRAGMENT"}]
  /\ automatic \in BOOLEAN
  /\ sorter = [s \in Sorters |-> NotSorting]
  /\ retired = [m \in Records |-> "no"]
  /\ runner = [j \in Runners |-> NoRunner] /\ report = NoReport /\ checked = [m \in Records |-> "none"]
  /\ hands = 0 /\ runs = 0 /\ verified = {} /\ permitted = FALSE /\ owed = {}

-----------------------------------------------------------------------------
(* Persons.                                                                *)

HandsDo == hands < MaxHands /\ hands' = hands + 1 /\ UNCHANGED runs
Runs == runs < MaxRuns /\ runs' = runs + 1 /\ UNCHANGED hands

\* One decision, or one of the ids of a list: each is taken with a fresh
\* revision, as it would be alone.
PersonDecides(p) ==
  /\ HandsDo /\ p \in Open
  /\ \E d \in {"person", "rejected"} : decided' = [decided EXCEPT ![p] = d]
  /\ UNCHANGED <<advice, automatic, sorter, verified, permitted, memoryRunners>>

\* A session somebody runs writes an entry of the file.
PersonAdvises(p) ==
  /\ HandsDo
  /\ \E a \in {"ACCEPT", "REVIEW", "DUPLICATE"} \ {advice[p]} :
       /\ advice' = [advice EXCEPT ![p] = a]
       /\ verified' = IF a = "ACCEPT" THEN verified \union {p} ELSE verified
  /\ UNCHANGED <<decided, automatic, sorter, permitted, memoryRunners>>

OwnerSwitches ==
  /\ HandsDo /\ automatic' = ~automatic
  /\ UNCHANGED <<decided, advice, sorter, verified, permitted, memoryRunners>>

\* A memory that others are about to judge is retired under their hands.
Raced(by) == [j \in Runners |-> IF j # by /\ runner[j].at # "idle" THEN [runner[j] EXCEPT !.raced = TRUE] ELSE runner[j]]

PersonRetires(m) ==
  /\ HandsDo /\ m \in Alive
  /\ \E how \in {"person", "superseded"} : retired' = [retired EXCEPT ![m] = how]
  /\ runner' = Raced("person")
  /\ UNCHANGED <<adviceVars, report, checked, owed>>

-----------------------------------------------------------------------------
(* triage.                                                                 *)

\* Candidates without an entry, and fragments today's rule lets through.
ToSort == {p \in Open : advice[p] = "none" \/ (advice[p] = "FRAGMENT" /\ p \in Complete)}

\* What the rules and the model say; a candidate nobody could judge stays as
\* it is.  A verified one is accepted if the setting said so at the start.
SortBegins(s) ==
  /\ Runs /\ sorter[s].at = "idle"
  /\ \E said \in [Proposals -> UNION {Outcome[p] : p \in Proposals} \union {"none"}] :
       /\ \A p \in Proposals : said[p] \in IF p \in ToSort THEN Outcome[p] ELSE {"none"}
       /\ \A p \in Complete : said[p] # "FRAGMENT"
       /\ sorter' = [sorter EXCEPT ![s] =
            [at |-> "judged", open |-> Open, accept |-> automatic, list |-> {},
             read |-> [p \in Proposals |-> IF said[p] = "none" THEN "none" ELSE advice[p]],
             fresh |-> [p \in Proposals |-> IF said[p] = "VERIFIED" /\ automatic THEN "ACCEPT" ELSE said[p]]]]
       /\ verified' = verified \union {p \in ToSort : said[p] = "VERIFIED"}
  /\ permitted' = IF s = Service THEN automatic ELSE permitted
  /\ UNCHANGED <<decided, advice, automatic, memoryRunners>>

\* Bug: what was judged is written over what is there now.
MergedOver(s) ==
  LET run == sorter[s] IN
  [p \in Proposals |-> IF run.fresh[p] # "none" THEN run.fresh[p] ELSE advice[p]]

\* Bug: every entry that waits for a person is promoted.
MergedAndPromoted(s) ==
  LET run == sorter[s] IN
  [p \in Proposals |->
     IF run.fresh[p] # "none" /\ advice[p] = run.read[p] THEN run.fresh[p]
     ELSE IF run.accept /\ p \in run.open /\ advice[p] \in {"VERIFIED", "REVIEW"} THEN "ACCEPT"
     ELSE advice[p]]

\* Under the lock of the file: an entry somebody wrote meanwhile stays, and
\* what was verified while accepting was off is promoted.
MergedAdvice(s) ==
  LET run == sorter[s]
      mine(p) == run.fresh[p] # "none" /\ advice[p] = run.read[p]
      now(p) == IF mine(p) THEN run.fresh[p] ELSE advice[p] IN
  [p \in Proposals |-> IF run.accept /\ p \in run.open /\ now(p) = "VERIFIED" THEN "ACCEPT" ELSE now(p)]

\* The service goes on to accept if the setting was on when it began, the
\* command line if it was told to.
SortMerges(s) ==
  /\ sorter[s].at = "judged"
  /\ advice' = MergedAdvice(s)
  /\ \/ (s = Service => sorter[s].accept) /\ sorter' = [sorter EXCEPT ![s] = [NotSorting EXCEPT !.at = "merged"]]
     \/ (s = Service => ~sorter[s].accept) /\ sorter' = [sorter EXCEPT ![s] = NotSorting]
  /\ UNCHANGED <<decided, automatic, verified, permitted, memoryRunners, counts>>

\* load_suggestions: a candidate is hidden behind a memory of the file that
\* is not superseded; one that is only resolved counts as there.
Shown(p) == IF advice[p] = "DUPLICATE" /\ retired[Twin[p]] = "superseded" THEN "REVIEW" ELSE advice[p]

\* apply_suggestions reads the file once and goes through it.
ApplyLoads(s) ==
  /\ sorter[s].at = "merged"
  /\ sorter' = [sorter EXCEPT ![s].at = "applying", ![s].list = {p \in Proposals : Shown(p) = "ACCEPT"}]
  /\ UNCHANGED <<decided, advice, automatic, verified, permitted, memoryRunners, counts>>

\* review_action turns down what was decided meanwhile, and may fail.
Applies(s) ==
  /\ sorter[s].at = "applying"
  /\ \E p \in sorter[s].list :
       /\ sorter' = [sorter EXCEPT ![s].list = @ \ {p}]
       /\ \/ p \in Open /\ decided' = [decided EXCEPT ![p] = s]
          \/ UNCHANGED decided
  /\ UNCHANGED <<advice, automatic, verified, permitted, memoryRunners, counts>>

SortEnds(s) ==
  /\ sorter[s].at = "applying" /\ sorter[s].list = {}
  /\ sorter' = [sorter EXCEPT ![s] = NotSorting]
  /\ UNCHANGED <<decided, advice, automatic, verified, permitted, memoryRunners, counts>>

SortStops(s) ==
  /\ sorter[s].at # "idle"
  /\ sorter' = [sorter EXCEPT ![s] = NotSorting]
  /\ UNCHANGED <<decided, advice, automatic, verified, permitted, memoryRunners, counts>>

-----------------------------------------------------------------------------
(* Retirements.  A run reads the memories once and goes on with what it has *)
(* read; every retirement is checked against the store again.              *)

\* The only memory of its project with the whole answer to a question.
Protected(live) == {m \in live : \E q \in Answers[m] : \A n \in live \ {m} : q \notin Answers[n]}

\* Bug: of the memories a decision names only the successor counts, and a
\* confirmation has none.
NamedAsSuccessor == {}

\* human_accepted_ids: what a decision made or confirmed.
AcceptedByPerson == {Twin[p] : p \in {r \in Proposals : decided[r] = "person"}}

RunnerDoes(j, new) == runner' = [runner EXCEPT ![j] = new]

\* The questions may be unreadable: then nothing is retired.
AuditBegins(a) ==
  /\ Runs /\ runner[a].at = "idle"
  /\ RunnerDoes(a, [NoRunner EXCEPT !.at = "working", !.live = Alive, !.todo = {pair \in Copies : pair \subseteq Alive}])
  /\ owed' = {}
  /\ UNCHANGED <<adviceVars, retired, report, checked>>

\* Bug: the guard of the start.
StaleGuard(j) == Protected(runner[j].live)

\* The guard over what this run has left.
Guard(j) == Protected(runner[j].live \ runner[j].own)

\* Of a pair the copy that is used less goes, the other one if that is the
\* last to answer a question, and none if both are.
Compares(a) ==
  /\ runner[a].at = "working"
  /\ \E pair \in runner[a].todo : \E less \in pair :
       LET rest == runner[a].todo \ {pair}
           drop == IF less \in Guard(a) THEN CHOOSE m \in pair : m # less ELSE less IN
       IF pair \cap runner[a].own # {} \/ drop \in Guard(a)
       THEN RunnerDoes(a, [runner[a] EXCEPT !.todo = rest])
       ELSE RunnerDoes(a, [runner[a] EXCEPT !.todo = rest, !.at = "retiring", !.target = drop])
  /\ UNCHANGED <<adviceVars, retired, report, checked, owed, counts>>

\* Memories the worker wrote that no person accepted, each judged once.
ProbationBegins ==
  /\ Runs /\ runner[Prober].at = "idle"
  /\ RunnerDoes(Prober, [NoRunner EXCEPT !.at = "working", !.live = Alive,
                                   !.persons = {Twin[p] : p \in {r \in Proposals : decided[r] = "person"}},
                                   !.todo = {m \in (Alive \cap Machine) \ AcceptedByPerson : checked[m] = "none"}])
  /\ UNCHANGED <<adviceVars, retired, report, checked, owed>>

Judges(m, verdict) == checked' = [checked EXCEPT ![m] = verdict]

\* A rule of form retires, unless the guard protects; the model only flags,
\* and one that does not answer leaves the memory for a later run.
Probes ==
  /\ runner[Prober].at = "working"
  /\ \E m \in runner[Prober].todo :
       LET on == [runner[Prober] EXCEPT !.todo = @ \ {m}] IN
       IF m \notin Junk
       THEN RunnerDoes(Prober, on) /\ (UNCHANGED checked \/ \E v \in {"KEEP", "DROP"} : Judges(m, v))
       ELSE IF m \in Guard(Prober) THEN RunnerDoes(Prober, on) /\ Judges(m, "PROTECTED")
       ELSE RunnerDoes(Prober, [on EXCEPT !.at = "retiring", !.target = m]) /\ UNCHANGED checked
  /\ UNCHANGED <<adviceVars, retired, report, owed, counts>>

\* retire looks for the active memory; one that is gone is passed over.
RetireLooks(j) ==
  /\ runner[j].at = "retiring"
  /\ RunnerDoes(j, [runner[j] EXCEPT !.at = IF runner[j].target \in Alive THEN "resolving" ELSE "working"])
  /\ UNCHANGED <<adviceVars, retired, report, checked, owed, counts>>

AloneAtAudit(j) == j \in Auditors /\ \A b \in Auditors \ {j} : runner[b].at = "idle"

\* The engine resolves an active memory; that it is resolved afterwards is
\* what counts.  It may be refused: the run passes on.
Resolves(j) ==
  LET m == runner[j].target IN
  /\ runner[j].at = "resolving"
  /\ \/ /\ retired[m] # "superseded"
        /\ retired' = IF m \in Alive THEN [retired EXCEPT ![m] = j] ELSE retired
        /\ runner' = [Raced(j) EXCEPT ![j] = [runner[j] EXCEPT !.at = "recording", !.own = runner[j].own \union {m}]]
        /\ owed' = IF AloneAtAudit(j) THEN owed \union {m} ELSE owed
     \/ RunnerDoes(j, [runner[j] EXCEPT !.at = "working"]) /\ UNCHANGED <<retired, owed>>
  /\ UNCHANGED <<adviceVars, report, checked, counts>>

\* Bug: the audit writes its report at the end.
WritesLater(j) ==
  /\ runner[j].at = "recording"
  /\ IF j = Prober THEN Judges(runner[j].target, "RULE") ELSE UNCHANGED checked
  /\ RunnerDoes(j, [runner[j] EXCEPT !.at = "working", !.target = NoRecord])
  /\ UNCHANGED <<adviceVars, retired, report, owed, counts>>

\* What was retired is written down after every retirement.
WritesDown(j) ==
  /\ runner[j].at = "recording"
  /\ IF j = Prober THEN Judges(runner[j].target, "RULE") /\ UNCHANGED report
     ELSE report' = [retired |-> runner[j].own, status |-> "RUNNING"] /\ UNCHANGED checked
  /\ RunnerDoes(j, [runner[j] EXCEPT !.at = "working", !.target = NoRecord])
  /\ UNCHANGED <<adviceVars, retired, owed, counts>>

\* The end of an audit, and of one that failed in between; a process that
\* stops writes nothing.
AuditEnds(a) ==
  /\ runner[a].at = "working" /\ runner[a].todo = {}
  /\ report' = [retired |-> runner[a].own, status |-> "OK"]
  /\ RunnerDoes(a, NoRunner)
  /\ UNCHANGED <<adviceVars, retired, checked, owed, counts>>
AuditFails(a) ==
  /\ runner[a].at = "working"
  /\ report' = [report EXCEPT !.status = "FAILED"]
  /\ RunnerDoes(a, NoRunner)
  /\ UNCHANGED <<adviceVars, retired, checked, owed, counts>>
ProbationEnds ==
  /\ runner[Prober].at = "working" /\ runner[Prober].todo = {}
  /\ RunnerDoes(Prober, NoRunner)
  /\ UNCHANGED <<adviceVars, retired, report, checked, owed, counts>>
RunnerStops(j) ==
  /\ runner[j].at # "idle"
  /\ RunnerDoes(j, NoRunner)
  /\ owed' = IF runner[j].at = "recording" THEN owed \ {runner[j].target} ELSE owed
  /\ UNCHANGED <<adviceVars, retired, report, checked, counts>>

Sorting ==
  \/ OwnerSwitches
  \/ \E p \in Proposals : PersonDecides(p) \/ PersonAdvises(p)
  \/ \E s \in Sorters : SortBegins(s) \/ SortMerges(s) \/ ApplyLoads(s) \/ Applies(s) \/ SortEnds(s) \/ SortStops(s)

Retiring ==
  \/ \E m \in Records : PersonRetires(m)
  \/ \E a \in Auditors : AuditBegins(a) \/ Compares(a) \/ AuditEnds(a) \/ AuditFails(a)
  \/ ProbationBegins \/ Probes \/ ProbationEnds
  \/ \E j \in Runners : RetireLooks(j) \/ Resolves(j) \/ WritesDown(j) \/ RunnerStops(j)

HousekeepingNext == Sorting \/ Retiring
HousekeepingSpec == HousekeepingInit /\ [][HousekeepingNext]_housekeepingVars

-----------------------------------------------------------------------------
(* Properties.                                                             *)

\* What one audit alone retired stands in its report at any moment, so that an
\* interrupted run leaves a record of what it changed; what a process was just
\* writing down when it stopped is excused.
AuditIsRecorded ==
  owed \subseteq report.retired \union {runner[a].target : a \in {b \in Auditors : runner[b].at = "recording"}}

NewlyRetired(j) == {m \in Alive : retired'[m] = j}

\* What is done without a person rests on what was true when the run began or
\* later.  A verdict is replaced only by who had read it; the machine accepts
\* what was verified, the service only if it was permitted; a memory that a person
\* had accepted is not put on probation.  Unless somebody else retired in the
\* meantime, a question that has an answer keeps one, and of copies one stays.
UpkeepIsGuarded ==
  [][/\ \A p \in Proposals :
          /\ advice'[p] = advice[p] \/ hands' # hands \/ (advice[p] = "VERIFIED" /\ advice'[p] = "ACCEPT")
             \/ \E s \in Sorters : sorter[s].at = "judged" /\ sorter[s].read[p] = advice[p]
          /\ p \in Open /\ decided'[p] \in Sorters => p \in verified /\ (decided'[p] = Service => permitted)
     /\ retired' # retired =>
          /\ NewlyRetired(Prober) \cap runner[Prober].persons = {}
          /\ \A j \in Runners : NewlyRetired(j) # {} /\ ~runner[j].raced =>
               /\ UNION {Answers[m] : m \in Alive} = UNION {Answers[m] : m \in Alive'}
               /\ j = Prober \/ \E pair \in Copies : pair \cap NewlyRetired(j) # {} /\ pair \cap Alive' # {}]_housekeepingVars
=============================================================================

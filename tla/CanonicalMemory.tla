--------------------------- MODULE CanonicalMemory ---------------------------
(***************************************************************************)
(* The canonical memory of a vault, .claude/validated-memory.json, and all *)
(* who write it.  The truth engine (src/scripts/memory_truth.py) evaluates *)
(* typed candidates for the worker, the review desk and its command line;  *)
(* an operation of the runtime has an identity and leaves a receipt in the *)
(* same transaction as its effect.  The HTTP API (src/scripts/search-api   *)
(* .py), the lifecycle command (memory-lifecycle.py), the batch validator  *)
(* (memory-validator.py) and the receipt migration write the same file.    *)
(* Every write is a transaction under one lock with a revision             *)
(* (src/brain_eleven/memory/store.py).                                     *)
(*                                                                         *)
(* One scope: memories of different projects never meet in a decision.     *)
(* A memory is named by the order of its creation.  The order of records   *)
(* in the file is left out: the validator rewrites it.                     *)
(***************************************************************************)
EXTENDS Integers, Sequences, FiniteSets

CONSTANTS Ops,          \* operation identities of the runtime
          Desk,         \* those of the review desk, which names a revision
          Tool,         \* the command line of the engine, without identity
          Requests,     \* the candidate batches each of them may be called with
          Facts,        \* contents, as their fingerprints
          Claims,       \* claim keys
          Seeds,        \* memories a vault may hold when the runtime is installed
          MaxMemories,  \* bound on memories
          MaxManual     \* bound on writes that are not the runtime's

Absent == 0
Callers == Ops \union {Tool}

Actions == {"NEW", "SUPERSEDE_EXISTING", "RESOLVE_EXISTING", "CONFIRM_EXISTING"}
Ids == 1..MaxMemories
Candidates == [action : Actions, text : Facts, claim : Claims \union {Absent},
               target : Ids \union {Absent}]

Statuses == {"active", "resolved", "superseded", "deleted"}
\* "rejected" is the other list of the file; "gone" is in neither.
Places == {"validated", "rejected", "gone"}
Memories == [text : Facts, claim : Claims \union {Absent}, status : Statuses,
             by : Ids \union {Absent}, place : Places, approved : BOOLEAN,
             born : Ops \union {Absent}]

ASSUME DeskAssumption == Desk \subseteq Ops
ASSUME NamesAssumption == Tool \notin Ops /\ Absent \notin Callers \union Facts \union Claims
ASSUME RequestsAssumption == \A c \in Callers : Requests[c] \subseteq Seq(Candidates) \ {<<>>}
\* The worker and the review desk hand over one candidate at a time.
ASSUME OneAtATime == \A o \in Ops : \A b \in Requests[o] : Len(b) = 1
ASSUME MemoriesAssumption == MaxMemories \in Nat /\ MaxManual \in Nat

VARIABLES mem,       \* the memories
          schema,    \* 3 has operation receipts, 2 has none
          receipts,  \* operation receipts, by identity
          version,
          call,      \* the process() call each caller is in
          tx,        \* the engine's transaction, while it holds the store lock
          project,   \* the registry lets the project's memories in
          manager,   \* what the lifecycle command loaded
          manual,    \* writes made around the runtime
          refused,   \* history: the step turned down the call it served
          done,      \* history: operations whose effect was committed
          lost,      \* history: those whose receipt a later write discarded
          batched    \* history: a batch of several candidates was committed

file == <<mem, schema, receipts, version>>
past == <<done, lost, batched>>
memoryHistory == <<refused, past>>
memoryVars == <<file, call, tx, project, manager, manual, memoryHistory>>

NoCall == [batch |-> <<>>, open |-> FALSE, expected |-> Absent]
AnyRevision == -1
NoTx == [by |-> Absent, rest |-> <<>>, work |-> <<>>, seen |-> {}, log |-> <<>>]
NoReceipt == [batch |-> <<>>, log |-> <<>>]
Silent == refused' = FALSE /\ UNCHANGED past
NotLoaded == [memories |-> <<>>, revision |-> -1]

-----------------------------------------------------------------------------
(* What a decision sees.                                                   *)

Kept(m) == {i \in DOMAIN m : m[i].place = "validated"}
Holders(m, k) == {i \in Kept(m) : m[i].claim = k /\ k # Absent /\ m[i].status = "active"}
ClaimsOnce(m) == \A k \in Claims : \A i, j \in Holders(m, k) : i = j
\* The claim keys of a seed were given by an engine as well: each is held once.
ASSUME SeedsAssumption ==
  /\ Seeds \subseteq Seq(Memories)
  /\ \A s \in Seeds : /\ Len(s) <= MaxMemories /\ ClaimsOnce(s)
                       /\ \A i \in 1..Len(s) : s[i].born = Absent

Saying(m, t) == {i \in Kept(m) : m[i].text = t}

\* The identity of a successor is made from the operation's.
Successors(m, o) == {i \in Kept(m) : o \in Ops /\ m[i].born = o}

Decision(action, id) == [action |-> action, id |-> id]
Undecided == {"REJECT", "REVIEW_REQUIRED", "CONFLICT"}
Decisions == [action : Actions \union Undecided \union {"DUPLICATE"}, id : Ids \union {Absent}]

\* A new fact: the first memory in the file that says it, or holds its claim.
NewDecisions(c, m) ==
  LET same == Saying(m, c.text)
      rivals == Holders(m, c.claim) IN
  {Decision("DUPLICATE", i) : i \in same} \union
  {Decision("CONFLICT", i) : i \in rivals \ same} \union
  {Decision("NEW", Absent) : z \in {1} \ {1 : i \in same \union rivals}}

\* Bug: a successor with a claim key somebody else holds.
SupersedeUnchecked(c, m, o) ==
  LET t == c.target IN
  IF t \notin Kept(m) \/ m[t].status = "deleted" THEN Decision("REVIEW_REQUIRED", Absent)
  ELSE IF c.action = "CONFIRM_EXISTING" THEN Decision("CONFIRM_EXISTING", t)
  ELSE IF m[t].status # "active" THEN Decision("REVIEW_REQUIRED", t)
  ELSE Decision(c.action, t)

LifecycleDecision(c, m, o) ==
  LET t == c.target IN
  IF t \notin Kept(m) \/ m[t].status = "deleted" THEN Decision("REVIEW_REQUIRED", Absent)
  ELSE IF c.action = "CONFIRM_EXISTING" THEN Decision("CONFIRM_EXISTING", t)
  ELSE IF m[t].status # "active" THEN Decision("REVIEW_REQUIRED", t)
  ELSE IF c.action = "RESOLVE_EXISTING" THEN Decision("RESOLVE_EXISTING", t)
  ELSE IF Successors(m, o) # {} THEN Decision("REVIEW_REQUIRED", t)
  ELSE IF Holders(m, c.claim) \ {t} # {} THEN Decision("CONFLICT", Absent)
  ELSE Decision("SUPERSEDE_EXISTING", t)

Evaluate(c, m, o) ==
  IF c.action = "NEW" THEN NewDecisions(c, m) ELSE {LifecycleDecision(c, m, o)}

Record(c, o) ==
  [text |-> c.text, claim |-> c.claim, status |-> "active", by |-> Absent,
   place |-> "validated", approved |-> TRUE, born |-> IF o \in Ops THEN o ELSE Absent]

-----------------------------------------------------------------------------
(* One call of process(): the preflight reads the registry, the transaction *)
(* reloads the file under the lock, evaluates every candidate against what  *)
(* it read, applies them one after the other and replaces the file.  A      *)
(* process that ends before the replacement leaves the file as it was.      *)

Process(c, b) ==
  /\ call[c] = NoCall
  /\ c = Tool => manual < MaxManual
  /\ call' = [call EXCEPT ![c] =
       [batch |-> b, open |-> project, expected |-> IF c \in Desk THEN version ELSE AnyRevision]]
  /\ manual' = IF c = Tool THEN manual + 1 ELSE manual
  /\ UNCHANGED <<file, tx, project, manager>>
  /\ Silent

AtStore(c) == tx = NoTx /\ call[c] # NoCall

\* Bug: the receipt is written but never looked up.
NeverKnown(o) == FALSE

Known(o) == o \in Ops /\ schema = 3 /\ receipts[o] # NoReceipt
\* Bug: the revision is compared before the receipt.
ReplayedIfFresh(o) ==
  /\ Known(o) /\ receipts[o].batch = call[o].batch
  /\ call[o].expected \in {AnyRevision, version}

Replayed(o) == Known(o) /\ receipts[o].batch = call[o].batch

Admitted(c) ==
  /\ c \in Ops => schema = 3
  /\ ~Known(c)
  /\ call[c].expected \in {AnyRevision, version}
  /\ call[c].open

Ends(c) == call' = [call EXCEPT ![c] = NoCall]

\* A policy that closed the project meanwhile does not stop the replay.
ReplaysReceipt(o) ==
  /\ AtStore(o) /\ Replayed(o)
  /\ Ends(o)
  /\ UNCHANGED <<file, tx, project, manager, manual>>
  /\ Silent

\* Receipts not migrated, another request, a stale revision, a closed project.
Refuse(c) ==
  /\ AtStore(c) /\ ~Replayed(c) /\ ~Admitted(c)
  /\ Ends(c) /\ refused' = TRUE
  /\ UNCHANGED <<file, tx, project, manager, manual, past>>

\* PROJECT_REGISTRY_UNAVAILABLE, or the project is not allowed at all.
Unavailable(c) ==
  /\ AtStore(c)
  /\ Ends(c)
  /\ UNCHANGED <<file, tx, project, manager, manual>>
  /\ Silent

Dies(c) ==
  /\ call[c] # NoCall
  /\ Ends(c)
  /\ tx' = IF tx.by = c THEN NoTx ELSE tx
  /\ UNCHANGED <<file, project, manager, manual>>
  /\ Silent

Reload(c) ==
  /\ AtStore(c) /\ Admitted(c)
  /\ Len(mem) + Len(call[c].batch) <= MaxMemories
  /\ tx' = [by |-> c, rest |-> call[c].batch, work |-> mem,
            seen |-> {mem[i].text : i \in Kept(mem)}, log |-> <<>>]
  /\ UNCHANGED <<file, call, project, manager, manual>>
  /\ Silent

Takes(d, work, seen) ==
  tx' = [tx EXCEPT !.rest = Tail(@), !.work = work, !.seen = seen, !.log = Append(@, d)]

NewId(work) == Len(work) + 1

ApplyNew(c) ==
  /\ Decision("NEW", Absent) \in Evaluate(c, mem, tx.by)
  /\ \/ /\ c.text \notin tx.seen
        /\ Takes(Decision("NEW", NewId(tx.work)), Append(tx.work, Record(c, tx.by)),
                 tx.seen \union {c.text})
     \/ /\ c.text \in tx.seen
        /\ \E i \in Saying(tx.work, c.text) :
             Takes(Decision("DUPLICATE", i), tx.work, tx.seen)

ApplySupersede(c) ==
  /\ Decision("SUPERSEDE_EXISTING", c.target) \in Evaluate(c, mem, tx.by)
  /\ Takes(Decision("SUPERSEDE_EXISTING", NewId(tx.work)),
           Append([tx.work EXCEPT ![c.target].status = "superseded",
                                  ![c.target].by = NewId(tx.work)], Record(c, tx.by)),
           tx.seen)

ApplyResolve(c) ==
  /\ Decision("RESOLVE_EXISTING", c.target) \in Evaluate(c, mem, tx.by)
  /\ Takes(Decision("RESOLVE_EXISTING", c.target),
           [tx.work EXCEPT ![c.target].status = "resolved"], tx.seen)

\* A decision without an effect.
Pass(c) ==
  \E d \in Evaluate(c, mem, tx.by) :
    /\ d.action \in Undecided \union {"DUPLICATE", "CONFIRM_EXISTING"}
    /\ Takes(d, tx.work, tx.seen)

Apply ==
  /\ tx # NoTx /\ tx.rest # <<>>
  /\ LET c == Head(tx.rest) IN ApplyNew(c) \/ ApplySupersede(c) \/ ApplyResolve(c) \/ Pass(c)
  /\ UNCHANGED <<file, call, project, manager, manual>>
  /\ Silent

\* Only a request with every candidate decided leaves a receipt.
Persist ==
  LET o == tx.by
      sound == \A i \in DOMAIN tx.log : tx.log[i].action \notin Undecided
      leaves == o \in Ops /\ sound IN
  /\ tx # NoTx /\ tx.rest = <<>>
  /\ mem' = tx.work
  /\ receipts' = IF leaves
                 THEN [receipts EXCEPT ![o] = [batch |-> call[o].batch, log |-> tx.log]]
                 ELSE receipts
  /\ version' = IF leaves \/ tx.work # mem THEN version + 1 ELSE version
  /\ done' = IF leaves THEN done \union {o} ELSE done
  /\ batched' = (batched \/ Len(tx.log) > 1)
  /\ Ends(o) /\ refused' = FALSE
  /\ tx' = NoTx
  /\ UNCHANGED <<schema, project, manager, manual, lost>>

-----------------------------------------------------------------------------
(* Writers without an operation identity.                                  *)

Writes(m) ==
  /\ tx = NoTx
  /\ mem' = m /\ version' = version + 1
  /\ UNCHANGED <<call, tx, project>>
  /\ Silent

Around ==
  /\ manual < MaxManual /\ manual' = manual + 1
  /\ UNCHANGED <<schema, receipts, manager>>

Active(i) == i \in Kept(mem) /\ mem[i].status = "active"

\* Memories the validator takes a repeated content for.
Canonical(m, t) ==
  {i \in DOMAIN m : m[i].place # "gone" /\ m[i].status # "superseded" /\ m[i].text = t}

Plain(t, ok) ==
  [text |-> t, claim |-> Absent, status |-> "active", by |-> Absent,
   place |-> "validated", approved |-> ok, born |-> Absent]

\* POST /memories; ok is the quality score's verdict.
ApiAdd(t, ok) ==
  /\ Canonical(mem, t) = {} /\ Len(mem) < MaxMemories
  /\ Writes(Append(mem, Plain(t, ok)))
  /\ Around

\* PUT /memories/{id}: the fingerprint follows the text, nothing compares it.
ApiEdit(i, t) ==
  /\ Active(i)
  /\ Writes([mem EXCEPT ![i].text = t])
  /\ Around

ApiRetire(i, status) ==
  /\ Active(i)
  /\ Writes([mem EXCEPT ![i].status = status])
  /\ Around

\* The successor may have any status.
ApiSupersede(i, k) ==
  /\ Active(i) /\ k \in Kept(mem) \ {i}
  /\ Writes([mem EXCEPT ![i].status = "superseded", ![i].by = k])
  /\ Around

\* memory-lifecycle.py loads the file, changes one memory and replaces it all.
ManagerLoads ==
  /\ manager = NotLoaded /\ manual < MaxManual
  /\ manager' = [memories |-> mem, revision |-> version]
  /\ manual' = manual + 1
  /\ UNCHANGED <<file, call, tx, project>>
  /\ Silent

\* Bug: the file is replaced without comparing revisions.
ManagerOverwrites(m) ==
  /\ manager # NotLoaded
  /\ Writes(m)
  /\ manager' = NotLoaded
  /\ UNCHANGED <<schema, receipts, manual>>

\* Receipts cannot differ from the loaded ones while the revision is the same.
ManagerSaves(m) ==
  /\ manager # NotLoaded /\ manager.revision = version
  /\ Writes(m)
  /\ manager' = NotLoaded
  /\ UNCHANGED <<schema, receipts, manual>>

ManagerResolves(i) ==
  /\ i \in Kept(manager.memories)
  /\ ManagerSaves([manager.memories EXCEPT ![i].status = "resolved"])

ManagerSupersedes(i, k) ==
  /\ i \in Kept(manager.memories)
  /\ ManagerSaves([manager.memories EXCEPT ![i].status = "superseded", ![i].by = k])

ManagerConflicts ==
  /\ tx = NoTx /\ manager # NotLoaded /\ manager.revision # version
  /\ manager' = NotLoaded
  /\ UNCHANGED <<file, call, tx, project, manual>>
  /\ Silent

\* Bug: only the candidates of the run are written.
MergedWithoutPrior(m, i, ok) ==
  [j \in DOMAIN m |->
    [m[j] EXCEPT !.claim = Absent,
                 !.place = IF j # i THEN "gone" ELSE IF ok THEN "validated" ELSE "rejected"]]

\* The validator builds every record anew from the fields it knows: the claim
\* key is not one of them.  A rejected memory that is no candidate is dropped.
Merged(m, i, ok) ==
  [j \in DOMAIN m |->
    LET good == IF j = i THEN ok ELSE m[j].approved
        stays == m[j].place = "validated" \/ j = i
        place == IF ~stays THEN "gone" ELSE IF good THEN "validated" ELSE "rejected" IN
    [m[j] EXCEPT !.claim = Absent, !.approved = good, !.place = place]]

\* save_output() clears the document: no receipts, and schema 2 again.
Validate(m) ==
  /\ tx = NoTx /\ manual < MaxManual /\ manual' = manual + 1
  /\ mem' = m /\ version' = version + 1 /\ schema' = 2
  /\ receipts' = [o \in Ops |-> NoReceipt]
  /\ lost' = lost \union {o \in Ops : receipts[o] # NoReceipt}
  /\ UNCHANGED <<call, tx, project, manager, done, batched>>
  /\ refused' = FALSE

\* At most one candidate of the daily notes in a run.
ValidateNothing == Validate(Merged(mem, Absent, FALSE))
ValidateKnown(i, ok) ==
  /\ i \in Canonical(mem, mem[i].text)
  /\ Validate(Merged(mem, i, ok))
ValidateNew(t, ok) ==
  /\ Canonical(mem, t) = {} /\ Len(mem) < MaxMemories
  /\ Validate(Append(Merged(mem, Absent, FALSE),
                     [Plain(t, ok) EXCEPT !.place = IF ok THEN "validated" ELSE "rejected"]))

\* The revision stays.
Migrate ==
  /\ tx = NoTx /\ schema = 2
  /\ schema' = 3 /\ receipts' = [o \in Ops |-> NoReceipt]
  /\ UNCHANGED <<mem, version, call, tx, project, manager, manual>>
  /\ Silent

SetProject ==
  /\ project' = ~project
  /\ UNCHANGED <<file, call, tx, manager, manual>>
  /\ Silent

-----------------------------------------------------------------------------

MemoryInit ==
  /\ mem \in Seeds /\ schema = 3 /\ version = 0
  /\ receipts = [o \in Ops |-> NoReceipt]
  /\ call = [c \in Callers |-> NoCall] /\ tx = NoTx
  /\ project = TRUE /\ manager = NotLoaded /\ manual = 0
  /\ refused = FALSE
  /\ done = {} /\ lost = {} /\ batched = FALSE

Engine(c) ==
  \/ \E b \in Requests[c] : Process(c, b)
  \/ ReplaysReceipt(c) \/ Refuse(c) \/ Unavailable(c) \/ Dies(c) \/ Reload(c)

Others ==
  \/ \E t \in Facts, ok \in BOOLEAN : ApiAdd(t, ok) \/ ValidateNew(t, ok)
  \/ \E i \in DOMAIN mem :
       \/ \E t \in Facts \ {mem[i].text} : ApiEdit(i, t)
       \/ \E status \in {"resolved", "deleted"} : ApiRetire(i, status)
       \/ \E k \in DOMAIN mem : ApiSupersede(i, k) \/ ManagerSupersedes(i, k)
       \/ \E ok \in BOOLEAN : ValidateKnown(i, ok)
       \/ ManagerResolves(i)
  \/ ManagerLoads \/ ManagerConflicts \/ ValidateNothing \/ Migrate \/ SetProject

MemoryNext == (\E c \in Callers : Engine(c)) \/ Apply \/ Persist \/ Others

MemorySpec == MemoryInit /\ [][MemoryNext]_memoryVars

-----------------------------------------------------------------------------
(* Properties.                                                             *)

\* The types of the document, of its readers and writers.
MemoryTypeOK ==
  /\ mem \in Seq(Memories) /\ Len(mem) <= MaxMemories
  /\ schema \in {2, 3} /\ version \in Nat
  /\ receipts \in [Ops -> [batch : Seq(Candidates), log : Seq(Decisions)]]
  /\ call \in [Callers -> [batch : Seq(Candidates), open : BOOLEAN,
                          expected : Int]]
  /\ tx \in [by : Callers \union {Absent}, rest : Seq(Candidates), work : Seq(Memories),
             seen : SUBSET Facts, log : Seq(Decisions)]
  /\ project \in BOOLEAN /\ manual \in 0..MaxManual
  /\ manager \in [memories : Seq(Memories), revision : Int]
  /\ refused \in BOOLEAN
  /\ done \subseteq Ops /\ lost \subseteq done /\ batched \in BOOLEAN

\* The test of claim keys says it: memories on the same topic must not
\* silently stay active together.  It holds as long as no call commits
\* several candidates at once: they are evaluated against what was there
\* before the batch.
OneActiveClaim ==
  ~batched => ClaimsOnce(mem)

\* One memory of an operation, however often it is called again.
OneEffectPerOperation ==
  \A o \in Ops \ lost : \A i, j \in DOMAIN mem :
    mem[i].born = o /\ mem[j].born = o => i = j

\* The memory a receipt names is among the validated ones, what it retired is
\* not active.
ReceiptIsTrue ==
  \A o \in Ops : receipts[o] # NoReceipt =>
    LET c == receipts[o].batch[1]
        d == receipts[o].log[1] IN
    /\ d.id \in Kept(mem)
    /\ d.action \in {"NEW", "SUPERSEDE_EXISTING"} => mem[d.id].born = o
    /\ d.action \in {"SUPERSEDE_EXISTING", "RESOLVE_EXISTING"} =>
         mem[c.target].status # "active"

\* However often an operation is called again, after whatever crash, and
\* whatever the people around it write, it makes one memory, as long as its
\* receipt is not taken away; and what a receipt tells the worker and the
\* review desk is in the file (apply_candidate: receipt and effect share the
\* transaction).  The document itself keeps its type through every writer.
ReceiptsAreSound == MemoryTypeOK /\ OneEffectPerOperation /\ ReceiptIsTrue

\* No write undoes another's: no memory disappears with a write, none changes
\* its origin, a retired one never becomes active again.
NoLostWrite ==
  [][ /\ Len(mem') >= Len(mem)
      /\ \A i \in DOMAIN mem :
           /\ mem'[i].born = mem[i].born
           /\ mem[i].status # "active" => mem'[i].status # "active"
           /\ mem[i].place = "validated" => mem'[i].place # "gone" ]_memoryVars

\* An operation that was committed and is called again with the same request
\* hears of its commit: neither a newer revision nor a project closed since
\* turns it into a refusal (docstring of _replay_decisions).
CommittedIsConfirmed ==
  [][\A o \in Ops :
      /\ call[o] # NoCall /\ call'[o] = NoCall /\ schema = 3
      /\ receipts[o] # NoReceipt /\ receipts[o].batch = call[o].batch
      => ~refused']_memoryVars

\* The receipt of a committed operation is kept.  MemoryStore.replace refuses
\* a document that would discard receipts; save_output of the validator
\* discards them through transact.
EvidenceKept == \A o \in done : receipts[o] # NoReceipt
=============================================================================

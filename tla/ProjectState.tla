----------------------------- MODULE ProjectState -----------------------------
(***************************************************************************)
(* The canonical state of the projects, .claude/project-state.json         *)
(* (StateStore and StateService of src/brain_eleven/state/store.py), as    *)
(* the state boundary (src/scripts/state_boundary.py) and the runtime      *)
(* write it, next to the two files it must agree with: the project         *)
(* registry, which archives projects, and the canonical memory, which it   *)
(* may refer to.                                                           *)
(*                                                                         *)
(* Three sidecar locks are taken in the order memory, registry, state and  *)
(* held to the end of the mutation.  A mutation reads the document,        *)
(* compares the revision of its project, applies one typed change, logs    *)
(* one event and replaces the file; a process that fails or dies before    *)
(* that leaves the file as it was, and its locks free.                     *)
(***************************************************************************)
EXTENDS Integers, Sequences, FiniteSets

CONSTANTS Projects, Memories, Writers,
          Identities,   \* operation identities of the runtime
          Requests,     \* the mutations a writer may ask for
          MaxEvents,    \* MAX_AUDIT_EVENTS
          MaxRecords,   \* bound on records
          MaxRevision   \* bound on the revision of a project

None == 0
Migrator == -1
Processes == Writers \union {Migrator}

ASSUME NamesAssumption ==
  /\ \A S \in {Projects, Memories, Writers, Identities} : S \subseteq Nat \ {None}
  /\ MaxEvents \in Nat \ {0} /\ MaxRecords \in Nat /\ MaxRevision \in Nat

Kinds == {"milestone", "objective", "requirement", "work_item", "blocker", "constraint", "risk"}
Statuses == {"ACTIVE", "BLOCKED", "COMPLETED", "CANCELLED", "TODO", "DONE", "DROPPED", "RESOLVED"}

\* _MILESTONE_TRANSITIONS and _WORK_ITEM_TRANSITIONS; a requirement and a
\* blocker are closed once.  A milestone is made ACTIVE, never PLANNED.
Moves(kind, status) ==
  CASE kind = "milestone" /\ status = "ACTIVE" -> {"BLOCKED", "COMPLETED", "CANCELLED"}
    [] kind = "milestone" /\ status = "BLOCKED" -> {"ACTIVE", "CANCELLED"}
    [] kind = "work_item" /\ status = "TODO" -> {"ACTIVE", "BLOCKED", "DONE", "DROPPED"}
    [] kind = "work_item" /\ status = "ACTIVE" -> {"BLOCKED", "DONE", "DROPPED"}
    [] kind = "work_item" /\ status = "BLOCKED" -> {"ACTIVE", "DONE", "DROPPED"}
    [] kind = "requirement" /\ status = "ACTIVE" -> {"RESOLVED", "CANCELLED"}
    [] kind = "blocker" /\ status = "ACTIVE" -> {"RESOLVED"}
    [] OTHER -> {}

First(kind) == IF kind = "work_item" THEN "TODO" ELSE "ACTIVE"

Mutations == [op : {"init", "set", "add", "move", "refer"}, kind : Kinds \union {"none"},
              project : Projects, ref : Memories \union {None},
              status : Statuses \union {"none"}, identity : Identities \union {None}]
ASSUME RequestsAssumption ==
  /\ Requests \subseteq Mutations
  /\ \A q \in Requests :
       /\ q.op = "set" => q.kind \in {"milestone", "objective"}
       /\ q.op = "add" => q.kind \in Kinds \ {"milestone", "objective"}
       /\ q.op = "refer" => q.ref # None
       /\ q.ref # None => q.op = "refer" \/ (q.op = "add" /\ q.kind = "blocker")
       /\ q.op = "init" => q.identity = None
       /\ q.op = "move" => q.status # "none"

VARIABLES rev,       \* revision of each project's state, 0 before init_project
          rec,       \* the records, in the order of their creation
          current,   \* milestone and objective of each project
          refs,      \* memories each project refers to
          events,    \* the audit log
          receipts,  \* operation receipts, by identity
          schema,    \* 2 has receipts
          archived,  \* the registry: archived projects
          alive,     \* the canonical memory: memories that are not deleted
          lock,      \* who holds each sidecar lock
          proc,      \* the call each process is in
          effects    \* history: how often each identity changed the file

document == <<rev, rec, current, refs, events, receipts, schema>>
vars == <<document, archived, alive, lock, proc, effects>>

Locks == {"memory", "registry", "state"}
NoRequest == [op |-> "none", kind |-> "none", project |-> None, ref |-> None,
              status |-> "none", identity |-> None]
Idle == [at |-> "idle", request |-> NoRequest, target |-> None, expected |-> 0]
NoReceipt == [project |-> None, request |-> NoRequest, record |-> None, after |-> 0]

Init ==
  /\ rev = [p \in Projects |-> 0] /\ rec = <<>>
  /\ current = [p \in Projects |-> [milestone |-> None, objective |-> None]]
  /\ refs = [p \in Projects |-> {}] /\ events = <<>>
  /\ receipts = [i \in Identities |-> NoReceipt] /\ schema = 1
  /\ archived = {} /\ alive = Memories
  /\ lock = [l \in Locks |-> None]
  /\ proc = [w \in Processes |-> Idle]
  /\ effects = [i \in Identities |-> 0]

-----------------------------------------------------------------------------
(* Calls and locks.                                                        *)

Take(l, w) == lock[l] = None /\ lock' = [lock EXCEPT ![l] = w]
Step(w, at) == proc' = [proc EXCEPT ![w].at = at]

\* The call ends, with or without an effect, and its locks are free.
Ends(w) ==
  /\ proc' = [proc EXCEPT ![w] = Idle]
  /\ lock' = [l \in Locks |-> IF lock[l] = w THEN None ELSE lock[l]]

\* The caller has read the revision it expects; a target is named by its id.
Begin(w, q, target) ==
  /\ proc[w] = Idle
  /\ target # None => rec[target].kind = q.kind /\ q.op = "move"
  /\ q.op = "move" => target # None
  /\ proc' = [proc EXCEPT ![w] = [at |-> "start", request |-> q, target |-> target,
                                  expected |-> rev[q.project]]]
  /\ UNCHANGED <<document, archived, alive, lock, effects>>

\* Bug: the reference is validated, then the memory lock let go.
GuardLetsGo(w) ==
  LET q == proc[w].request IN
  /\ proc[w].at = "start" /\ q.ref # None
  /\ q.ref \in alive /\ lock["memory"] = None
  /\ Step(w, "guarded")
  /\ UNCHANGED <<document, archived, alive, lock, effects>>

\* A reference is validated and then kept valid by the memory lock.
Guard(w) ==
  LET q == proc[w].request IN
  /\ proc[w].at = "start" /\ q.ref # None
  /\ q.ref \in alive
  /\ Take("memory", w) /\ Step(w, "guarded")
  /\ UNCHANGED <<document, archived, alive, effects>>

\* Bug: the status is read without the registry's lock.
EnterUnlocked(w) ==
  LET q == proc[w].request IN
  /\ proc[w].at = "guarded" \/ (proc[w].at = "start" /\ q.ref = None)
  /\ q.project \notin archived
  /\ Step(w, "entered")
  /\ UNCHANGED <<document, archived, alive, lock, effects>>

\* The check of the project's status and the write are one under this lock.
Enter(w) ==
  LET q == proc[w].request IN
  /\ proc[w].at = "guarded" \/ (proc[w].at = "start" /\ q.ref = None)
  /\ q.project \notin archived
  /\ Take("registry", w) /\ Step(w, "entered")
  /\ UNCHANGED <<document, archived, alive, effects>>

\* A dangling reference, an archived project, a refusal below, a lock that was
\* not free in time, or the end of the process.
Fails(w) ==
  /\ proc[w] # Idle
  /\ Ends(w)
  /\ UNCHANGED <<document, archived, alive, effects>>

-----------------------------------------------------------------------------
(* The transaction under the state lock.                                   *)

\* Bug: the receipt is written and never looked up.
NeverKnown(i) == FALSE

Known(i) == i # None /\ schema = 2 /\ receipts[i] # NoReceipt

\* The caller was told so before; the request has not changed.
Replay(w) ==
  LET q == proc[w].request IN
  /\ proc[w].at = "entered" /\ lock["state"] = None
  /\ Known(q.identity) /\ receipts[q.identity].request = q
  /\ Ends(w)
  /\ UNCHANGED <<document, archived, alive, effects>>

Fresh(w) ==
  LET q == proc[w].request IN
  /\ q.identity # None => schema = 2
  /\ ~Known(q.identity)
  /\ rev[q.project] = proc[w].expected
  /\ (q.op = "init") = (rev[q.project] = 0)

Replaceable(p) ==
  LET m == current[p].milestone IN
  m # None => rec[m].status \in {"COMPLETED", "CANCELLED"}

\* Whether the typed change is legal.
Legal(w) ==
  LET q == proc[w].request
      t == proc[w].target IN
  /\ q.op = "set" /\ q.kind = "milestone" => Replaceable(q.project)
  /\ q.op = "move" =>
       /\ rec[t].project = q.project
       /\ q.kind = "milestone" => current[q.project].milestone = t
       /\ q.status \in Moves(q.kind, rec[t].status)
  /\ q.op = "refer" => q.ref \notin refs[q.project]
  /\ q.op \in {"set", "add"} => Len(rec) < MaxRecords

\* Bug: the log is cut at the wrong end.
LoggedFirst(log, e) ==
  LET long == Append(log, e) IN
  IF Len(long) > MaxEvents THEN SubSeq(long, 1, MaxEvents) ELSE long

\* Bug: the log is never cut, and the next reader finds the document invalid.
LoggedAll(log, e) == Append(log, e)

Logged(log, e) ==
  LET long == Append(log, e) IN
  IF Len(long) > MaxEvents THEN SubSeq(long, Len(long) - MaxEvents + 1, Len(long)) ELSE long

\* Bug: the receipt is made of the document as it was read.
ReceiptBefore(q, id, before) ==
  [project |-> q.project, request |-> q, record |-> id, after |-> before]

Receipt(q, id, before) ==
  [project |-> q.project, request |-> q, record |-> id, after |-> before + 1]

Mutate(w) ==
  LET q == proc[w].request
      p == q.project
      new == Len(rec) + 1
      record == [kind |-> q.kind, status |-> First(q.kind), project |-> p, ref |-> q.ref]
      id == CASE q.op \in {"set", "add"} -> new
              [] q.op = "move" -> proc[w].target
              [] OTHER -> q.ref
      after == rev[p] + 1 IN
  /\ proc[w].at = "entered" /\ lock["state"] = None
  /\ Fresh(w) /\ Legal(w) /\ after <= MaxRevision
  /\ rev' = [rev EXCEPT ![p] = after]
  /\ rec' = CASE q.op \in {"set", "add"} -> Append(rec, record)
              [] q.op = "move" -> [rec EXCEPT ![id].status = q.status]
              [] OTHER -> rec
  /\ current' = IF q.op = "set" THEN [current EXCEPT ![p][q.kind] = new] ELSE current
  /\ refs' = IF q.op = "refer" THEN [refs EXCEPT ![p] = @ \union {q.ref}] ELSE refs
  /\ events' = Logged(events, [project |-> p, old |-> rev[p], new |-> after, record |-> id])
  /\ IF q.identity = None THEN UNCHANGED <<receipts, effects>> ELSE
       /\ receipts' = [receipts EXCEPT ![q.identity] = Receipt(q, id, rev[p])]
       /\ effects' = [effects EXCEPT ![q.identity] = @ + 1]
  /\ Ends(w)
  /\ UNCHANGED <<schema, archived, alive>>

-----------------------------------------------------------------------------
(* The other writers of the three files.                                   *)

\* set_status of the registry.
Archive(p) ==
  /\ lock["registry"] = None
  /\ archived' = IF p \in archived THEN archived \ {p} ELSE archived \union {p}
  /\ UNCHANGED <<document, alive, lock, proc, effects>>

\* DELETE /memories/{id}.
Delete(m) ==
  /\ m \in alive /\ lock["memory"] = None
  /\ alive' = alive \ {m}
  /\ UNCHANGED <<document, archived, lock, proc, effects>>

\* Bug: state before memory.
MigrationStartsBackwards ==
  /\ proc[Migrator] = Idle /\ schema = 1
  /\ Take("state", Migrator) /\ Step(Migrator, "started")
  /\ UNCHANGED <<document, archived, alive, effects>>

\* migrate() of src/brain_eleven/runtime/migration.py takes memory before state.
MigrationStarts ==
  /\ proc[Migrator] = Idle /\ schema = 1
  /\ Take("memory", Migrator) /\ Step(Migrator, "started")
  /\ UNCHANGED <<document, archived, alive, effects>>

MigrationLocks ==
  /\ proc[Migrator].at = "started"
  /\ \E l \in {"memory", "state"} : Take(l, Migrator)
  /\ Step(Migrator, "locked")
  /\ UNCHANGED <<document, archived, alive, effects>>

MigrationWrites ==
  /\ proc[Migrator].at = "locked"
  /\ schema' = 2 /\ receipts' = [i \in Identities |-> NoReceipt]
  /\ Ends(Migrator)
  /\ UNCHANGED <<rev, rec, current, refs, events, archived, alive, effects>>

Call(w) ==
  \/ \E q \in Requests, target \in {None} \union DOMAIN rec : Begin(w, q, target)
  \/ Guard(w) \/ Enter(w) \/ Replay(w) \/ Mutate(w)

Next ==
  \/ \E w \in Writers : Call(w)
  \/ \E w \in Processes : Fails(w)
  \/ \E p \in Projects : Archive(p)
  \/ \E m \in Memories : Delete(m)
  \/ MigrationStarts \/ MigrationLocks \/ MigrationWrites

Spec == Init /\ [][Next]_vars

-----------------------------------------------------------------------------
(* Properties.                                                             *)

Records == [kind : Kinds, status : Statuses, project : Projects, ref : Memories \union {None}]
Events == [project : Projects, old : Nat, new : Nat, record : Nat]

\* Every variable keeps its type, the document its invariants: a bounded log,
\* events of projects that have a state.
TypeOK ==
  /\ rev \in [Projects -> 0..MaxRevision]
  /\ rec \in Seq(Records) /\ Len(rec) <= MaxRecords
  /\ current \in [Projects -> [milestone : 0..Len(rec), objective : 0..Len(rec)]]
  /\ refs \in [Projects -> SUBSET Memories]
  /\ events \in Seq(Events) /\ Len(events) <= MaxEvents
  /\ schema \in {1, 2} /\ archived \subseteq Projects /\ alive \subseteq Memories
  /\ lock \in [Locks -> Processes \union {None}]
  /\ effects \in [Identities -> Nat]

\* What a write was checked against still holds when it is committed: no state
\* of an archived project is written (the comment of _mutate), and a memory
\* that state comes to refer to is there, however the archiving, the deletion
\* and the commit interleave.
ChecksHoldAtCommit ==
  [][/\ \A p \in archived : rev'[p] = rev[p]
     /\ \A p \in Projects : refs'[p] \ refs[p] \subseteq alive'
     /\ \A r \in DOMAIN rec' \ DOMAIN rec : rec'[r].ref \in alive' \union {None}]_vars

\* What is left of the log is, for every project in it, an unbroken chain of
\* revisions that ends with the one the state has.
LineageIsUnbroken ==
  \A i \in DOMAIN events :
    LET later == {j \in DOMAIN events : j > i /\ events[j].project = events[i].project} IN
    IF later = {} THEN events[i].new = rev[events[i].project]
    ELSE \E j \in later : events[j].old = events[i].new /\ \A k \in later : j <= k

\* A receipt names the revision its operation made, and no other operation's:
\* the log says the same of that revision as the receipt.
ReceiptsMatchLineage ==
  \A i \in Identities : receipts[i] # NoReceipt =>
    LET r == receipts[i] IN
    /\ r.after <= rev[r.project]
    /\ \A k \in DOMAIN events :
         events[k].project = r.project /\ events[k].new = r.after => events[k].record = r.record
    /\ \A o \in Identities \ {i} : receipts[o] # NoReceipt =>
         receipts[o].project # r.project \/ receipts[o].after # r.after

\* However often the worker or the review desk repeats an operation, it changes
\* the state once.
OncePerIdentity == \A i \in Identities : effects[i] <= 1

\* What every reader relies on: the document is of its type, the log is bounded
\* and a chain, the receipts agree with it, and no operation was made twice.
DocumentIsSound == TypeOK /\ LineageIsUnbroken /\ ReceiptsMatchLineage /\ OncePerIdentity

\* The locks a process asks for next, whichever way it goes.
Wanted(w) ==
  LET at == proc[w].at
      q == proc[w].request IN
  CASE at = "start" /\ q.ref # None -> {"memory"}
    [] at = "guarded" \/ (at = "start" /\ q.ref = None) -> {"registry"}
    [] at = "entered" -> {"state"}
    [] at = "started" -> {"memory", "state"} \ {l \in Locks : lock[l] = w}
    [] OTHER -> {}

\* Three files, three locks: some process that holds a lock can always go on,
\* so mutations, the memory guard and the migration never wait for each other
\* in a circle (migrate, _memory_reference_guard and _mutate nest their locks).
NoCircularWait ==
  (\E l \in Locks : lock[l] # None) =>
    \E w \in Processes :
      /\ \E l \in Locks : lock[l] = w
      /\ \A l \in Wanted(w) : lock[l] = None
=============================================================================

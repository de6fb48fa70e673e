------------------------- MODULE MaintenanceDelivery -------------------------
(***************************************************************************)
(* Maintenance after a session (src/brain_eleven/runtime/                  *)
(* maintenance_delivery.py, maintenance.py): a committed session end       *)
(* becomes an intent; a pass of the service claims the first intent in     *)
(* place with a lease, rebuilds the derived views, stages a report,        *)
(* publishes it and closes the intent.                                     *)
(*                                                                         *)
(* Several passes may be at work (a second service, or one whose lease ran *)
(* out while it was computing).  Every group of writes under the index     *)
(* lock may be cut by a crash.                                             *)
(***************************************************************************)
EXTENDS Integers, FiniteSets

CONSTANTS Intents,      \* committed session ends, by the order of their file names
          Passes,       \* processes that schedule and process intents
          MaxTries,     \* _MAX_ATTEMPTS
          MaxSource,    \* bound on the revision of the canonical stores
          MaxFaults     \* bound on crashes and on leases that run out too early

ASSUME MaintenanceAssumption ==
  /\ Intents \subseteq Nat \ {0}
  /\ MaxTries \in Nat \ {0} /\ MaxSource \in Nat \ {0} /\ MaxFaults \in Nat

VARIABLES source,     \* revision of memory and project state
          intent,     \* intent[d][i]: the document of i in directory d
          leased,     \* intents whose lease in queued/ has not run out
          staged, reports,
          pass,       \* what each pass is doing
          faults      \* crashes and late owners so far

maintenanceVars == <<source, intent, leased, staged, reports, pass, faults>>
work == <<intent, leased, staged, reports>>

\* A claim is written in place, so processing/ stays empty.
IntentDirectories == {"queued", "completed", "failed"}
NoIntent == [status |-> "ABSENT", try |-> 0, source |-> 0]
NoReport == [graph |-> 0, source |-> 0, good |-> FALSE]
Resting == [at |-> "idle", i |-> 0, doc |-> NoIntent, made |-> NoReport]

\* Some of the intents may have been completed before, and some of the
\* faults spent.
MaintenanceInit ==
  \E past \in SUBSET Intents :
    LET done == [status |-> "COMPLETED", try |-> 1, source |-> 1] IN
    /\ source = 1
    /\ intent = [d \in IntentDirectories |-> [i \in Intents |->
                   IF d = "completed" /\ i \in past THEN done ELSE NoIntent]]
    /\ leased = {}
    /\ staged = [i \in Intents |-> NoReport]
    /\ reports = [i \in Intents |-> IF i \in past THEN [graph |-> 1, source |-> 1, good |-> TRUE] ELSE NoReport]
    /\ pass = [w \in Passes |-> Resting]
    /\ faults \in 0 .. MaxFaults

Lies(d, i) == intent[d][i] # NoIntent
Known(i) == \E d \in IntentDirectories : Lies(d, i)
Settled(i) == ~Lies("queued", i) /\ Known(i)

\* The group of writes under the index lock.
IndexLocked == \E w \in Passes : pass[w].at \in {"publish", "complete", "unclaim", "unclaim_failed"}
Goes(w, at) == pass' = [pass EXCEPT ![w].at = at]
Rests(w) == pass' = [pass EXCEPT ![w] = Resting]

-----------------------------------------------------------------------------
(* Scheduling.                                                             *)

CanonicalWrite ==
  /\ source < MaxSource /\ source' = source + 1
  /\ UNCHANGED <<work, pass, faults>>

\* enqueue of the worker, or of reconcile_completed for a commit whose
\* enqueue was lost: the source revisions are read before the lock.
ReadsSource(w, i) ==
  /\ pass[w].at = "idle" /\ ~Known(i)
  /\ pass' = [pass EXCEPT ![w] = [Resting EXCEPT !.at = "enqueue", !.i = i,
                                    !.doc = [status |-> "QUEUED", try |-> 0, source |-> source]]]
  /\ UNCHANGED <<source, work, faults>>

\* Bug: the index is not searched again under its lock.
SchedulesUnchecked(w) ==
  /\ pass[w].at = "enqueue" /\ ~IndexLocked
  /\ intent' = [intent EXCEPT !["queued"][pass[w].i] = pass[w].doc]
  /\ Rests(w)
  /\ UNCHANGED <<source, leased, staged, reports, faults>>

Schedules(w) ==
  LET i == pass[w].i IN
  /\ pass[w].at = "enqueue" /\ ~IndexLocked
  /\ intent' = IF Known(i) THEN intent ELSE [intent EXCEPT !["queued"][i] = pass[w].doc]
  /\ Rests(w)
  /\ UNCHANGED <<source, leased, staged, reports, faults>>

-----------------------------------------------------------------------------
(* process_pending, with its limit of one candidate.                       *)

\* Sorted by name, the first file of the queue is the only candidate.
FirstInQueue(i) == Lies("queued", i) /\ \A j \in Intents : Lies("queued", j) => i <= j

ClaimsWhen(w, i, free) ==
  LET doc == [intent["queued"][i] EXCEPT !.status = "PROCESSING", !.try = @ + 1] IN
  /\ pass[w].at = "idle" /\ FirstInQueue(i) /\ free /\ ~IndexLocked
  /\ intent' = [intent EXCEPT !["queued"][i] = doc]
  /\ leased' = leased \union {i}
  /\ pass' = [pass EXCEPT ![w] = [Resting EXCEPT !.at = "claimed", !.i = i, !.doc = doc]]
  /\ UNCHANGED <<source, staged, reports, faults>>

\* Bug: a claim whose owner died is not taken over.
ClaimsQueuedOnly(w, i) == ClaimsWhen(w, i, intent["queued"][i].status = "QUEUED")

\* The lease names its owner; the number of the try tells owners apart.
Claims(w, i) == ClaimsWhen(w, i, intent["queued"][i].status = "PROCESSING" => i \notin leased)

\* Bug: the owner of the lease is not compared.
OwnsAnyLease(w) ==
  LET i == pass[w].i IN intent["queued"][i].status = "PROCESSING" /\ i \in leased

\* _owned_path: the document of the queue still carries this owner's lease.
Owns(w) ==
  LET i == pass[w].i IN
  /\ intent["queued"][i].status = "PROCESSING"
  /\ intent["queued"][i].try = pass[w].doc.try
  /\ i \in leased

\* A lease is 300 seconds of the clock.  That it runs out under an owner still
\* at work is a fault.
LeaseRunsOut(i) ==
  LET late == \E w \in Passes : pass[w].i = i /\ pass[w].at # "enqueue" /\ Owns(w) IN
  /\ i \in leased /\ leased' = leased \ {i}
  /\ late => faults < MaxFaults
  /\ faults' = IF late THEN faults + 1 ELSE faults
  /\ UNCHANGED <<source, intent, staged, reports, pass>>

ValidFor(report, doc) == report # NoReport /\ report.source = doc.source /\ report.graph = report.source

\* Bug: a staged report is taken for a published one.
ResumesUnpublished(w) ==
  LET i == pass[w].i IN
  /\ pass[w].at = "claimed"
  /\ ValidFor(reports[i], pass[w].doc) \/ ValidFor(staged[i], pass[w].doc)
  /\ Goes(w, "finish")
  /\ UNCHANGED <<source, work, faults>>

\* A report that was published or staged before a crash is not made again.
Resumes(w) ==
  LET i == pass[w].i IN
  /\ pass[w].at = "claimed"
  /\ \/ ValidFor(reports[i], pass[w].doc) /\ Goes(w, "finish")
     \/ /\ ~ValidFor(reports[i], pass[w].doc) /\ ValidFor(staged[i], pass[w].doc)
        /\ pass' = [pass EXCEPT ![w].at = "finish", ![w].made = staged[i]]
  /\ UNCHANGED <<source, work, faults>>

\* run_maintenance: the graph is rebuilt from the memory of this moment; a
\* failing step of the other two makes a degraded report.
Runs(w, good) ==
  LET i == pass[w].i IN
  /\ pass[w].at = "claimed"
  /\ ~ValidFor(reports[i], pass[w].doc) /\ ~ValidFor(staged[i], pass[w].doc)
  /\ pass' = [pass EXCEPT ![w].at = "ran", ![w].made = [NoReport EXCEPT !.graph = source, !.good = good]]
  /\ UNCHANGED <<source, work, faults>>

\* Bug: the report carries the revision the intent was made for.
AcceptsUnchecked(w) ==
  /\ pass[w].at = "ran"
  /\ pass' = [pass EXCEPT ![w].at = "stage", ![w].made.source = pass[w].doc.source]
  /\ UNCHANGED <<source, work, faults>>

\* MAINTENANCE_SOURCE_CHANGED and MAINTENANCE_GRAPH_STALE.
Accepts(w) ==
  /\ pass[w].at = "ran"
  /\ pass' = IF source = pass[w].doc.source /\ pass[w].made.graph = source
             THEN [pass EXCEPT ![w].at = "stage", ![w].made.source = source]
             ELSE [pass EXCEPT ![w].at = "failing"]
  /\ UNCHANGED <<source, work, faults>>

\* _owned_write; without the lease nothing is written.
Stages(w) ==
  LET i == pass[w].i IN
  /\ pass[w].at = "stage" /\ ~IndexLocked
  /\ IF Owns(w) THEN staged' = [staged EXCEPT ![i] = pass[w].made] /\ Goes(w, "finish")
                ELSE Rests(w) /\ UNCHANGED staged
  /\ UNCHANGED <<source, intent, leased, reports, faults>>

\* _owned_finalize, then its writes in order.
Finishes(w) ==
  /\ pass[w].at = "finish" /\ ~IndexLocked
  /\ IF Owns(w) THEN Goes(w, IF pass[w].made = NoReport THEN "complete" ELSE "publish")
                ELSE Rests(w)
  /\ UNCHANGED <<source, work, faults>>

Publishes(w) ==
  /\ pass[w].at = "publish"
  /\ reports' = [reports EXCEPT ![pass[w].i] = pass[w].made]
  /\ Goes(w, "complete")
  /\ UNCHANGED <<source, intent, leased, staged, faults>>

Completes(w) ==
  LET i == pass[w].i IN
  /\ pass[w].at = "complete"
  /\ intent' = [intent EXCEPT !["completed"][i] = [pass[w].doc EXCEPT !.status = "COMPLETED"]]
  /\ Goes(w, "unclaim")
  /\ UNCHANGED <<source, leased, staged, reports, faults>>

\* Between the two unlinks a crash leaves what it leaves before them: the
\* published report goes before the staged one.
Unclaims(w) ==
  /\ pass[w].at \in {"unclaim", "unclaim_failed"}
  /\ staged' = IF pass[w].made = NoReport \/ pass[w].at = "unclaim_failed" THEN staged
               ELSE [staged EXCEPT ![pass[w].i] = NoReport]
  /\ intent' = [intent EXCEPT !["queued"][pass[w].i] = NoIntent]
  /\ leased' = leased \ {pass[w].i}
  /\ Rests(w)
  /\ UNCHANGED <<source, reports, faults>>

\* An exception of the derived work.
Raises(w) ==
  /\ pass[w].at = "ran" /\ Goes(w, "failing")
  /\ UNCHANGED <<source, work, faults>>

\* _owned_failure: back to the queue, or to failed/ after the last try.
Fails(w) ==
  LET i == pass[w].i IN
  /\ pass[w].at = "failing" /\ ~IndexLocked
  /\ \/ ~Owns(w) /\ Rests(w) /\ UNCHANGED <<intent, leased>>
     \/ /\ Owns(w) /\ pass[w].doc.try < MaxTries
        /\ intent' = [intent EXCEPT !["queued"][i].status = "QUEUED"]
        /\ Rests(w) /\ UNCHANGED leased
     \/ /\ Owns(w) /\ pass[w].doc.try >= MaxTries
        /\ intent' = [intent EXCEPT !["failed"][i] = [pass[w].doc EXCEPT !.status = "FAILED"]]
        /\ Goes(w, "unclaim_failed") /\ UNCHANGED leased
  /\ UNCHANGED <<source, staged, reports, faults>>

\* The index lock is waited for half a second.  Inside the try block a
\* timeout is one more failure; elsewhere it ends the pass.
TimesOut(w) ==
  /\ IndexLocked
  /\ \/ pass[w].at \in {"stage", "finish"} /\ Goes(w, "failing")
     \/ pass[w].at \in {"enqueue", "failing"} /\ Rests(w)
  /\ UNCHANGED <<source, work, faults>>

Dies(w) ==
  /\ pass[w].at # "idle" /\ faults < MaxFaults
  /\ faults' = faults + 1 /\ Rests(w)
  /\ UNCHANGED <<source, work>>

-----------------------------------------------------------------------------
PassStep(w) ==
  \/ Schedules(w) \/ Resumes(w) \/ (\E good \in BOOLEAN : Runs(w, good)) \/ Accepts(w)
  \/ Stages(w) \/ Finishes(w) \/ Publishes(w) \/ Completes(w) \/ Unclaims(w)
  \/ Fails(w) \/ (\E i \in Intents : ReadsSource(w, i) \/ Claims(w, i))

MaintenanceNext ==
  \/ CanonicalWrite
  \/ \E i \in Intents : LeaseRunsOut(i)
  \/ \E w \in Passes : PassStep(w) \/ Raises(w) \/ TimesOut(w) \/ Dies(w)

\* worker_loop calls the pass again and again, and a lease is 300 seconds of
\* the clock.
MaintenanceFairness ==
  /\ \A w \in Passes : WF_maintenanceVars(PassStep(w))
  /\ \A i \in Intents : WF_maintenanceVars(LeaseRunsOut(i))

MaintenanceSpec == MaintenanceInit /\ [][MaintenanceNext]_maintenanceVars /\ MaintenanceFairness

-----------------------------------------------------------------------------
(* Properties                                                              *)

\* What lies in reports/ is of one moment: the graph and the other views
\* were built from the revision the report and its intent name.
ReportIsOfOneSource ==
  \A i \in Intents : reports[i] # NoReport =>
    reports[i].graph = reports[i].source

\* An intent is closed as completed only when its report is published, in
\* whatever step an earlier owner died.
CompletedHasReport ==
  \A i \in Intents : Lies("completed", i) =>
    ValidFor(reports[i], intent["completed"][i])

\* The two together: reports/ and completed/ tell the truth.
ReportsAreSound == ReportIsOfOneSource /\ CompletedHasReport

\* A published report is never replaced, neither by an owner whose lease ran
\* out nor by the next one, and no intent that left the queue comes back.
ReportIsFinal ==
  [][\A i \in Intents :
       /\ reports[i] # NoReport => reports'[i] = reports[i]
       /\ Settled(i) => Settled(i)']_maintenanceVars

\* Every committed session end is settled, though owners die, leases run
\* out and the first intent in the queue is the only one a pass looks at.
SessionEndIsSettled == \A i \in Intents : <>Settled(i)
=============================================================================

---------------------------- MODULE CaptureQueue ----------------------------
(***************************************************************************)
(* scripts/capture_queue.py: the durable spool between the hooks and the   *)
(* worker.  A job is one JSON document in one of four directories.  Every  *)
(* operation runs under one file lock and is a fixed order of durable      *)
(* effects: rewrite the document where it lies, rename it into the         *)
(* directory of its new status, append a ledger line.  The process (or the *)
(* file system) may fail before each of them; the lock then goes free and  *)
(* the disk stays as it is.                                                *)
(*                                                                         *)
(* Hooks call enqueue, the operator calls requeue_dead_letters, and the    *)
(* only caller of everything else is Worker.once                           *)
(* (brain_eleven/runtime/worker.py), which a file lock makes a single      *)
(* process; owner and phase are that caller's local state.                 *)
(***************************************************************************)
EXTENDS Integers, FiniteSets

CONSTANTS
  Jobs,          \* job ids, numbered in file-name order
  MaxAttempts,   \* CaptureQueueConfig.max_attempts
  MaxQueued,     \* CaptureQueueConfig.max_queued_jobs
  MaxStamp,      \* created_at values that can be told apart
  ErrorCodes,    \* codes the worker reports to retry_or_dead_letter
  Legacy,        \* jobs an older release may have left in completed/ before relabelling
  MaxFaults,     \* crashes and I/O errors in a behaviour (bound)
  MaxRequeues    \* requeue_dead_letters calls in a behaviour (bound)

LeaseExpired == "CAPTURE_LEASE_EXPIRED"

ASSUME QueueAssumption ==
  /\ Jobs \subseteq Nat \ {0}
  /\ Legacy \subseteq Jobs
  /\ MaxAttempts \in Nat \ {0}
  /\ MaxQueued \in Nat \ {0}
  /\ MaxStamp \in Nat \ {0}
  /\ MaxFaults \in Nat
  /\ MaxRequeues \in Nat
  /\ LeaseExpired \notin ErrorCodes /\ "NONE" \notin ErrorCodes

VARIABLES
  (* durable *)
  disk,       \* [Dirs -> [Jobs -> Doc]]: the job documents
  stale,      \* claims whose claimed_at is lease_seconds old or more
  acks,       \* [Jobs -> Nat]: COMMITTED lines of the ledger
  (* the holder of the queue lock *)
  lock,       \* the operation that holds it, or "free"
  todo,       \* documents a looping operation has still to visit
  stage,      \* next durable effect of the operation
  effect,     \* the document being written, whence, and whether acknowledged
  (* the worker *)
  owner,      \* the claimed job Worker.once is running
  phase,      \* how far it is with it
  (* history and bounds *)
  accepted,   \* jobs for which enqueue returned a receipt
  deliveries, \* claims of the job since it was enqueued or requeued
  faults,
  requeues

vars == <<disk, stale, acks, lock, todo, stage, effect, owner, phase,
          accepted, deliveries, faults, requeues>>
lockVars == <<lock, todo, stage, effect>>
history == <<accepted, deliveries, faults, requeues>>

Dirs == {"queued", "processing", "completed", "dead-letter"}
JobStatuses == {"QUEUED", "CLAIMED", "PROCESSING", "COMMITTED", "DEAD_LETTER"}
Owned == {"CLAIMED", "PROCESSING"}
Codes == ErrorCodes \cup {LeaseExpired, "NONE"}
WorkerOps == {"claim", "start", "commit", "retry", "recover"}
Stages == {"idle", "write", "move", "log"}
NoJob == 0

QueueDirectories ==
  [s \in JobStatuses |-> CASE s = "QUEUED"      -> "queued"
                           [] s \in Owned       -> "processing"
                           [] s = "COMMITTED"   -> "completed"
                           [] s = "DEAD_LETTER" -> "dead-letter"]

Doc == [status : JobStatuses \cup {"ABSENT"}, attempt : Nat,
        created : Nat, code : Codes]
NoDoc == [status |-> "ABSENT", attempt |-> 0, created |-> 0, code |-> "NONE"]
NewDoc(t) == [NoDoc EXCEPT !.status = "QUEUED", !.created = t]
LegacyDoc == [NoDoc EXCEPT !.status = "PROCESSING", !.attempt = 1]

Effect == [job : Jobs \cup {NoJob}, from : Dirs, doc : Doc, ack : BOOLEAN]
NoEffect == [job |-> NoJob, from |-> "queued", doc |-> NoDoc, ack |-> FALSE]

In(d, j) == disk[d][j].status # "ABSENT"
\* Bug: the lookup misses one directory.
ForgetsDeadLetters(j) == \E d \in Dirs \ {"dead-letter"} : In(d, j)
Exists(j) == \E d \in Dirs : In(d, j)
Queue == {j \in Jobs : In("queued", j)}

Init ==
  /\ \E old \in SUBSET Legacy :
       disk = [d \in Dirs |-> [j \in Jobs |->
                 IF d = "completed" /\ j \in old THEN LegacyDoc ELSE NoDoc]]
  /\ stale = {}
  /\ acks = [j \in Jobs |-> 0]
  /\ lock = "free" /\ todo = {} /\ stage = "idle" /\ effect = NoEffect
  /\ owner = NoJob /\ phase = "none"
  /\ accepted = {}
  /\ deliveries = [j \in Jobs |-> 0]
  /\ faults = 0 /\ requeues = 0

(* A definition that a comment calls a bug is not part of the model: it is the
   faulty form of the definition after it, for the check that a property
   notices. *)
-----------------------------------------------------------------------------
(* Operations: each takes the lock, reads the disk and fixes its effects.  *)

Plan(first, j, from, doc, ack) ==
  /\ stage' = first
  /\ effect' = [job |-> j, from |-> from, doc |-> doc, ack |-> ack]

Begin(op, first, j, from, doc) ==
  /\ lock = "free"
  /\ lock' = op
  /\ Plan(first, j, from, doc, doc.status = "COMMITTED")
  /\ UNCHANGED <<todo, disk, stale, acks, owner, phase, history>>

\* A new event.  created_at is read before the lock is taken, so it need not
\* follow the order in which the jobs enter the queue.
Enqueue(j, t) ==
  /\ ~Exists(j)
  /\ Cardinality(Queue) < MaxQueued
  /\ Begin("enqueue", "write", j, "queued", NewDoc(t))

\* Bug: the ledger is not consulted.
NeverAcked(j) == FALSE

\* _committed_ledger_ids: the ledger has the COMMITTED line of the job.
Acked(j) == acks[j] > 0

\* _reconcile_terminal: what is missing to close a job whose commit (or whose
\* older release) stopped half way, first the label, then the place, then the
\* acknowledgement.
Unclosed(d, j) ==
  \/ d = "processing" /\ disk[d][j].status = "COMMITTED"
  \/ d = "completed" /\ In(d, j)
     /\ (disk[d][j].status # "COMMITTED" \/ ~Acked(j))

\* Bug: a half-closed job is delivered again.
ReconcileReplays(d, j) ==
  Plan("write", j, d, [disk[d][j] EXCEPT !.status = "QUEUED"], FALSE)

ReconcileTerminal(d, j) ==
  LET doc == [disk[d][j] EXCEPT !.status = "COMMITTED"]
  IN  Plan(IF disk[d][j].status # "COMMITTED" THEN "write"
             ELSE IF d = "processing" THEN "move" ELSE "log",
           j, d, doc, ~Acked(j))

\* The event is known: enqueue first repairs a half-closed job, ...
EnqueueReconcile(d, j) ==
  /\ lock = "free"
  /\ Unclosed(d, j)
  /\ lock' = "enqueue"
  /\ ReconcileTerminal(d, j)
  /\ UNCHANGED <<todo, disk, stale, acks, owner, phase, history>>

\* ... then answers DUPLICATE and leaves the job alone.
EnqueueDuplicate(d, j) ==
  /\ lock = "free"
  /\ In(d, j)
  /\ ~Unclosed(d, j)
  /\ accepted' = accepted \cup {j}
  /\ UNCHANGED <<disk, stale, acks, lockVars, owner, phase, deliveries,
                 faults, requeues>>

Before(i, j) ==
  LET c(k) == disk["queued"][k].created
  IN  c(i) < c(j) \/ (c(i) = c(j) /\ i < j)

\* The oldest file of queued/, whatever claim its document still carries.
ClaimNext(j) ==
  /\ owner = NoJob
  /\ j \in Queue
  /\ \A i \in Queue \ {j} : Before(j, i)
  /\ disk["queued"][j].status \in Owned \cup {"QUEUED"}
  /\ Begin("claim", "write", j, "queued",
           [disk["queued"][j] EXCEPT !.status = "CLAIMED", !.attempt = @ + 1])

StartProcessing(j) ==
  /\ owner = j /\ phase = "claimed"
  /\ disk["processing"][j].status = "CLAIMED"
  /\ Begin("start", "write", j, "processing",
           [disk["processing"][j] EXCEPT !.status = "PROCESSING"])

Commit(j) ==
  /\ owner = j /\ phase = "processing"
  /\ disk["processing"][j].status \in Owned
  /\ Begin("commit", "write", j, "processing",
           [disk["processing"][j] EXCEPT !.status = "COMMITTED"])

\* Bug: off by one.
FailedOnceMore(doc, code, terminal) ==
  [doc EXCEPT !.code = code,
              !.status = IF terminal \/ doc.attempt > MaxAttempts
                         THEN "DEAD_LETTER" ELSE "QUEUED"]

\* The document of a delivery that failed with this code.
Failed(doc, code, terminal) ==
  [doc EXCEPT !.code = code,
              !.status = IF terminal \/ doc.attempt >= MaxAttempts
                         THEN "DEAD_LETTER" ELSE "QUEUED"]

RetryOrDeadLetter(j, code, terminal) ==
  /\ owner = j /\ phase # "none"
  /\ disk["processing"][j].status \in Owned
  /\ Begin("retry", "write", j, "processing",
           Failed(disk["processing"][j], code, terminal))

\* The worker's error path after a commit that did reach the disk: the queue
\* refuses the retry, and Worker.once gives the job up.
RetryRefused(j) ==
  /\ lock = "free"
  /\ owner = j /\ phase = "failed"
  /\ disk["processing"][j].status \notin Owned
  /\ owner' = NoJob /\ phase' = "none"
  /\ UNCHANGED <<disk, stale, acks, lockVars, history>>

\* The heartbeat thread of the owner; one atomic rewrite of claimed_at.
Renew(j) ==
  /\ lock = "free"
  /\ owner = j
  /\ disk["processing"][j].status \in Owned
  /\ stale' = stale \ {j}
  /\ UNCHANGED <<disk, acks, lockVars, owner, phase, history>>

\* lease_seconds pass without a renewal.
LeaseLapses(j) ==
  /\ disk["processing"][j].status \in Owned
  /\ j \notin stale
  /\ stale' = stale \cup {j}
  /\ UNCHANGED <<disk, acks, lockVars, owner, phase, history>>
-----------------------------------------------------------------------------
(* The two operations that visit every document under one lock.            *)

Sweep(op, jobs) ==
  /\ lock = "free"
  /\ jobs # {}
  /\ lock' = op
  /\ todo' = jobs
  /\ UNCHANGED <<disk, stale, acks, stage, effect, owner, phase, accepted,
                 deliveries, faults>>

Visit(op, j) ==
  /\ lock = op /\ stage = "idle"
  /\ j \in todo
  /\ todo' = todo \ {j}
  /\ UNCHANGED <<disk, stale, acks, lock, owner, phase, history>>

NeedsRecovery(j) ==
  \/ \E d \in Dirs : Unclosed(d, j)
  \/ disk["processing"][j].status \in {"QUEUED", "DEAD_LETTER"}
  \/ disk["processing"][j].status \in Owned /\ j \in stale

\* Bug: recovery outside the worker lock.
RecoverAnyTime ==
  /\ Sweep("recover", {j \in Jobs : NeedsRecovery(j)})
  /\ UNCHANGED requeues

\* recover_expired_claims opens every pass of Worker.once, so no job is owned.
RecoverExpiredClaims ==
  /\ owner = NoJob
  /\ Sweep("recover", {j \in Jobs : NeedsRecovery(j)})
  /\ UNCHANGED requeues

RecoverUnclosed(d, j) ==
  /\ Unclosed(d, j)
  /\ ReconcileTerminal(d, j)
  /\ Visit("recover", j)

\* Bug: it is logged and left where it lies.
MisplacedLoggedOnly(j) ==
  /\ disk["processing"][j].status \in {"QUEUED", "DEAD_LETTER"}
  /\ Plan("log", j, "processing", disk["processing"][j], FALSE)
  /\ Visit("recover", j)

\* A retry that wrote its document but never renamed it.
RecoverMisplaced(j) ==
  /\ disk["processing"][j].status \in {"QUEUED", "DEAD_LETTER"}
  /\ Plan("move", j, "processing", disk["processing"][j], FALSE)
  /\ Visit("recover", j)

RecoverExpired(j) ==
  /\ disk["processing"][j].status \in Owned
  /\ Plan("write", j, "processing",
          Failed(disk["processing"][j], LeaseExpired, FALSE), FALSE)
  /\ Visit("recover", j)

RequeueDeadLetters(codes) ==
  /\ requeues < MaxRequeues
  /\ requeues' = requeues + 1
  /\ Sweep("requeue", {j \in Jobs :
                         /\ disk["dead-letter"][j].status = "DEAD_LETTER"
                         /\ disk["dead-letter"][j].code \in codes})

\* Bug: the attempt counter is not restarted.
RequeueKeepsAttempt(j) ==
  /\ Plan("write", j, "dead-letter",
          [disk["dead-letter"][j] EXCEPT !.status = "QUEUED"], FALSE)
  /\ Visit("requeue", j)

RequeueJob(j) ==
  /\ Plan("write", j, "dead-letter",
          [disk["dead-letter"][j] EXCEPT !.status = "QUEUED", !.attempt = 0],
          FALSE)
  /\ Visit("requeue", j)
-----------------------------------------------------------------------------
(* Durable effects of the operation that holds the lock.                   *)

\* Bug: a buried job is renamed like a retried one.
TargetOfRetry ==
  IF lock = "retry" THEN "queued" ELSE QueueDirectories[effect.doc.status]

Target == QueueDirectories[effect.doc.status]

\* _atomic_write_json: the new document replaces the old one where it lies.
\* start_processing keeps claimed_at, every other write ends or renews it.
Write ==
  /\ stage = "write"
  /\ disk' = [disk EXCEPT ![effect.from][effect.job] = effect.doc]
  /\ stale' = IF lock = "start" THEN stale ELSE stale \ {effect.job}
  /\ deliveries' = IF lock = "requeue"
                   THEN [deliveries EXCEPT ![effect.job] = 0] ELSE deliveries
  /\ stage' = IF effect.from = Target THEN "log" ELSE "move"
  /\ UNCHANGED <<acks, lock, todo, effect, owner, phase, accepted, faults,
                 requeues>>

\* _move: rename, refused when the destination exists.
Move ==
  /\ stage = "move"
  /\ disk[Target][effect.job] = NoDoc
  /\ disk' = [disk EXCEPT ![effect.from][effect.job] = NoDoc,
                          ![Target][effect.job] = effect.doc]
  /\ deliveries' = IF lock = "claim"
                   THEN [deliveries EXCEPT ![effect.job] = @ + 1]
                   ELSE deliveries
  /\ stage' = "log"
  /\ UNCHANGED <<stale, acks, lock, todo, effect, owner, phase, accepted,
                 faults, requeues>>

\* _ledger, and the return of the operation: the lock goes free unless a loop
\* has documents left.
Log ==
  /\ stage = "log"
  /\ acks' = IF effect.ack THEN [acks EXCEPT ![effect.job] = @ + 1] ELSE acks
  /\ stage' = "idle" /\ effect' = NoEffect
  /\ lock' = IF todo = {} THEN "free" ELSE lock
  /\ owner' = CASE lock = "claim" -> effect.job
                [] lock \in {"commit", "retry"} -> NoJob
                [] OTHER -> owner
  /\ phase' = CASE lock = "claim" -> "claimed"
                [] lock = "start" -> "processing"
                [] lock \in {"commit", "retry"} -> "none"
                [] OTHER -> phase
  /\ accepted' = IF lock = "enqueue" THEN accepted \cup {effect.job}
                 ELSE accepted
  /\ UNCHANGED <<disk, stale, todo, deliveries, faults, requeues>>
-----------------------------------------------------------------------------
(* Failures.                                                               *)

\* Bug: the plan of the dead holder survives it.
ReleaseLockOnly ==
  /\ lock' = "free" /\ todo' = {} /\ effect' = NoEffect /\ UNCHANGED stage

Release ==
  /\ lock' = "free" /\ todo' = {} /\ stage' = "idle" /\ effect' = NoEffect

Fault ==
  /\ faults < MaxFaults
  /\ faults' = faults + 1
  /\ UNCHANGED <<disk, stale, acks, accepted, deliveries, requeues>>

\* The process that holds the lock dies between two effects.
HolderCrashes ==
  /\ lock # "free"
  /\ Release
  /\ IF lock \in WorkerOps THEN owner' = NoJob /\ phase' = "none"
                           ELSE UNCHANGED <<owner, phase>>
  /\ Fault

\* The worker dies between two operations.
WorkerCrashes ==
  /\ owner # NoJob
  /\ lock \notin WorkerOps
  /\ owner' = NoJob /\ phase' = "none"
  /\ UNCHANGED lockVars
  /\ Fault

\* An effect of start_processing or commit raises and the worker lives: its
\* error path will retry.  (For the other operations an error is a crash: the
\* caller keeps nothing.)
OperationFails ==
  /\ lock \in {"start", "commit"}
  /\ Release
  /\ phase' = "failed"
  /\ UNCHANGED owner
  /\ Fault
-----------------------------------------------------------------------------
Hooks(j) ==
  \/ \E t \in 1 .. MaxStamp : Enqueue(j, t)
  \/ \E d \in Dirs : EnqueueReconcile(d, j) \/ EnqueueDuplicate(d, j)

Fails(j) ==
  \E code \in ErrorCodes, terminal \in BOOLEAN :
    RetryOrDeadLetter(j, code, terminal)

RecoverJob(j) ==
  \/ \E d \in Dirs : RecoverUnclosed(d, j)
  \/ RecoverMisplaced(j)
  \/ RecoverExpired(j)

Effects == Write \/ Move \/ Log

Operator ==
  \/ \E codes \in SUBSET (Codes \ {"NONE"}) : RequeueDeadLetters(codes)
  \/ \E j \in Jobs : RequeueJob(j)

Worker(j) ==
  \/ ClaimNext(j)
  \/ StartProcessing(j)
  \/ Commit(j)
  \/ Fails(j)
  \/ RetryRefused(j)
  \/ Renew(j)
  \/ RecoverJob(j)

Failures == HolderCrashes \/ WorkerCrashes \/ OperationFails

Next ==
  \/ \E j \in Jobs : Hooks(j) \/ Worker(j) \/ LeaseLapses(j)
  \/ RecoverExpiredClaims
  \/ Operator
  \/ Effects
  \/ Failures

Spec == Init /\ [][Next]_vars

(* The lock holder runs on, the worker service keeps calling Worker.once and
   a claim once started is finished one way or the other, clocks advance, and
   a looping operation visits its documents.  Hooks and the operator owe
   nothing.  Faults are finite (MaxFaults). *)
Fairness ==
  /\ WF_vars(Effects)
  /\ WF_vars(RecoverExpiredClaims)
  /\ \A j \in Jobs :
       /\ WF_vars(RecoverJob(j))
       /\ WF_vars(RequeueJob(j))
       /\ WF_vars(ClaimNext(j))
       /\ WF_vars(StartProcessing(j) \/ Fails(j))
       /\ WF_vars(Commit(j) \/ Fails(j))
       /\ WF_vars(RetryRefused(j))
       /\ WF_vars(LeaseLapses(j))

FairSpec == Spec /\ Fairness
-----------------------------------------------------------------------------
(* Properties.                                                             *)

\* Every variable has its type; NoDoc stands for a missing file.
TypeOK ==
  /\ disk \in [Dirs -> [Jobs -> Doc]]
  /\ stale \subseteq Jobs
  /\ acks \in [Jobs -> Nat]
  /\ lock \in WorkerOps \cup {"free", "enqueue", "requeue"}
  /\ todo \subseteq Jobs
  /\ stage \in Stages
  /\ effect \in Effect /\ (stage # "idle" => effect.job \in Jobs)
  /\ owner \in Jobs \cup {NoJob}
  /\ phase \in {"none", "claimed", "processing", "failed"}
  /\ accepted \subseteq Jobs
  /\ deliveries \in [Jobs -> Nat]
  /\ faults \in Nat
  /\ requeues \in Nat

\* A job is never in two directories at once, whatever crashed: enqueue looks
\* in all four before it writes and every other operation renames.  (Two
\* copies would be two deliveries of one event, and _move would refuse both.)
OneFile ==
  \A j \in Jobs : \A c, d \in Dirs : In(c, j) /\ In(d, j) => c = d

\* No crash leaves a document on which claim_next or recover_expired_claims
\* raises CAPTURE_QUEUE_CORRUPT: both read every file of their directory, so
\* one such file would stop the delivery of all jobs, not of its own only.
NoPoisonedFile ==
  \A j \in Jobs :
    /\ disk["queued"][j].status \notin {"COMMITTED", "DEAD_LETTER"}
    /\ disk["completed"][j].status \notin {"QUEUED", "DEAD_LETTER"}
    /\ disk["dead-letter"][j].status \notin Owned \cup {"COMMITTED"}

\* Both: wherever a crash fell, the directories are read and nothing is
\* delivered from two of them.
FilesAreSound == OneFile /\ NoPoisonedFile

\* The ledger acknowledges a commit at most once, through any number of crashed
\* commits, recoveries and repeated hook events, and only for a job whose
\* document is COMMITTED in completed/.
AcknowledgedOnce ==
  \A j \in Jobs :
    /\ acks[j] <= 1
    /\ acks[j] = 1 => disk["completed"][j].status = "COMMITTED"

\* max_attempts bounds the deliveries of a job, although a crash between the
\* rewrite and the rename of claim_next lets attempt itself run past it.
BoundedDelivery == \A j \in Jobs : deliveries[j] <= MaxAttempts

\* While Worker.once runs a job nobody takes it away: no hook, no operator and
\* no expired lease moves the file, which only the worker's own commit or retry
\* does.  So the effects of one job never run in two workers.
OwnerKeepsJob ==
  owner # NoJob /\ phase # "failed" /\ lock \notin {"commit", "retry"}
    => disk["processing"][owner].status \in Owned

(* Why the invariants above are inductive: what the lock holder has planned
   agrees with the disk at every stage. *)
LockInv ==
  /\ lock = "free" => stage = "idle" /\ todo = {}
  /\ stage = "idle" => effect = NoEffect
                         /\ lock \in {"free", "recover", "requeue"}
  /\ effect.job \notin todo
  /\ todo # {} => lock \in {"recover", "requeue"}
  /\ owner = NoJob <=> phase = "none"
  /\ lock \in {"claim", "recover"} => owner = NoJob
  /\ lock \in {"start", "commit", "retry"} => owner = effect.job

\* The plan of an operation that has written nothing yet.
WritePlan(j, old, new) ==
  \/ /\ lock = "enqueue" /\ effect.from = "queued" /\ ~Exists(j)
     /\ new.status = "QUEUED" /\ new.code = "NONE"
  \/ /\ lock \in {"enqueue", "recover"} /\ effect.from = "completed"
     /\ old.status \in Owned /\ new.status = "COMMITTED"
  \/ /\ lock = "claim" /\ effect.from = "queued"
     /\ old.status \in Owned \cup {"QUEUED"} /\ new.status = "CLAIMED"
     /\ new.attempt = old.attempt + 1
  \/ /\ effect.from = "processing" /\ old.status \in Owned
     /\ new.attempt = old.attempt
     /\ \/ lock = "start" /\ new.status = "PROCESSING"
        \/ lock = "commit" /\ new.status = "COMMITTED"
        \/ lock \in {"retry", "recover"} /\ new.status = "DEAD_LETTER"
        \/ /\ lock \in {"retry", "recover"} /\ new.status = "QUEUED"
           /\ new.attempt < MaxAttempts
  \/ /\ lock = "requeue" /\ effect.from = "dead-letter"
     /\ old.status = "DEAD_LETTER" /\ new.status = "QUEUED"
     /\ new.attempt = 0

\* The plan of an operation that has written the document but not renamed it.
MovePlan(j, new) ==
  \/ /\ lock = "claim" /\ effect.from = "queued" /\ new.status = "CLAIMED"
     /\ deliveries[j] < new.attempt
  \/ /\ lock \in {"enqueue", "commit", "recover"} /\ effect.from = "processing"
     /\ new.status = "COMMITTED"
  \/ /\ lock \in {"retry", "recover"} /\ effect.from = "processing"
     /\ new.status \in {"QUEUED", "DEAD_LETTER"}
  \/ /\ lock = "requeue" /\ effect.from = "dead-letter"
     /\ new.status = "QUEUED"

EffectInv ==
  LET j == effect.job
      new == effect.doc
  IN  /\ stage = "write" => WritePlan(j, disk[effect.from][j], new)
      /\ stage = "move" => disk[effect.from][j] = new /\ MovePlan(j, new)
      /\ stage = "log" => /\ new.status \in JobStatuses
                           /\ disk[QueueDirectories[new.status]][j] = new
      /\ stage # "idle" /\ effect.ack
           => new.status = "COMMITTED" /\ acks[j] = 0
      /\ stage = "log" /\ lock \in {"claim", "start"} => new.status \in Owned

TodoInv ==
  \A j \in todo :
    lock = "requeue" => disk["dead-letter"][j].status = "DEAD_LETTER"

\* deliveries stays below the attempt count of the document, and a document on
\* its way to delivery has a delivery left.
CountOK(j) ==
  /\ ~Exists(j) => deliveries[j] = 0
  /\ In("queued", j) => /\ deliveries[j] < MaxAttempts
                        /\ deliveries[j] <= disk["queued"][j].attempt
  /\ In("processing", j) => deliveries[j] <= disk["processing"][j].attempt
  /\ disk["processing"][j].status = "QUEUED" => deliveries[j] < MaxAttempts
  /\ disk["dead-letter"][j].status = "QUEUED" => deliveries[j] = 0

DeliveryInv == \A j \in Jobs : CountOK(j)

\* The inductive invariant: at every stage of every operation the plan of the
\* lock holder, the disk, the ledger and the delivery counts agree, so a crash
\* there leaves what the next operation can take up.
QueueInv ==
  /\ LockInv
  /\ EffectInv
  /\ TodoInv
  /\ DeliveryInv
  /\ OneFile
  /\ NoPoisonedFile
  /\ AcknowledgedOnce
  /\ BoundedDelivery
  /\ OwnerKeepsJob

Done(j) == disk["completed"][j].status = "COMMITTED" /\ acks[j] = 1
Dead(j) == disk["dead-letter"][j].status = "DEAD_LETTER"

\* A requeue that crashed between its rewrite and its rename.
Stranded(j) == lock = "free" /\ disk["dead-letter"][j].status = "QUEUED"

\* An event whose hook got a receipt is closed: committed and acknowledged, or
\* kept as a dead letter with its error code.  No crash loses it, except the
\* one of requeue_dead_letters that RequeuedIsClaimed is about.
AcceptedIsClosed ==
  \A j \in Jobs : j \in accepted ~> Done(j) \/ Dead(j) \/ Stranded(j)

\* "Return dead-lettered jobs whose last error is in error_codes to delivery"
\* (requeue_dead_letters): once requeued, a job is claimed again.
RequeuedIsClaimed ==
  \A j \in Jobs :
    (disk["dead-letter"][j].status = "QUEUED") ~> (owner = j)

(* What the files of a job, one document per directory, mean to a client of
   the queue (Delivery). *)
AbstractOf(files) ==
  LET status(d) == files[d].status
  IN  IF \A d \in Dirs : status(d) = "ABSENT" THEN "new"
      ELSE IF status("completed") # "ABSENT" \/ status("processing") = "COMMITTED"
      THEN "done"
      ELSE IF status("queued") # "ABSENT" \/ status("processing") = "QUEUED"
                                         \/ status("dead-letter") = "QUEUED"
      THEN "ready"
      ELSE IF status("processing") \in Owned THEN "taken" ELSE "dead"

Abstract(j) == AbstractOf([d \in Dirs |-> disk[d][j]])

D == INSTANCE Delivery WITH state <- [j \in Jobs |-> Abstract(j)],
                            tries <- deliveries

\* The queue implements Delivery: every durable effect is one delivery step or
\* none; a crash is none.
ImplementsDelivery == D!Spec
=============================================================================

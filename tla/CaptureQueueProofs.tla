------------------------- MODULE CaptureQueueProofs -------------------------
(***************************************************************************)
(* The invariants of CaptureQueue for every set of jobs, every bound on    *)
(* attempts, faults and requeues, and the proof that the queue implements  *)
(* Delivery.                                                               *)
(***************************************************************************)
EXTENDS CaptureQueue, TLAPS

\* The directory of each status (QUEUE_DIRECTORIES).
LEMMA Directories ==
  /\ QueueDirectories["QUEUED"] = "queued"
  /\ QueueDirectories["CLAIMED"] = "processing"
  /\ QueueDirectories["PROCESSING"] = "processing"
  /\ QueueDirectories["COMMITTED"] = "completed"
  /\ QueueDirectories["DEAD_LETTER"] = "dead-letter"
  /\ \A s \in JobStatuses : QueueDirectories[s] \in Dirs
  BY DEF QueueDirectories, JobStatuses, Owned, Dirs

\* The documents the operations write are documents.
LEMMA Documents ==
  /\ NoDoc \in Doc
  /\ LegacyDoc \in Doc
  /\ NoEffect \in Effect
  /\ \A t \in 1 .. MaxStamp : NewDoc(t) \in Doc
  /\ \A doc \in Doc : \A code \in Codes : \A terminal \in BOOLEAN :
       /\ Failed(doc, code, terminal) \in Doc
       /\ Failed(doc, code, terminal).attempt = doc.attempt
       /\ Failed(doc, code, terminal).status \in {"QUEUED", "DEAD_LETTER"}
       /\ Failed(doc, code, terminal).status = "QUEUED"
            => doc.attempt < MaxAttempts
  <1> USE DEF Doc, Codes, JobStatuses
  <1>1. NoDoc \in Doc /\ LegacyDoc \in Doc
    BY DEF NoDoc, LegacyDoc
  <1>2. NoEffect \in Effect
    BY <1>1 DEF NoEffect, Effect, NoJob, Dirs
  <1>3. ASSUME NEW t \in 1 .. MaxStamp  PROVE NewDoc(t) \in Doc
    <2>1. t \in Nat
      BY QueueAssumption
    <2> QED
      BY <2>1 DEF NewDoc, NoDoc
  <1>4. ASSUME NEW doc \in Doc, NEW code \in Codes, NEW terminal \in BOOLEAN
        PROVE  /\ Failed(doc, code, terminal) \in Doc
               /\ Failed(doc, code, terminal).attempt = doc.attempt
               /\ Failed(doc, code, terminal).status \in {"QUEUED", "DEAD_LETTER"}
               /\ Failed(doc, code, terminal).status = "QUEUED"
                    => doc.attempt < MaxAttempts
    <2>1. CASE terminal \/ doc.attempt >= MaxAttempts
      <3>1. Failed(doc, code, terminal)
              = [doc EXCEPT !.code = code, !.status = "DEAD_LETTER"]
        BY <2>1 DEF Failed
      <3> QED
        BY <3>1
    <2>2. CASE ~(terminal \/ doc.attempt >= MaxAttempts)
      <3>1. Failed(doc, code, terminal)
              = [doc EXCEPT !.code = code, !.status = "QUEUED"]
        BY <2>2 DEF Failed
      <3>2. doc.attempt < MaxAttempts
        BY <2>2, QueueAssumption
      <3> QED
        BY <3>1, <3>2
    <2> QED
      BY <2>1, <2>2
  <1> QED
    BY <1>1, <1>2, <1>3, <1>4

\* Counting one more for a job, if it is one, keeps a counter a counter.
LEMMA Counting ==
  ASSUME NEW S, NEW f \in [S -> Nat], NEW x
  PROVE  [f EXCEPT ![x] = @ + 1] \in [S -> Nat]
  <1>1. CASE x \in S
    <2>1. f[x] + 1 \in Nat
      BY <1>1
    <2> QED
      BY <2>1
  <1>2. CASE x \notin S
    BY <1>2
  <1> QED
    BY <1>1, <1>2

\* An operation that begins changes the lock and the plan, and nothing else.
LEMMA BeginType ==
  ASSUME TypeOK, NEW op \in WorkerOps \cup {"enqueue"}, NEW first \in Stages,
         NEW j \in Jobs, NEW from \in Dirs, NEW doc \in Doc,
         Begin(op, first, j, from, doc)
  PROVE  TypeOK'
  BY DEF TypeOK, Begin, Plan, history, Effect

LEMMA ReconcileType ==
  ASSUME TypeOK, NEW d \in Dirs, NEW j \in Jobs, ReconcileTerminal(d, j)
  PROVE  stage' \in Stages /\ effect' \in Effect /\ effect'.job \in Jobs
  <1>1. disk[d][j] \in Doc
    BY DEF TypeOK
  <1>2. [disk[d][j] EXCEPT !.status = "COMMITTED"] \in Doc
    BY <1>1 DEF Doc, JobStatuses
  <1> QED
    BY <1>2 DEF ReconcileTerminal, Plan, Effect, Stages

\* Every variable keeps its type.
LEMMA TypeStep == TypeOK /\ [Next]_vars => TypeOK'
  <1> SUFFICES ASSUME TypeOK, [Next]_vars
               PROVE  TypeOK'
    OBVIOUS
  <1> USE DEF history, lockVars
  <1>a. \A d \in Dirs : \A j \in Jobs : disk[d][j] \in Doc
    BY DEF TypeOK
  <1>d. "queued" \in Dirs /\ "processing" \in Dirs /\ "dead-letter" \in Dirs
    BY DEF Dirs
  <1>1. ASSUME NEW j \in Jobs, Hooks(j)  PROVE TypeOK'
    <2>1. ASSUME NEW t \in 1 .. MaxStamp, Enqueue(j, t)  PROVE TypeOK'
      BY <2>1, <1>d, BeginType, Documents DEF Enqueue, Stages
    <2>2. ASSUME NEW d \in Dirs, EnqueueReconcile(d, j)  PROVE TypeOK'
      BY <2>2, ReconcileType DEF EnqueueReconcile, TypeOK
    <2>3. ASSUME NEW d \in Dirs, EnqueueDuplicate(d, j)  PROVE TypeOK'
      BY <2>3 DEF EnqueueDuplicate, TypeOK
    <2> QED
      BY <1>1, <2>1, <2>2, <2>3 DEF Hooks
  <1>2. ASSUME NEW j \in Jobs, Worker(j)  PROVE TypeOK'
    <2>1. CASE ClaimNext(j)
      <3>1. [disk["queued"][j] EXCEPT !.status = "CLAIMED",
                                      !.attempt = @ + 1] \in Doc
        <4> DEFINE doc == disk["queued"][j]
        <4>1. doc \in Doc /\ doc.attempt + 1 \in Nat
          BY <1>a, <1>d DEF Doc
        <4>2. [doc EXCEPT !.status = "CLAIMED", !.attempt = doc.attempt + 1]
                \in Doc
          BY <4>1 DEF Doc, JobStatuses
        <4> QED
          BY <4>2
      <3> QED
        BY <2>1, <3>1, <1>d, BeginType DEF ClaimNext, Stages, WorkerOps
    <2>2. CASE StartProcessing(j)
      <3>1. [disk["processing"][j] EXCEPT !.status = "PROCESSING"] \in Doc
        BY <1>a, <1>d DEF Doc, JobStatuses
      <3> QED
        BY <2>2, <3>1, <1>d, BeginType DEF StartProcessing, Stages, WorkerOps
    <2>3. CASE Commit(j)
      <3>1. [disk["processing"][j] EXCEPT !.status = "COMMITTED"] \in Doc
        BY <1>a, <1>d DEF Doc, JobStatuses
      <3> QED
        BY <2>3, <3>1, <1>d, BeginType DEF Commit, Stages, WorkerOps
    <2>4. ASSUME NEW code \in ErrorCodes, NEW terminal \in BOOLEAN,
                 RetryOrDeadLetter(j, code, terminal)
          PROVE  TypeOK'
      <3>1. Failed(disk["processing"][j], code, terminal) \in Doc
        BY <1>a, <1>d, Documents DEF Codes
      <3> QED
        BY <2>4, <3>1, <1>d, BeginType DEF RetryOrDeadLetter, Stages, WorkerOps
    <2>5. CASE RetryRefused(j)
      BY <2>5 DEF RetryRefused, TypeOK
    <2>6. CASE Renew(j)
      BY <2>6 DEF Renew, TypeOK
    <2>7. ASSUME NEW d \in Dirs, RecoverUnclosed(d, j)  PROVE TypeOK'
      BY <2>7, ReconcileType DEF RecoverUnclosed, Visit, TypeOK
    <2>8. CASE RecoverMisplaced(j)
      BY <2>8, <1>a, <1>d DEF RecoverMisplaced, Visit, Plan, TypeOK, Effect, Stages
    <2>9. CASE RecoverExpired(j)
      <3>1. Failed(disk["processing"][j], LeaseExpired, FALSE) \in Doc
        BY <1>a, <1>d, Documents DEF Codes
      <3> QED
        BY <2>9, <3>1, <1>d
        DEF RecoverExpired, Visit, Plan, TypeOK, Effect, Stages
    <2> QED
      BY <1>2, <2>1, <2>2, <2>3, <2>4, <2>5, <2>6, <2>7, <2>8, <2>9
      DEF Worker, Fails, RecoverJob
  <1>3. ASSUME NEW j \in Jobs, LeaseLapses(j)  PROVE TypeOK'
    BY <1>3 DEF LeaseLapses, TypeOK
  <1>4. CASE RecoverExpiredClaims
    BY <1>4 DEF RecoverExpiredClaims, Sweep, TypeOK, WorkerOps
  <1>5. CASE Operator
    <2>1. ASSUME NEW codes \in SUBSET (Codes \ {"NONE"}),
                 RequeueDeadLetters(codes)
          PROVE  TypeOK'
      BY <2>1 DEF RequeueDeadLetters, Sweep, TypeOK
    <2>2. ASSUME NEW j \in Jobs, RequeueJob(j)  PROVE TypeOK'
      <3>1. [disk["dead-letter"][j] EXCEPT !.status = "QUEUED",
                                           !.attempt = 0] \in Doc
        BY <1>a, <1>d DEF Doc, JobStatuses
      <3> QED
        BY <2>2, <3>1, <1>d DEF RequeueJob, Visit, Plan, TypeOK, Effect, Stages
    <2> QED
      BY <1>5, <2>1, <2>2 DEF Operator
  <1>6. CASE Write
    BY <1>6 DEF Write, TypeOK, Effect, Stages
  <1>7. CASE Move
    <2>0. deliveries \in [Jobs -> Nat]
      BY DEF TypeOK
    <2>1. /\ effect.doc \in Doc /\ NoDoc \in Doc
          /\ stage' \in Stages
          /\ deliveries' \in [Jobs -> Nat]
      BY <1>7, <2>0, Counting, Documents DEF Move, TypeOK, Effect, Stages
    <2>2. disk' \in [Dirs -> [Jobs -> Doc]]
      BY <1>7, <2>1 DEF Move, TypeOK
    <2> QED
      BY <1>7, <2>1, <2>2 DEF Move, TypeOK
  <1>8. CASE Log
    <2>1. effect.job \in Jobs \cup {NoJob} /\ NoEffect \in Effect
      BY Documents DEF TypeOK, Effect
    <2>2. acks' \in [Jobs -> Nat]
      <3>1. acks \in [Jobs -> Nat]
        BY DEF TypeOK
      <3> QED
        BY <1>8, <3>1, Counting DEF Log
    <2>3. owner' \in Jobs \cup {NoJob} /\ phase' \in {"none", "claimed", "processing", "failed"}
      BY <1>8, <2>1 DEF Log, TypeOK
    <2>4. accepted' \subseteq Jobs
      BY <1>8, <2>1 DEF Log, TypeOK
    <2> QED
      BY <1>8, <2>1, <2>2, <2>3, <2>4 DEF Log, TypeOK, Stages
  <1>9. CASE Failures
    BY <1>9, Documents
    DEF Failures, HolderCrashes, WorkerCrashes, OperationFails, Release, Fault,
        TypeOK, Stages
  <1>10. CASE UNCHANGED vars
    BY <1>10 DEF vars, TypeOK
  <1> QED
    BY <1>1, <1>2, <1>3, <1>4, <1>5, <1>6, <1>7, <1>8, <1>9, <1>10
    DEF Next, Effects

\* The state of the queue, of the lock holder and of the worker is well typed
\* in every reachable state, whatever the constants.
THEOREM TypeCorrect == Spec => []TypeOK
  <1>1. Init => TypeOK
    BY Documents DEF Init, TypeOK, Dirs, Stages, NoJob
  <1> QED
    BY <1>1, TypeStep, PTL DEF Spec
-----------------------------------------------------------------------------
(* The inductive invariant.  Only Write, Move and Log change the disk, the  *)
(* ledger and the delivery counts; every other action has to keep what ties *)
(* the plan of the lock holder and the worker's claim to them.              *)

DiskInv ==
  /\ DeliveryInv
  /\ OneFile
  /\ NoPoisonedFile
  /\ AcknowledgedOnce
  /\ BoundedDelivery

PlanInv ==
  /\ LockInv
  /\ EffectInv
  /\ TodoInv
  /\ OwnerKeepsJob

LEMMA DiskFrame ==
  ASSUME DiskInv, UNCHANGED <<disk, acks, deliveries>>
  PROVE  DiskInv'
  BY DEF DiskInv, DeliveryInv, CountOK, OneFile, NoPoisonedFile,
         AcknowledgedOnce, BoundedDelivery, In, Exists

\* What a well-typed state says of one document.
LEMMA DocType ==
  ASSUME TypeOK, NEW d \in Dirs, NEW j \in Jobs
  PROVE  /\ disk[d][j] \in Doc
         /\ disk[d][j].status \in JobStatuses \cup {"ABSENT"}
         /\ disk[d][j].attempt \in Nat
         /\ acks[j] \in Nat
         /\ deliveries[j] \in Nat
  BY DEF TypeOK, Doc

\* An operation that begins with the write its caller describes.
LEMMA BeginPlan ==
  ASSUME TypeOK, DiskInv, PlanInv,
         NEW op \in {"enqueue", "claim", "start", "commit", "retry"},
         NEW j \in Jobs, NEW from \in Dirs, NEW doc \in Doc,
         Begin(op, "write", j, from, doc),
         (WritePlan(j, disk[from][j], doc))',
         op = "claim" => owner = NoJob,
         op \in {"start", "commit", "retry"} => owner = j,
         doc.status = "COMMITTED" => acks[j] = 0
  PROVE  PlanInv'
  <1>1. LockInv'
    BY QueueAssumption DEF Begin, Plan, PlanInv, LockInv, TypeOK, NoJob, history
  <1>2. EffectInv'
    BY DEF Begin, Plan, EffectInv, history
  <1>3. TodoInv'
    BY DEF Begin, PlanInv, LockInv, TodoInv, history
  <1>4. OwnerKeepsJob'
    BY DEF Begin, PlanInv, OwnerKeepsJob, history
  <1> QED
    BY <1>1, <1>2, <1>3, <1>4 DEF PlanInv

\* A job in processing/ has not been acknowledged.
LEMMA Unacknowledged ==
  ASSUME TypeOK, DiskInv, NEW j \in Jobs, In("processing", j)
  PROVE  acks[j] = 0
  <1>1. ~In("completed", j)
    BY DEF DiskInv, OneFile, Dirs
  <1> QED
    BY <1>1, DocType DEF DiskInv, AcknowledgedOnce, In, Dirs

\* The plan of a reconciliation fits the disk.
LEMMA ReconcilePlan ==
  ASSUME TypeOK, DiskInv, PlanInv, NEW d \in Dirs, NEW j \in Jobs,
         Unclosed(d, j), ReconcileTerminal(d, j),
         lock' \in {"enqueue", "recover"}, disk' = disk, acks' = acks,
         deliveries' = deliveries
  PROVE  EffectInv'
  <1>1. /\ disk[d][j] \in Doc
        /\ disk[d][j].status \in JobStatuses \cup {"ABSENT"}
        /\ acks[j] \in Nat
    BY DocType
  <1> DEFINE doc == [disk[d][j] EXCEPT !.status = "COMMITTED"]
  <1>2. /\ doc.status = "COMMITTED"
        /\ disk[d][j].status = "COMMITTED" => doc = disk[d][j]
    BY <1>1 DEF Doc
  <1>3. effect' = [job |-> j, from |-> d, doc |-> doc, ack |-> acks[j] = 0]
    BY <1>1 DEF ReconcileTerminal, Plan, Acked
  <1>4. d = "completed" => disk[d][j].status \in Owned \cup {"COMMITTED", "ABSENT"}
    BY <1>1 DEF DiskInv, NoPoisonedFile, JobStatuses, Owned
  <1>5. CASE d = "processing" /\ disk[d][j].status = "COMMITTED"
    <2>1. stage' = "move"
      BY <1>5 DEF ReconcileTerminal, Plan
    <2> QED
      BY <1>2, <1>3, <1>5, <2>1 DEF EffectInv, MovePlan
  <1>6. CASE d = "completed" /\ disk[d][j].status = "COMMITTED"
    <2>1. stage' = "log"
      BY <1>6 DEF ReconcileTerminal, Plan
    <2> QED
      BY <1>2, <1>3, <1>6, <2>1, Directories DEF EffectInv, JobStatuses
  <1>7. CASE d = "completed" /\ disk[d][j].status \in Owned
    <2>1. stage' = "write"
      BY <1>7 DEF ReconcileTerminal, Plan, Owned
    <2> QED
      BY <1>2, <1>3, <1>7, <2>1 DEF EffectInv, WritePlan
  <1> QED
    BY <1>4, <1>5, <1>6, <1>7 DEF Unclosed, In

\* Actions that change neither the disk, nor the counts, nor the plan.
LEMMA PlanFrame ==
  ASSUME PlanInv, UNCHANGED <<disk, acks, deliveries, lockVars, owner, phase>>
  PROVE  PlanInv'
  BY DEF PlanInv, LockInv, EffectInv, WritePlan, MovePlan, TodoInv,
         OwnerKeepsJob, Exists, In, lockVars

LEMMA HookStep ==
  ASSUME TypeOK, DiskInv, PlanInv, NEW j \in Jobs, Hooks(j)
  PROVE  DiskInv' /\ PlanInv'
  <1> USE DEF history, lockVars
  <1>1. ASSUME NEW t \in 1 .. MaxStamp, Enqueue(j, t)
        PROVE  DiskInv' /\ PlanInv'
    <2>1. NewDoc(t) \in Doc /\ NewDoc(t).status = "QUEUED"
          /\ NewDoc(t).code = "NONE"
      BY Documents DEF NewDoc, NoDoc
    <2>2. UNCHANGED <<disk, acks, deliveries>> /\ lock' = "enqueue"
          /\ effect'.from = "queued" /\ ~Exists(j)
          /\ Begin("enqueue", "write", j, "queued", NewDoc(t))
      BY <1>1 DEF Enqueue, Begin, Plan
    <2>3. (WritePlan(j, disk["queued"][j], NewDoc(t)))'
      BY <2>1, <2>2 DEF WritePlan, Exists, In, NewDoc, NoDoc
    <2>4. PlanInv'
      BY <2>1, <2>2, <2>3, BeginPlan DEF Dirs
    <2> QED
      BY <2>2, <2>4, DiskFrame
  <1>2. ASSUME NEW d \in Dirs, EnqueueReconcile(d, j)
        PROVE  DiskInv' /\ PlanInv'
    <2>1. UNCHANGED <<disk, acks, deliveries, todo, owner, phase>>
          /\ lock = "free" /\ lock' = "enqueue"
          /\ effect'.job = j /\ stage' # "idle"
      BY <1>2 DEF EnqueueReconcile, ReconcileTerminal, Plan
    <2>2. EffectInv'
      BY <1>2, <2>1, ReconcilePlan DEF EnqueueReconcile
    <2>3. LockInv' /\ TodoInv' /\ OwnerKeepsJob'
      BY <2>1 DEF PlanInv, LockInv, TodoInv, OwnerKeepsJob
    <2> QED
      BY <2>1, <2>2, <2>3, DiskFrame DEF PlanInv
  <1>3. ASSUME NEW d \in Dirs, EnqueueDuplicate(d, j)
        PROVE  DiskInv' /\ PlanInv'
    BY <1>3, DiskFrame, PlanFrame DEF EnqueueDuplicate
  <1> QED
    BY <1>1, <1>2, <1>3 DEF Hooks

\* A visit of a looping operation that fixed a plan the disk agrees with.
LEMMA VisitPlan ==
  ASSUME TypeOK, DiskInv, PlanInv, NEW op \in {"recover", "requeue"},
         NEW j \in Jobs, Visit(op, j), effect'.job = j, stage' # "idle",
         EffectInv'
  PROVE  DiskInv' /\ PlanInv'
  <1>1. UNCHANGED <<disk, acks, deliveries, lock, owner, phase>>
        /\ todo' = todo \ {j} /\ lock = op /\ j \in todo
    BY DEF Visit, history
  <1>2. LockInv' /\ TodoInv' /\ OwnerKeepsJob'
    BY <1>1 DEF PlanInv, LockInv, TodoInv, OwnerKeepsJob
  <1> QED
    BY <1>1, <1>2, DiskFrame DEF PlanInv

LEMMA WorkerStep ==
  ASSUME TypeOK, DiskInv, PlanInv, NEW j \in Jobs, Worker(j)
  PROVE  DiskInv' /\ PlanInv'
  <1> USE DEF history, lockVars
  <1>d. "queued" \in Dirs /\ "processing" \in Dirs
    BY DEF Dirs
  <1> DEFINE q == disk["queued"][j]
             p == disk["processing"][j]
  <1>e. q \in Doc /\ p \in Doc /\ q.attempt \in Nat /\ p.attempt \in Nat
    BY <1>d, DocType
  <1>f. p.status \in Owned => acks[j] = 0
    BY Unacknowledged DEF In, Owned
  <1>1. CASE ClaimNext(j)
    <2> DEFINE new == [q EXCEPT !.status = "CLAIMED", !.attempt = q.attempt + 1]
    <2>0. q.attempt + 1 \in Nat
      BY <1>e
    <2>1. new \in Doc /\ new.status = "CLAIMED" /\ new.attempt = q.attempt + 1
      <3> HIDE DEF q
      <3> QED
        BY <1>e, <2>0 DEF Doc, JobStatuses
    <2>2. /\ UNCHANGED <<disk, acks, deliveries>> /\ lock' = "claim"
          /\ effect'.from = "queued" /\ q.status \in Owned \cup {"QUEUED"}
          /\ owner = NoJob /\ Begin("claim", "write", j, "queued", new)
      BY <1>1 DEF ClaimNext, Begin, Plan
    <2>3. (WritePlan(j, q, new))'
      BY <2>1, <2>2 DEF WritePlan
    <2>4. PlanInv'
      BY <1>d, <2>1, <2>2, <2>3, BeginPlan
    <2> QED
      BY <2>2, <2>4, DiskFrame
  <1>2. CASE StartProcessing(j)
    <2> DEFINE new == [p EXCEPT !.status = "PROCESSING"]
    <2>1. new \in Doc /\ new.status = "PROCESSING" /\ new.attempt = p.attempt
      BY <1>e DEF Doc, JobStatuses
    <2>2. /\ UNCHANGED <<disk, acks, deliveries>> /\ lock' = "start"
          /\ effect'.from = "processing" /\ p.status \in Owned
          /\ owner = j /\ Begin("start", "write", j, "processing", new)
      BY <1>2 DEF StartProcessing, Begin, Plan, Owned
    <2>3. (WritePlan(j, p, new))'
      BY <2>1, <2>2 DEF WritePlan
    <2>4. PlanInv'
      BY <1>d, <2>1, <2>2, <2>3, BeginPlan
    <2> QED
      BY <2>2, <2>4, DiskFrame
  <1>3. CASE Commit(j)
    <2> DEFINE new == [p EXCEPT !.status = "COMMITTED"]
    <2>1. new \in Doc /\ new.status = "COMMITTED" /\ new.attempt = p.attempt
      BY <1>e DEF Doc, JobStatuses
    <2>2. /\ UNCHANGED <<disk, acks, deliveries>> /\ lock' = "commit"
          /\ effect'.from = "processing" /\ p.status \in Owned
          /\ owner = j /\ Begin("commit", "write", j, "processing", new)
      BY <1>3 DEF Commit, Begin, Plan
    <2>3. (WritePlan(j, p, new))'
      BY <2>1, <2>2 DEF WritePlan
    <2>4. PlanInv'
      BY <1>d, <1>f, <2>1, <2>2, <2>3, BeginPlan
    <2> QED
      BY <2>2, <2>4, DiskFrame
  <1>4. ASSUME NEW code \in ErrorCodes, NEW terminal \in BOOLEAN,
               RetryOrDeadLetter(j, code, terminal)
        PROVE  DiskInv' /\ PlanInv'
    <2> DEFINE new == Failed(p, code, terminal)
    <2>1. /\ new \in Doc /\ new.attempt = p.attempt
          /\ new.status \in {"QUEUED", "DEAD_LETTER"}
          /\ new.status = "QUEUED" => new.attempt < MaxAttempts
      BY <1>e, Documents DEF Codes
    <2>2. /\ UNCHANGED <<disk, acks, deliveries>> /\ lock' = "retry"
          /\ effect'.from = "processing" /\ p.status \in Owned
          /\ owner = j /\ Begin("retry", "write", j, "processing", new)
      BY <1>4 DEF RetryOrDeadLetter, Begin, Plan
    <2>3. (WritePlan(j, p, new))'
      BY <2>1, <2>2 DEF WritePlan
    <2>4. PlanInv'
      BY <1>d, <2>1, <2>2, <2>3, BeginPlan
    <2> QED
      BY <2>2, <2>4, DiskFrame
  <1>5. CASE RetryRefused(j)
    <2>1. PlanInv'
      BY <1>5 DEF RetryRefused, PlanInv, LockInv, EffectInv, WritePlan, MovePlan,
                  TodoInv, OwnerKeepsJob, Exists, In
    <2> QED
      BY <1>5, <2>1, DiskFrame DEF RetryRefused
  <1>6. CASE Renew(j)
    BY <1>6, DiskFrame, PlanFrame DEF Renew
  <1>7. ASSUME NEW d \in Dirs, RecoverUnclosed(d, j)
        PROVE  DiskInv' /\ PlanInv'
    <2>1. UNCHANGED <<disk, acks, deliveries>> /\ lock' = "recover"
          /\ effect'.job = j /\ stage' # "idle" /\ Visit("recover", j)
      BY <1>7 DEF RecoverUnclosed, Visit, ReconcileTerminal, Plan
    <2>2. EffectInv'
      BY <1>7, <2>1, ReconcilePlan DEF RecoverUnclosed
    <2> QED
      BY <2>1, <2>2, VisitPlan
  <1>8. CASE RecoverMisplaced(j)
    <2>1. /\ UNCHANGED <<disk, acks, deliveries>> /\ lock' = "recover"
          /\ effect' = [job |-> j, from |-> "processing", doc |-> p, ack |-> FALSE]
          /\ stage' = "move" /\ Visit("recover", j)
          /\ p.status \in {"QUEUED", "DEAD_LETTER"}
      BY <1>8 DEF RecoverMisplaced, Visit, Plan
    <2>2. EffectInv'
      BY <2>1 DEF EffectInv, MovePlan
    <2> QED
      BY <2>1, <2>2, VisitPlan
  <1>9. CASE RecoverExpired(j)
    <2> DEFINE new == Failed(p, LeaseExpired, FALSE)
    <2>1. /\ new.attempt = p.attempt
          /\ new.status \in {"QUEUED", "DEAD_LETTER"}
          /\ new.status = "QUEUED" => new.attempt < MaxAttempts
      BY <1>e, Documents DEF Codes
    <2>2. /\ UNCHANGED <<disk, acks, deliveries>> /\ lock' = "recover"
          /\ effect' = [job |-> j, from |-> "processing", doc |-> new, ack |-> FALSE]
          /\ stage' = "write" /\ Visit("recover", j) /\ p.status \in Owned
      BY <1>9 DEF RecoverExpired, Visit, Plan
    <2>3. EffectInv'
      BY <2>1, <2>2 DEF EffectInv, WritePlan
    <2> QED
      BY <2>2, <2>3, VisitPlan
  <1> QED
    BY <1>1, <1>2, <1>3, <1>4, <1>5, <1>6, <1>7, <1>8, <1>9
    DEF Worker, Fails, RecoverJob

LEMMA OtherStep ==
  ASSUME TypeOK, DiskInv, PlanInv,
         \/ \E j \in Jobs : LeaseLapses(j)
         \/ RecoverExpiredClaims
         \/ Operator
         \/ Failures
  PROVE  DiskInv' /\ PlanInv'
  <1> USE DEF history, lockVars
  <1>1. CASE \E j \in Jobs : LeaseLapses(j)
    BY <1>1, DiskFrame, PlanFrame DEF LeaseLapses
  <1>2. CASE RecoverExpiredClaims
    <2>1. PlanInv'
      BY <1>2, QueueAssumption
      DEF RecoverExpiredClaims, Sweep, PlanInv, LockInv, EffectInv, TodoInv,
          OwnerKeepsJob, NoEffect, NoJob
    <2> QED
      BY <1>2, <2>1, DiskFrame DEF RecoverExpiredClaims, Sweep
  <1>3. ASSUME NEW codes \in SUBSET (Codes \ {"NONE"}),
               RequeueDeadLetters(codes)
        PROVE  DiskInv' /\ PlanInv'
    <2>1. PlanInv'
      BY <1>3, QueueAssumption
      DEF RequeueDeadLetters, Sweep, PlanInv, LockInv, EffectInv, TodoInv,
          OwnerKeepsJob, NoEffect, NoJob
    <2> QED
      BY <1>3, <2>1, DiskFrame DEF RequeueDeadLetters, Sweep
  <1>4. ASSUME NEW j \in Jobs, RequeueJob(j)
        PROVE  DiskInv' /\ PlanInv'
    <2> DEFINE old == disk["dead-letter"][j]
               new == [old EXCEPT !.status = "QUEUED", !.attempt = 0]
    <2>1. old \in Doc
      BY DocType DEF Dirs
    <2>2. new.status = "QUEUED" /\ new.attempt = 0
      BY <2>1 DEF Doc
    <2>3. /\ UNCHANGED <<disk, acks, deliveries>> /\ lock' = "requeue"
          /\ effect' = [job |-> j, from |-> "dead-letter", doc |-> new, ack |-> FALSE]
          /\ stage' = "write" /\ Visit("requeue", j)
          /\ old.status = "DEAD_LETTER"
      BY <1>4 DEF RequeueJob, Visit, Plan, PlanInv, TodoInv
    <2>4. EffectInv'
      BY <2>2, <2>3 DEF EffectInv, WritePlan
    <2> QED
      BY <2>3, <2>4, VisitPlan
  <1>5. CASE HolderCrashes
    <2>1. PlanInv'
      BY <1>5, QueueAssumption
      DEF HolderCrashes, Release, Fault, PlanInv, LockInv, EffectInv, TodoInv,
          OwnerKeepsJob, NoEffect, NoJob, WorkerOps
    <2> QED
      BY <1>5, <2>1, DiskFrame DEF HolderCrashes, Fault
  <1>6. CASE WorkerCrashes
    <2>1. PlanInv'
      BY <1>6
      DEF WorkerCrashes, Fault, PlanInv, LockInv, EffectInv, WritePlan,
          MovePlan, TodoInv, OwnerKeepsJob, WorkerOps, Exists, In
    <2> QED
      BY <1>6, <2>1, DiskFrame DEF WorkerCrashes, Fault
  <1>7. CASE OperationFails
    <2>1. PlanInv'
      BY <1>7, QueueAssumption
      DEF OperationFails, Release, Fault, PlanInv, LockInv, EffectInv, TodoInv,
          OwnerKeepsJob, NoEffect, NoJob, TypeOK
    <2> QED
      BY <1>7, <2>1, DiskFrame DEF OperationFails, Fault
  <1> QED
    BY <1>1, <1>2, <1>3, <1>4, <1>5, <1>6, <1>7 DEF Operator, Failures

LEMMA WriteStep ==
  ASSUME TypeOK, DiskInv, PlanInv, Write
  PROVE  DiskInv' /\ PlanInv'
  <1> DEFINE j == effect.job
             new == effect.doc
             from == effect.from
             old == disk[from][j]
  <1>1. /\ j \in Jobs /\ from \in Dirs /\ new \in Doc
        /\ new.status \in JobStatuses \cup {"ABSENT"}
        /\ old.status \in JobStatuses \cup {"ABSENT"}
        /\ stage = "write" /\ WritePlan(j, old, new)
    <2>1. stage = "write"
      BY DEF Write
    <2>2. j \in Jobs /\ from \in Dirs /\ new \in Doc
      BY <2>1 DEF TypeOK, Effect
    <2> QED
      BY <2>1, <2>2, DocType DEF PlanInv, EffectInv, Doc
  <1>2. /\ disk' = [disk EXCEPT ![from][j] = new]
        /\ UNCHANGED <<acks, lock, todo, effect, owner, phase>>
        /\ stage' = IF from = QueueDirectories[new.status] THEN "log" ELSE "move"
    BY DEF Write, Target
  <1>3. /\ disk'[from][j] = new
        /\ \A d \in Dirs : \A i \in Jobs :
             d # from \/ i # j => disk'[d][i] = disk[d][i]
    BY <1>1, <1>2 DEF TypeOK
  <1>4. \A i \in Jobs : i # j => deliveries'[i] = deliveries[i]
    BY DEF Write, TypeOK
  <1>5. deliveries'[j] = IF lock = "requeue" THEN 0 ELSE deliveries[j]
    BY <1>1 DEF Write, TypeOK
  <1>6. \A d \in Dirs : d # from => ~In(d, j)
    BY <1>1 DEF WritePlan, DiskInv, OneFile, In, Exists, Owned, Dirs
  <1>7. new.status \in JobStatuses
    BY <1>1 DEF WritePlan, JobStatuses
  <1>8. OneFile'
    BY <1>1, <1>3, <1>6 DEF DiskInv, OneFile, In
  <1>9. NoPoisonedFile'
    <2>1. /\ from = "queued" => new.status \in {"QUEUED", "CLAIMED"}
          /\ from = "completed" => new.status = "COMMITTED"
          /\ from = "dead-letter" => new.status = "QUEUED"
      BY <1>1 DEF WritePlan
    <2> QED
      BY <1>1, <1>3, <2>1 DEF DiskInv, NoPoisonedFile, Dirs, Owned
  <1>10. AcknowledgedOnce'
    <2>1. from = "completed" => new.status = "COMMITTED"
      BY <1>1 DEF WritePlan
    <2> QED
      BY <1>1, <1>2, <1>3, <2>1 DEF DiskInv, AcknowledgedOnce, Dirs
  <1>11. BoundedDelivery'
    <2>1. ASSUME NEW i \in Jobs  PROVE deliveries'[i] <= MaxAttempts
      <3>1. deliveries[i] <= MaxAttempts /\ 0 <= MaxAttempts
        BY QueueAssumption DEF DiskInv, BoundedDelivery
      <3> QED
        BY <1>4, <1>5, <3>1
    <2> QED
      BY <2>1 DEF BoundedDelivery
  <1>12. DeliveryInv'
    <2>1. ASSUME NEW i \in Jobs, i # j  PROVE CountOK(i)'
      BY <1>3, <1>4, <2>1 DEF DiskInv, DeliveryInv, CountOK, Exists, In, Dirs
    <2>2. ASSUME NEW i \in Jobs, i = j  PROVE CountOK(i)'
      <3>1. deliveries[j] \in Nat /\ old.attempt \in Nat
        BY <1>1, DocType
      <3>2. new.attempt \in Nat
        BY <1>1 DEF Doc
      <3>3. CountOK(j)
        BY <1>1 DEF DiskInv, DeliveryInv
      <3>4. disk'[from][j].status # "ABSENT"
        BY <1>3, <1>7 DEF JobStatuses
      <3>5. \A d \in Dirs : d # from => disk'[d][j].status = "ABSENT"
        BY <1>1, <1>3, <1>6 DEF In
      <3>6. lock = "requeue" <=> from = "dead-letter"
        BY <1>1 DEF WritePlan
      <3>7. from = "queued" => deliveries[j] < MaxAttempts
                               /\ deliveries[j] <= new.attempt
        BY <1>1, <3>1, <3>2, <3>3, QueueAssumption DEF WritePlan, CountOK, In, Owned
      <3>8. from = "processing"
              => /\ deliveries[j] <= new.attempt
                 /\ new.status = "QUEUED" => deliveries[j] < MaxAttempts
        BY <1>1, <3>1, <3>2, <3>3, QueueAssumption DEF WritePlan, CountOK, In, Owned
      <3> HIDE DEF j, new, from, old
      <3>9. ~(Exists(i)') => deliveries'[i] = 0
        BY <1>1, <2>2, <3>4 DEF Exists, In
      <3>10. CASE from = "queued"
        BY <1>3, <1>5, <2>2, <3>5, <3>6, <3>7, <3>9, <3>10 DEF CountOK, In, Dirs
      <3>11. CASE from = "processing"
        BY <1>3, <1>5, <2>2, <3>5, <3>6, <3>8, <3>9, <3>11 DEF CountOK, In, Dirs
      <3>12. CASE from \in {"completed", "dead-letter"}
        BY <1>3, <1>5, <2>2, <3>5, <3>6, <3>9, <3>12 DEF CountOK, In, Dirs
      <3> QED
        BY <1>1, <3>10, <3>11, <3>12 DEF Dirs
    <2> QED
      BY <2>1, <2>2 DEF DeliveryInv
  <1>13. DiskInv'
    BY <1>8, <1>9, <1>10, <1>11, <1>12 DEF DiskInv
  <1>14. LockInv'
    BY <1>1, <1>2 DEF PlanInv, LockInv
  <1>15. EffectInv'
    <2>1. lock = "claim" => deliveries'[j] < new.attempt
      <3>1. lock = "claim" => deliveries[j] <= old.attempt
                              /\ new.attempt = old.attempt + 1
        BY <1>1 DEF WritePlan, DiskInv, DeliveryInv, CountOK, In, Owned
      <3>2. deliveries[j] \in Nat /\ old.attempt \in Nat
        BY <1>1, DocType
      <3> QED
        BY <1>5, <3>1, <3>2
    <2>2. CASE from = QueueDirectories[new.status]
      <3>1. stage' = "log" /\ new.status # "CLAIMED"
        BY <1>1, <1>2, <2>2, Directories DEF WritePlan
      <3>2. lock \in {"claim", "start"} => new.status \in Owned
        BY <1>1 DEF WritePlan, Owned
      <3> QED
        BY <1>1, <1>2, <1>3, <1>7, <2>2, <3>1, <3>2 DEF PlanInv, EffectInv
    <2>3. CASE from # QueueDirectories[new.status]
      <3>1. stage' = "move"
        BY <1>2, <2>3
      <3>2. MovePlan(j, new)'
        BY <1>1, <1>2, <2>1, <2>3, Directories DEF WritePlan, MovePlan
      <3> QED
        BY <1>1, <1>2, <1>3, <3>1, <3>2 DEF PlanInv, EffectInv
    <2> QED
      BY <2>2, <2>3
  <1>16. TodoInv'
    BY <1>2, <1>3 DEF PlanInv, LockInv, TodoInv, TypeOK, Dirs
  <1>17. OwnerKeepsJob'
    <2>1. ASSUME owner # NoJob, phase # "failed", lock \notin {"commit", "retry"}
          PROVE  disk'["processing"][owner].status \in Owned
      <3>1. disk["processing"][owner].status \in Owned /\ owner \in Jobs
        BY <2>1 DEF PlanInv, OwnerKeepsJob, TypeOK
      <3>2. CASE owner = j /\ from = "processing"
        BY <1>1, <1>3, <2>1, <3>2 DEF WritePlan, PlanInv, LockInv, Owned
      <3>3. CASE ~(owner = j /\ from = "processing")
        BY <1>3, <3>1, <3>3 DEF Dirs
      <3> QED
        BY <3>2, <3>3
    <2> QED
      BY <1>2, <2>1 DEF OwnerKeepsJob
  <1> QED
    BY <1>13, <1>14, <1>15, <1>16, <1>17 DEF PlanInv

LEMMA MoveStep ==
  ASSUME TypeOK, DiskInv, PlanInv, Move
  PROVE  DiskInv' /\ PlanInv'
  <1> DEFINE j == effect.job
             new == effect.doc
             from == effect.from
             to == QueueDirectories[new.status]
  <1>1. /\ j \in Jobs /\ from \in Dirs /\ new \in Doc
        /\ new.attempt \in Nat
        /\ stage = "move" /\ disk[from][j] = new /\ MovePlan(j, new)
    <2>1. stage = "move"
      BY DEF Move
    <2> QED
      BY <2>1 DEF TypeOK, Effect, PlanInv, EffectInv, Doc
  <1>2. /\ to \in Dirs /\ to # from /\ new.status \in JobStatuses
        /\ to = "queued" => new.status = "QUEUED"
        /\ to = "processing" => new.status = "CLAIMED" /\ lock = "claim"
        /\ to = "completed" => new.status = "COMMITTED"
        /\ to = "dead-letter" => new.status = "DEAD_LETTER"
        /\ lock = "claim" => to = "processing"
    BY <1>1, Directories DEF MovePlan, JobStatuses, Dirs
  <1>3. /\ disk'[from][j] = NoDoc /\ disk'[to][j] = new
        /\ \A d \in Dirs : \A i \in Jobs :
             i # j \/ d \notin {from, to} => disk'[d][i] = disk[d][i]
        /\ UNCHANGED <<acks, lock, todo, effect, owner, phase>>
        /\ stage' = "log"
    BY <1>1, <1>2 DEF Move, Target, TypeOK
  <1>4. NoDoc.status = "ABSENT"
    BY DEF NoDoc
  <1>5. \A d \in Dirs : d # to => disk'[d][j].status = "ABSENT"
    BY <1>1, <1>2, <1>3, <1>4 DEF DiskInv, OneFile, In, JobStatuses
  <1>6. \A i \in Jobs : i # j => deliveries'[i] = deliveries[i]
    BY DEF Move, TypeOK
  <1>7. deliveries'[j] = IF lock = "claim" THEN deliveries[j] + 1
                                           ELSE deliveries[j]
    BY <1>1 DEF Move, TypeOK
  <1>8. deliveries[j] \in Nat /\ MaxAttempts \in Nat
    BY <1>1, DocType, QueueAssumption
  <1>9. CountOK(j)
    BY <1>1 DEF DiskInv, DeliveryInv
  <1>10. /\ lock = "claim" => /\ deliveries[j] < MaxAttempts
                              /\ deliveries[j] < new.attempt
         /\ to = "queued" => /\ deliveries[j] < MaxAttempts
                             /\ deliveries[j] <= new.attempt
    BY <1>1, <1>2, <1>8, <1>9, QueueAssumption
    DEF MovePlan, CountOK, In, JobStatuses
  <1>11. disk'[to][j].status # "ABSENT"
    BY <1>2, <1>3 DEF JobStatuses
  <1> HIDE DEF j, new, from, to
  <1>12. OneFile'
    BY <1>2, <1>3, <1>5 DEF DiskInv, OneFile, In
  <1>13. NoPoisonedFile'
    <2>1. ASSUME NEW i \in Jobs, i # j
          PROVE  \A d \in Dirs : disk'[d][i] = disk[d][i]
      BY <1>3, <2>1
    <2>2. \A d \in Dirs : disk'[d][j].status = IF d = to THEN new.status ELSE "ABSENT"
      BY <1>3, <1>5
    <2> QED
      BY <1>1, <1>2, <2>1, <2>2 DEF DiskInv, NoPoisonedFile, Dirs, Owned
  <1>14. AcknowledgedOnce'
    <2>1. from = "completed" => FALSE
      BY <1>1 DEF MovePlan, from
    <2>2. \A i \in Jobs : disk["completed"][i].status = "COMMITTED"
                          => disk'["completed"][i].status = "COMMITTED"
      BY <1>2, <1>3, <2>1 DEF Dirs
    <2> QED
      BY <1>3, <2>2 DEF DiskInv, AcknowledgedOnce
  <1>15. BoundedDelivery'
    <2>1. ASSUME NEW i \in Jobs  PROVE deliveries'[i] <= MaxAttempts
      <3>1. deliveries[i] <= MaxAttempts
        BY DEF DiskInv, BoundedDelivery
      <3>2. CASE i = j /\ lock = "claim"
        BY <1>7, <1>8, <1>10, <3>2
      <3>3. CASE ~(i = j /\ lock = "claim")
        BY <1>6, <1>7, <3>1, <3>3
      <3> QED
        BY <3>2, <3>3
    <2> QED
      BY <2>1 DEF BoundedDelivery
  <1>16. DeliveryInv'
    <2>1. ASSUME NEW i \in Jobs, i # j  PROVE CountOK(i)'
      BY <1>3, <1>6, <2>1 DEF DiskInv, DeliveryInv, CountOK, Exists, In, Dirs
    <2>2. ASSUME NEW i \in Jobs, i = j  PROVE CountOK(i)'
      <3>1. ~(Exists(i)') => deliveries'[i] = 0
        BY <1>2, <2>2, <1>11 DEF Exists, In
      <3>2. CASE to = "queued"
        BY <1>2, <1>3, <1>5, <1>7, <1>8, <1>10, <2>2, <3>1, <3>2
        DEF CountOK, In, Dirs
      <3>3. CASE to = "processing"
        <4>1. deliveries'[j] <= new.attempt
          BY <1>1, <1>2, <1>7, <1>8, <1>10, <3>3 DEF new
        <4> QED
          BY <1>2, <1>3, <1>5, <2>2, <3>1, <3>3, <4>1 DEF CountOK, In, Dirs
      <3>4. CASE to \in {"completed", "dead-letter"}
        BY <1>2, <1>3, <1>5, <1>7, <2>2, <3>1, <3>4 DEF CountOK, In, Dirs
      <3> QED
        BY <1>2, <3>2, <3>3, <3>4 DEF Dirs
    <2> QED
      BY <2>1, <2>2 DEF DeliveryInv
  <1>17. DiskInv'
    BY <1>12, <1>13, <1>14, <1>15, <1>16 DEF DiskInv
  <1>18. LockInv'
    BY <1>1, <1>3 DEF PlanInv, LockInv
  <1>19. EffectInv'
    <2>1. disk'[to][j] = new /\ to = QueueDirectories[new.status]
          /\ j = effect'.job /\ new = effect'.doc
      BY <1>3 DEF to, new, j
    <2>2. lock \in {"claim", "start"} => new.status \in Owned
      BY <1>1, <1>2 DEF MovePlan, Owned
    <2>3. stage # "idle" /\ effect.ack => new.status = "COMMITTED" /\ acks[j] = 0
      BY DEF PlanInv, EffectInv, j, new
    <2> QED
      BY <1>1, <1>2, <1>3, <2>1, <2>2, <2>3 DEF EffectInv
  <1>20. TodoInv'
    <2>1. j \notin todo
      BY DEF PlanInv, LockInv, j
    <2> QED
      BY <1>3, <2>1 DEF PlanInv, TodoInv, TypeOK, Dirs
  <1>21. OwnerKeepsJob'
    <2>1. ASSUME owner # NoJob, phase # "failed", lock \notin {"commit", "retry"}
          PROVE  disk'["processing"][owner].status \in Owned
      <3>1. disk["processing"][owner].status \in Owned /\ owner \in Jobs
        BY <2>1 DEF PlanInv, OwnerKeepsJob, TypeOK
      <3>2. lock \notin {"claim", "recover"}
        BY <2>1 DEF PlanInv, LockInv
      <3>3. ~(owner = j /\ from = "processing")
        BY <1>1, <2>1, <3>1, <3>2 DEF MovePlan, Owned, from, j
      <3>4. to # "processing"
        BY <1>2, <3>2
      <3> QED
        BY <1>3, <3>1, <3>3, <3>4 DEF Dirs
    <2> QED
      BY <1>3, <2>1 DEF OwnerKeepsJob
  <1> QED
    BY <1>17, <1>18, <1>19, <1>20, <1>21 DEF PlanInv

LEMMA LogStep ==
  ASSUME TypeOK, DiskInv, PlanInv, Log
  PROVE  DiskInv' /\ PlanInv'
  <1> DEFINE j == effect.job
             new == effect.doc
  <1>1. /\ j \in Jobs /\ stage = "log" /\ lock # "free"
        /\ disk[QueueDirectories[new.status]][j] = new
        /\ effect.ack => new.status = "COMMITTED" /\ acks[j] = 0
        /\ lock \in {"claim", "start"} => new.status \in Owned
    BY DEF Log, TypeOK, PlanInv, EffectInv, LockInv
  <1>2. /\ UNCHANGED <<disk, deliveries, todo>>
        /\ stage' = "idle" /\ effect' = NoEffect
        /\ lock' = IF todo = {} THEN "free" ELSE lock
    BY DEF Log
  <1>3. /\ acks' = IF effect.ack THEN [acks EXCEPT ![j] = @ + 1] ELSE acks
        /\ acks \in [Jobs -> Nat]
    BY DEF Log, TypeOK
  <1>4. AcknowledgedOnce'
    <2>1. CASE effect.ack
      <3>1. disk["completed"][j].status = "COMMITTED" /\ acks'[j] = 1
        BY <1>1, <1>3, <2>1, Directories
      <3>2. \A i \in Jobs : i # j => acks'[i] = acks[i]
        BY <1>3, <2>1
      <3> QED
        BY <1>2, <3>1, <3>2 DEF DiskInv, AcknowledgedOnce
    <2>2. CASE ~effect.ack
      BY <1>2, <1>3, <2>2 DEF DiskInv, AcknowledgedOnce
    <2> QED
      BY <2>1, <2>2
  <1>5. DiskInv'
    BY <1>2, <1>4
    DEF DiskInv, DeliveryInv, CountOK, OneFile, NoPoisonedFile,
        BoundedDelivery, In, Exists
  <1>6. /\ lock = "claim" => owner' = j /\ phase' = "claimed"
        /\ lock = "start" => owner' = owner /\ phase' = "processing"
        /\ lock \in {"commit", "retry"} => owner' = NoJob /\ phase' = "none"
        /\ lock \notin {"claim", "start", "commit", "retry"}
              => owner' = owner /\ phase' = phase
    BY DEF Log
  <1>7. LockInv'
    BY <1>1, <1>2, <1>6, QueueAssumption
    DEF PlanInv, LockInv, TypeOK, NoJob, NoEffect, WorkerOps
  <1>8. EffectInv' /\ TodoInv'
    BY <1>1, <1>2 DEF PlanInv, LockInv, EffectInv, TodoInv, NoEffect
  <1>9. OwnerKeepsJob'
    <2>1. CASE lock \in {"claim", "start"}
      <3>1. lock = "start" => owner = j
        BY DEF PlanInv, LockInv
      <3>2. disk["processing"][j].status \in Owned
        BY <1>1, <2>1, Directories DEF Owned
      <3> QED
        BY <1>2, <1>6, <2>1, <3>1, <3>2 DEF OwnerKeepsJob
    <2>2. CASE lock \in {"commit", "retry"}
      BY <1>6, <2>2 DEF OwnerKeepsJob
    <2>3. CASE lock \notin {"claim", "start", "commit", "retry"}
      BY <1>2, <1>6, <2>3 DEF PlanInv, OwnerKeepsJob
    <2> QED
      BY <2>1, <2>2, <2>3
  <1> QED
    BY <1>5, <1>7, <1>8, <1>9 DEF PlanInv

LEMMA InvStep == TypeOK /\ QueueInv /\ [Next]_vars => QueueInv'
  <1>1. QueueInv <=> DiskInv /\ PlanInv
    BY DEF QueueInv, DiskInv, PlanInv
  <1>2. QueueInv' <=> DiskInv' /\ PlanInv'
    BY DEF QueueInv, DiskInv, PlanInv
  <1> SUFFICES ASSUME TypeOK, DiskInv, PlanInv, [Next]_vars
               PROVE  DiskInv' /\ PlanInv'
    BY <1>1, <1>2
  <1>3. CASE UNCHANGED vars
    BY <1>3, DiskFrame, PlanFrame DEF vars, lockVars
  <1> QED
    BY <1>3, HookStep, WorkerStep, OtherStep, WriteStep, MoveStep, LogStep
    DEF Next, Effects

LEMMA InvInit == Init => QueueInv
  <1> SUFFICES ASSUME Init PROVE QueueInv
    OBVIOUS
  <1>0. PICK old \in SUBSET Legacy :
          disk = [d \in Dirs |-> [j \in Jobs |->
                    IF d = "completed" /\ j \in old THEN LegacyDoc ELSE NoDoc]]
    BY DEF Init
  <1>1. \A d \in Dirs, j \in Jobs :
          disk[d][j] = IF d = "completed" /\ j \in old THEN LegacyDoc ELSE NoDoc
    BY <1>0
  <1>2. NoDoc.status = "ABSENT" /\ LegacyDoc.status = "PROCESSING"
    BY DEF NoDoc, LegacyDoc
  <1>3. \A j \in Jobs : acks[j] = 0 /\ deliveries[j] = 0
    BY DEF Init
  <1>4. LockInv /\ EffectInv /\ TodoInv /\ OwnerKeepsJob
    BY QueueAssumption
    DEF Init, LockInv, EffectInv, TodoInv, OwnerKeepsJob, NoEffect, NoJob
  <1>5. OneFile /\ NoPoisonedFile
    BY <1>1, <1>2 DEF OneFile, NoPoisonedFile, In, Dirs, Owned
  <1>6. AcknowledgedOnce /\ BoundedDelivery
    BY <1>3, QueueAssumption DEF AcknowledgedOnce, BoundedDelivery
  <1>7. DeliveryInv
    BY <1>1, <1>2, <1>3 DEF DeliveryInv, CountOK, In, Dirs
  <1> QED
    BY <1>4, <1>5, <1>6, <1>7 DEF QueueInv

\* The inductive invariant: in every reachable state the plan of the lock
\* holder agrees with the disk, and the disk and the counts with each other.
THEOREM QueueInvariant == Spec => []QueueInv
  <1> QED
    BY InvInit, InvStep, TypeCorrect, PTL DEF Spec

\* For any number of jobs, attempts, crashes and requeues a job has one file, and
\* no file stops the passes over its directory.
THEOREM QueueFilesAreSound == Spec => []FilesAreSound
  <1>1. QueueInv => FilesAreSound
    BY DEF QueueInv, FilesAreSound
  <1> QED
    BY <1>1, QueueInvariant, PTL

\* No commit is acknowledged twice, however many of its steps were repeated.
THEOREM QueueAcknowledgesOnce == Spec => []AcknowledgedOnce
  <1>1. QueueInv => AcknowledgedOnce
    BY DEF QueueInv
  <1> QED
    BY <1>1, QueueInvariant, PTL

\* No job is delivered more often than max_attempts allows, whatever crashed.
THEOREM QueueBoundsDelivery == Spec => []BoundedDelivery
  <1>1. QueueInv => BoundedDelivery
    BY DEF QueueInv
  <1> QED
    BY <1>1, QueueInvariant, PTL

\* While the worker runs a job its file stays claimed: nobody takes it away.
THEOREM QueueKeepsOwner == Spec => []OwnerKeepsJob
  <1>1. QueueInv => OwnerKeepsJob
    BY DEF QueueInv
  <1> QED
    BY <1>1, QueueInvariant, PTL
-----------------------------------------------------------------------------
(* Refinement.                                                             *)

\* The directory and the label of the one file of a job decide what the job is
\* to a client.
Meaning(d, status) ==
  CASE d = "completed" -> "done"
    [] d = "queued" -> "ready"
    [] d = "processing" -> (CASE status = "COMMITTED" -> "done"
                              [] status = "QUEUED" -> "ready"
                              [] status \in Owned -> "taken"
                              [] OTHER -> "dead")
    [] d = "dead-letter" -> IF status = "QUEUED" THEN "ready" ELSE "dead"

LEMMA OneFileMeaning ==
  ASSUME NEW files, NEW d \in Dirs, files[d].status # "ABSENT",
         \A c \in Dirs : c # d => files[c].status = "ABSENT"
  PROVE  AbstractOf(files) = Meaning(d, files[d].status)
  <1>1. CASE d = "completed"
    BY <1>1 DEF AbstractOf, Meaning, Dirs, Owned
  <1>2. CASE d = "queued"
    BY <1>2 DEF AbstractOf, Meaning, Dirs, Owned
  <1>3. CASE d = "processing"
    BY <1>3 DEF AbstractOf, Meaning, Dirs, Owned
  <1>4. CASE d = "dead-letter"
    BY <1>4 DEF AbstractOf, Meaning, Dirs, Owned
  <1> QED
    BY <1>1, <1>2, <1>3, <1>4 DEF Dirs

LEMMA NoFileMeaning ==
  ASSUME NEW files, \A c \in Dirs : files[c].status = "ABSENT"
  PROVE  AbstractOf(files) = "new"
  BY DEF AbstractOf

\* A job whose documents stay is the same job to the client.
LEMMA AbstractFrame ==
  ASSUME NEW j \in Jobs, \A d \in Dirs : disk'[d][j] = disk[d][j]
  PROVE  Abstract(j)' = Abstract(j)
  BY DEF Abstract

\* The steps of one job that Delivery knows.
JobStep(from, to, before, after) ==
  \/ from = "new" /\ to = "ready" /\ after = before
  \/ from = "ready" /\ to = "taken" /\ after = before + 1 /\ before < MaxAttempts
  \/ from = "taken" /\ to = "ready" /\ after = before /\ before < MaxAttempts
  \/ from = "taken" /\ to \in {"done", "dead"} /\ after = before
  \/ from = "dead" /\ to = "ready" /\ after = 0
  \/ from = to /\ after = before

LEMMA OneJob ==
  ASSUME NEW j \in Jobs, TypeOK, deliveries' \in [Jobs -> Nat],
         \A i \in Jobs : i # j => /\ \A d \in Dirs : disk'[d][i] = disk[d][i]
                                 /\ deliveries'[i] = deliveries[i],
         JobStep(Abstract(j), Abstract(j)', deliveries[j], deliveries'[j])
  PROVE  [D!Next]_(D!vars)
  <1> DEFINE f == [i \in Jobs |-> Abstract(i)]
             g == [i \in Jobs |-> Abstract(i)']
             to == Abstract(j)'
             n == deliveries'[j]
  <1>1. \A i \in Jobs : i # j => Abstract(i)' = Abstract(i)
    BY AbstractFrame
  <1>2. g = [f EXCEPT ![j] = to] /\ f[j] = Abstract(j)
    BY <1>1
  <1>3. deliveries' = [deliveries EXCEPT ![j] = n] /\ deliveries \in [Jobs -> Nat]
    BY DEF TypeOK
  <1>4. CASE Abstract(j) = to /\ n = deliveries[j]
    <2>1. f' = f
      BY <1>1, <1>4
    <2>2. deliveries' = deliveries
      BY <1>3, <1>4
    <2> QED
      BY <2>1, <2>2 DEF D!vars
  <1>5. CASE ~(Abstract(j) = to /\ n = deliveries[j])
    <2>1. D!Become(j, Abstract(j), to)
      BY <1>2 DEF D!Become
    <2> USE DEF D!Next
    <2>2. CASE Abstract(j) = "new"
      BY <1>3, <1>5, <2>1, <2>2 DEF JobStep, D!Accept
    <2>3. CASE Abstract(j) = "ready"
      BY <1>3, <1>5, <2>1, <2>3 DEF JobStep, D!Deliver
    <2>4. CASE Abstract(j) = "taken" /\ to = "ready"
      BY <1>3, <1>5, <2>1, <2>4 DEF JobStep, D!Return
    <2>5. CASE Abstract(j) = "taken" /\ to = "done"
      BY <1>3, <1>5, <2>1, <2>5 DEF JobStep, D!Finish
    <2>6. CASE Abstract(j) = "taken" /\ to = "dead"
      BY <1>3, <1>5, <2>1, <2>6 DEF JobStep, D!Bury
    <2>7. CASE Abstract(j) = "dead"
      BY <1>3, <1>5, <2>1, <2>7 DEF JobStep, D!Revive
    <2> QED
      BY <1>5, <2>2, <2>3, <2>4, <2>5, <2>6, <2>7 DEF JobStep
  <1> QED
    BY <1>4, <1>5

LEMMA RefineWrite ==
  ASSUME TypeOK, TypeOK', QueueInv, Write
  PROVE  [D!Next]_(D!vars)
  <1> DEFINE j == effect.job
             new == effect.doc
             from == effect.from
             old == disk[from][j]
  <1>1. /\ j \in Jobs /\ from \in Dirs
        /\ stage = "write" /\ WritePlan(j, old, new)
        /\ CountOK(j) /\ deliveries[j] \in Nat /\ OneFile
        /\ new.attempt \in Nat /\ old.attempt \in Nat
    <2>1. stage = "write"
      BY DEF Write
    <2>2. j \in Jobs /\ from \in Dirs /\ new \in Doc
      BY <2>1 DEF TypeOK, Effect
    <2> QED
      BY <2>1, <2>2, DocType DEF QueueInv, EffectInv, DeliveryInv, Doc
  <1>2. /\ disk' = [disk EXCEPT ![from][j] = new]
        /\ deliveries' \in [Jobs -> Nat]
    BY DEF Write, TypeOK
  <1>3. /\ disk'[from][j] = new
        /\ \A d \in Dirs : d # from => disk'[d][j] = disk[d][j]
        /\ \A i \in Jobs : i # j => /\ \A d \in Dirs : disk'[d][i] = disk[d][i]
                                    /\ deliveries'[i] = deliveries[i]
        /\ deliveries'[j] = IF lock = "requeue" THEN 0 ELSE deliveries[j]
    BY <1>1, <1>2 DEF TypeOK, Write
  <1>4. new.status # "ABSENT"
    BY <1>1 DEF WritePlan
  <1>5. \A d \in Dirs : d # from => disk[d][j].status = "ABSENT"
    BY <1>1 DEF WritePlan, OneFile, In, Exists, Owned
  <1>6. Abstract(j)' = Meaning(from, new.status)
    <2> DEFINE files == [d \in Dirs |-> disk'[d][j]]
    <2>1. files[from] = new
          /\ \A d \in Dirs : d # from => files[d].status = "ABSENT"
      BY <1>1, <1>3, <1>5
    <2>2. AbstractOf(files) = Meaning(from, new.status)
      BY <1>1, <1>4, <2>1, OneFileMeaning
    <2> QED
      BY <2>2 DEF Abstract, Write
  <1>7. Abstract(j) = IF old.status = "ABSENT" THEN "new"
                      ELSE Meaning(from, old.status)
    <2> DEFINE files == [d \in Dirs |-> disk[d][j]]
    <2>1. files[from] = old
          /\ \A d \in Dirs : d # from => files[d].status = "ABSENT"
      BY <1>1, <1>5
    <2>2. AbstractOf(files) = IF old.status = "ABSENT" THEN "new"
                              ELSE Meaning(from, old.status)
      BY <1>1, <2>1, OneFileMeaning, NoFileMeaning
    <2> QED
      BY <2>2 DEF Abstract
  <1>8. JobStep(Abstract(j), Abstract(j)', deliveries[j], deliveries'[j])
    <2>1. CASE from = "queued"
      BY <1>1, <1>3, <1>6, <1>7, <2>1
      DEF WritePlan, Meaning, JobStep, Exists, In, Owned
    <2>2. CASE from = "completed"
      BY <1>1, <1>3, <1>6, <1>7, <2>2 DEF WritePlan, Meaning, JobStep, Owned
    <2>3. CASE from = "processing"
      <3>1. deliveries[j] <= old.attempt
        BY <1>1, <2>3 DEF CountOK, In, WritePlan, Owned
      <3>2. new.status = "QUEUED" => deliveries[j] < MaxAttempts
        BY <1>1, <2>3, <3>1, QueueAssumption DEF WritePlan
      <3> QED
        BY <1>1, <1>3, <1>6, <1>7, <2>3, <3>2
        DEF WritePlan, Meaning, JobStep, Owned
    <2>4. CASE from = "dead-letter"
      BY <1>1, <1>3, <1>6, <1>7, <2>4 DEF WritePlan, Meaning, JobStep, Owned
    <2> QED
      BY <1>1, <2>1, <2>2, <2>3, <2>4 DEF Dirs
  <1>9. ASSUME NEW i \in Jobs, i = j  PROVE [D!Next]_(D!vars)
    <2>1. Abstract(i) = Abstract(j) /\ Abstract(i)' = Abstract(j)'
      BY <1>9 DEF Abstract, Write
    <2>2. deliveries'[i] = deliveries'[j]
      BY <1>9
    <2>3. JobStep(Abstract(i), Abstract(i)', deliveries[i], deliveries'[i])
      BY <1>8, <1>9, <2>1, <2>2
    <2> QED
      BY <1>2, <1>3, <1>9, <2>3, OneJob
  <1> QED
    BY <1>1, <1>9

LEMMA RefineMove ==
  ASSUME TypeOK, TypeOK', QueueInv, Move
  PROVE  [D!Next]_(D!vars)
  <1> DEFINE j == effect.job
             new == effect.doc
             from == effect.from
             to == QueueDirectories[new.status]
  <1>1. /\ j \in Jobs /\ from \in Dirs /\ stage = "move"
        /\ disk[from][j] = new /\ MovePlan(j, new)
        /\ CountOK(j) /\ deliveries[j] \in Nat /\ OneFile
    <2>1. stage = "move"
      BY DEF Move
    <2> QED
      BY <2>1 DEF TypeOK, Effect, QueueInv, EffectInv, DeliveryInv
  <1>2. /\ to \in Dirs /\ to # from /\ new.status \in JobStatuses
        /\ lock = "claim" <=> to = "processing"
        /\ lock = "claim" => from = "queued" /\ new.status = "CLAIMED"
        /\ lock # "claim" => /\ from \in {"processing", "dead-letter"}
                             /\ new.status \in {"COMMITTED", "QUEUED", "DEAD_LETTER"}
                             /\ new.status = "QUEUED" <=> to = "queued"
                             /\ new.status = "COMMITTED" <=> to = "completed"
                             /\ from = "dead-letter" => new.status = "QUEUED"
    BY <1>1, Directories DEF MovePlan, JobStatuses, Dirs
  <1>3. /\ disk'[from][j] = NoDoc /\ disk'[to][j] = new
        /\ \A d \in Dirs : d \notin {from, to} => disk'[d][j] = disk[d][j]
        /\ \A i \in Jobs : i # j => /\ \A d \in Dirs : disk'[d][i] = disk[d][i]
                                    /\ deliveries'[i] = deliveries[i]
        /\ deliveries' \in [Jobs -> Nat]
        /\ effect' = effect
        /\ deliveries'[j] = IF lock = "claim" THEN deliveries[j] + 1
                                              ELSE deliveries[j]
    BY <1>1, <1>2 DEF Move, Target, TypeOK
  <1>4. new.status # "ABSENT" /\ NoDoc.status = "ABSENT"
    BY <1>2 DEF JobStatuses, NoDoc
  <1>5. /\ \A d \in Dirs : d # from => disk[d][j].status = "ABSENT"
        /\ \A d \in Dirs : d # to => disk'[d][j].status = "ABSENT"
    BY <1>1, <1>2, <1>3, <1>4 DEF OneFile, In
  <1>6. AbstractOf([d \in Dirs |-> disk'[d][j]]) = Meaning(to, new.status)
    <2> DEFINE files == [d \in Dirs |-> disk'[d][j]]
    <2>1. files[to] = new
          /\ \A d \in Dirs : d # to => files[d].status = "ABSENT"
      BY <1>2, <1>3, <1>5
    <2> QED
      BY <1>2, <1>4, <2>1, OneFileMeaning
  <1>7. AbstractOf([d \in Dirs |-> disk[d][j]]) = Meaning(from, new.status)
    <2> DEFINE files == [d \in Dirs |-> disk[d][j]]
    <2>1. files[from] = new
          /\ \A d \in Dirs : d # from => files[d].status = "ABSENT"
      BY <1>1, <1>5
    <2> QED
      BY <1>1, <1>4, <2>1, OneFileMeaning
  <1>8. JobStep(Meaning(from, new.status), Meaning(to, new.status),
                deliveries[j], deliveries'[j])
    <2>1. CASE lock = "claim"
      <3>1. deliveries[j] < MaxAttempts
        BY <1>1, <1>2, <1>4, <2>1 DEF CountOK, In
      <3> QED
        BY <1>2, <1>3, <2>1, <3>1 DEF Meaning, JobStep, Owned
    <2>2. CASE lock # "claim"
      BY <1>2, <1>3, <2>2 DEF Meaning, JobStep, Owned, Dirs
    <2> QED
      BY <2>1, <2>2
  <1>9. ASSUME NEW i \in Jobs, i = j  PROVE [D!Next]_(D!vars)
    <2>1. JobStep(Abstract(i), Abstract(i)', deliveries[i], deliveries'[i])
      BY <1>6, <1>7, <1>8, <1>9 DEF Abstract
    <2> QED
      BY <1>3, <1>9, <2>1, OneJob
  <1> QED
    BY <1>1, <1>9

\* Nothing but Write and Move is a step of Delivery.
LEMMA RefineStep ==
  TypeOK /\ TypeOK' /\ QueueInv /\ [Next]_vars => [D!Next]_(D!vars)
  <1> SUFFICES ASSUME TypeOK, TypeOK', QueueInv, [Next]_vars
               PROVE  [D!Next]_(D!vars)
    OBVIOUS
  <1>1. CASE Write
    BY <1>1, RefineWrite
  <1>2. CASE Move
    BY <1>2, RefineMove
  <1>3. CASE UNCHANGED <<disk, deliveries>>
    BY <1>3 DEF D!vars, Abstract
  <1>4. \/ Write \/ Move \/ UNCHANGED <<disk, deliveries>>
    <2> USE DEF history, lockVars
    <2>1. ASSUME NEW j \in Jobs, Hooks(j) \/ Worker(j) \/ LeaseLapses(j)
          PROVE  UNCHANGED <<disk, deliveries>>
      BY <2>1
      DEF Hooks, Enqueue, EnqueueReconcile, EnqueueDuplicate, Begin, Worker,
          ClaimNext, StartProcessing, Commit, Fails, RetryOrDeadLetter,
          RetryRefused, Renew, RecoverJob, RecoverUnclosed, RecoverMisplaced,
          RecoverExpired, Visit, LeaseLapses
    <2>2. ASSUME RecoverExpiredClaims \/ Operator \/ Failures \/ Log
          PROVE  UNCHANGED <<disk, deliveries>>
      BY <2>2
      DEF RecoverExpiredClaims, Operator, RequeueDeadLetters, RequeueJob, Sweep,
          Visit, Failures, HolderCrashes, WorkerCrashes, OperationFails, Fault,
          Log
    <2> QED
      BY <2>1, <2>2 DEF Next, Effects, vars
  <1> QED
    BY <1>1, <1>2, <1>3, <1>4

LEMMA RefineInit == Init => D!Init
  <1> SUFFICES ASSUME Init PROVE D!Init
    OBVIOUS
  <1>1. ASSUME NEW j \in Jobs  PROVE Abstract(j) \in {"new", "done"}
    <2>0. PICK old \in SUBSET Legacy :
            disk = [d \in Dirs |-> [i \in Jobs |->
                      IF d = "completed" /\ i \in old THEN LegacyDoc ELSE NoDoc]]
      BY DEF Init
    <2>1. /\ NoDoc.status = "ABSENT" /\ LegacyDoc.status = "PROCESSING"
          /\ \A d \in Dirs : disk[d][j] = IF d = "completed" /\ j \in old
                                         THEN LegacyDoc ELSE NoDoc
      BY <2>0 DEF NoDoc, LegacyDoc
    <2> QED
      BY <2>1 DEF Abstract, AbstractOf, Dirs
  <1> QED
    BY <1>1 DEF Init, D!Init

\* The queue implements Delivery for every value of the constants: jobs are
\* accepted once, delivered at most max_attempts times between two revivals,
\* never reopened once done; crashes, retries of effects and the repair of
\* half-done operations are invisible to a client.
THEOREM QueueImplementsDelivery == Spec => ImplementsDelivery
  <1> QED
    BY RefineInit, RefineStep, TypeCorrect, QueueInvariant, PTL
    DEF Spec, ImplementsDelivery, D!Spec
=============================================================================

---------------------------- MODULE CaptureWorker ----------------------------
(***************************************************************************)
(* The worker of src/brain_eleven/runtime/worker.py on one session: the    *)
(* jobs of the session share a transcript that keeps growing and one       *)
(* checkpoint file.  An attempt reads the transcript in chunks from the    *)
(* checkpoint to its end, turns every message into a canonical effect or a *)
(* review item, writes the receipt, then the checkpoint, then commits.  A  *)
(* crash or an exception between any two of these leaves the job to a      *)
(* later attempt.                                                          *)
(*                                                                         *)
(* The queue is used through what it promises: Delivery, which             *)
(* CaptureQueueProofs shows CaptureQueue to implement.                     *)
(***************************************************************************)
EXTENDS Integers, FiniteSets

CONSTANTS Jobs,          \* capture jobs of the session (one per SessionEnd hook)
          MaxAttempts,   \* max_attempts of the queue
          Messages,      \* length of the longest transcript
          Kind,          \* what the extractor makes of each message
          Item,          \* the message that gave the review item its candidate
          Chunk,         \* messages in one read (2 MiB in the code)
          Modes,         \* runtime modes the owner switches between
          MaxRevivals    \* bound on dead letters returned by the operator

Msgs == 1..Messages

\* noise: no candidate.  review: a candidate that always needs a person.
\* memory, state, phase: applied without a person in ACTIVE mode, as a memory,
\* as a record appended to the project state (blocker, requirement), or as the
\* project's current milestone.  unsafe: a candidate that passes the extractor's
\* safety policy but neither apply_candidate nor ReviewStore.add takes.
Kinds == {"noise", "review", "memory", "state", "phase", "unsafe"}

ASSUME MessagesAssumption == Messages \in Nat
ASSUME KindAssumption == Kind \in [Msgs -> Kinds]

ASSUME AttemptsAssumption == MaxAttempts \in Nat \ {0}
\* ReviewStore.add answers a candidate of the same words with the item that is
\* there: event_fingerprint leaves the extractor's evidence out, which is a tuple.
\* So a sentence said again shares the item of the message that said it first.
\* (That two roles say the same words, one for a person and one not, is left out.)
ASSUME ItemAssumption ==
  /\ Item \in [Msgs -> Msgs]
  /\ \A m \in Msgs : Item[m] <= m /\ Item[Item[m]] = Item[m] /\ Kind[Item[m]] = Kind[m]

\* APPROVAL is ACTIVE where a person approves everything (b1_human_approval),
\* OUTSIDE is ACTIVE while the project is not among those the owner enabled.
AllModes == {"OFF", "SHADOW", "APPROVAL", "OUTSIDE", "ACTIVE"}

ASSUME ChunkAssumption == Chunk \in Nat \ {0}
ASSUME ModesAssumption == Modes \subseteq AllModes
ASSUME RevivalsAssumption == MaxRevivals \in Nat

VARIABLES job,        \* state of each job in the queue
          tries,      \* its deliveries
          written,    \* messages in the transcript so far
          mode,       \* mode, approval switch and scope in the configuration file
          cursor,     \* the session's checkpoint file (0: none yet)
          receipt,    \* capture-receipts/<job>.json
          oplog,      \* operation receipts of the canonical stores, by message
          applied,    \* canonical records made from each message
          milestone,  \* the current milestone: the message that set it
          open,       \* whether that milestone is still unfinished
          review,     \* review item of each message that gave one its candidate
          worker,     \* the attempt in progress
          revivals,   \* dead letters returned by the operator so far
          heard,      \* history: transcript length when the job was queued
          blame       \* history: attempts of the job that met a fault

queue == <<job, tries>>
stores == <<oplog, applied, milestone, open, review>>
history == <<revivals, heard, blame>>
vars == <<queue, written, mode, cursor, receipt, stores, worker, history>>

Q == INSTANCE Delivery WITH state <- job, tries <- tries

None == 0
ByHand == -1

\* The lists of a receipt: that a review item stands there twice is remembered.
Receipts ==
  [cursor : 0..Messages, ops : SUBSET Msgs, reviews : SUBSET Msgs, twice : BOOLEAN]
NoReceipt == [cursor |-> -1, ops |-> {}, reviews |-> {}, twice |-> FALSE]

Phases == {"idle", "claimed", "reading", "applying", "receipted", "saved"}
Attempts ==
  [phase : Phases, job : Jobs \union {None}, first : BOOLEAN, more : BOOLEAN,
   at : 0..Messages, to : 0..Messages, ops : SUBSET Msgs, reviews : SUBSET Msgs,
   twice : BOOLEAN]
Idle == [phase |-> "idle", job |-> None, first |-> TRUE, more |-> FALSE,
         at |-> 0, to |-> 0, ops |-> {}, reviews |-> {}, twice |-> FALSE]

-----------------------------------------------------------------------------
(* The session, the owner and the hook.                                    *)

Init ==
  /\ job = [j \in Jobs |-> "new"]
  /\ tries = [j \in Jobs |-> 0]
  /\ written = 0
  /\ mode \in Modes
  /\ cursor = 0
  /\ receipt = [j \in Jobs |-> NoReceipt]
  /\ oplog = {}
  /\ applied = [m \in Msgs |-> 0]
  /\ milestone = None
  /\ open = FALSE
  /\ review = [m \in Msgs |-> "none"]
  /\ worker = Idle
  /\ revivals = 0
  /\ heard = [j \in Jobs |-> 0]
  /\ blame = [j \in Jobs |-> 0]

\* The client appends a message; the transcript is not under src/ control.
Speak ==
  /\ written < Messages
  /\ written' = written + 1
  /\ UNCHANGED <<queue, mode, cursor, receipt, stores, worker, history>>

SetMode ==
  /\ mode' \in Modes \ {mode}
  /\ UNCHANGED <<queue, written, cursor, receipt, stores, worker, history>>

\* The project is served: what worker.enqueue and apply_candidate ask for.
Serving == mode \notin {"OFF", "OUTSIDE"}

\* worker.enqueue: the SessionEnd hook queues a job.
Enqueue(j) ==
  /\ Serving
  /\ Q!Accept(j)
  /\ heard' = [heard EXCEPT ![j] = written]
  /\ UNCHANGED <<written, mode, cursor, receipt, stores, worker, revivals, blame>>

\* worker --retry-dead-letter: the job starts over.
Revive(j) ==
  /\ revivals < MaxRevivals
  /\ Q!Revive(j)
  /\ revivals' = revivals + 1
  /\ blame' = [blame EXCEPT ![j] = 0]
  /\ UNCHANGED <<written, mode, cursor, receipt, stores, worker, heard>>

\* A record of its own for the decision of a person: the operation identity
\* comes from the review item, not from the candidate.  An equal memory is
\* recognised by its fingerprint; equal state records are not.
RecordOf(m) ==
  IF Kind[m] = "memory" /\ \E i \in Msgs : Item[i] = Item[m] /\ applied[i] > 0
  THEN applied
  ELSE [applied EXCEPT ![m] = @ + 1]

\* review_action(accept); ReviewDesk models the steps of an acceptance.
AcceptReview(m) ==
  /\ Serving
  /\ review[m] = "pending"
  /\ Kind[m] = "phase" => ~open
  /\ review' = [review EXCEPT ![m] = "closed"]
  /\ applied' = RecordOf(m)
  /\ IF Kind[m] = "phase"
     THEN milestone' = ByHand /\ open' = TRUE
     ELSE UNCHANGED <<milestone, open>>
  /\ UNCHANGED <<queue, written, mode, cursor, receipt, oplog, worker, history>>

\* review_action(reject) and ReviewStore.expire.
CloseReview(m) ==
  /\ review[m] = "pending"
  /\ review' = [review EXCEPT ![m] = "closed"]
  /\ UNCHANGED <<queue, written, mode, cursor, receipt, oplog, applied, milestone,
                 open, worker, history>>

\* transition_milestone to COMPLETED or CANCELLED, by the owner.
FinishMilestone ==
  /\ open
  /\ open' = FALSE
  /\ UNCHANGED <<queue, written, mode, cursor, receipt, oplog, applied, milestone,
                 review, worker, history>>

\* set_current_milestone by the owner: only after the last one is finished.
SetMilestone ==
  /\ ~open
  /\ milestone' = ByHand
  /\ open' = TRUE
  /\ UNCHANGED <<queue, written, mode, cursor, receipt, oplog, applied, review,
                 worker, history>>

-----------------------------------------------------------------------------
(* The end of an attempt that does not commit.                             *)

\* retry_or_dead_letter: back to the queue while a delivery is left.
AttemptEnds(j) == IF tries[j] < MaxAttempts THEN Q!Return(j) ELSE Q!Bury(j)

Blamed(j, n) == blame' = [blame EXCEPT ![j] = @ + n]

\* An exception from outside: I/O, a lock timeout, a scope switched off, a
\* revision conflict with another writer.
Fault ==
  /\ worker.phase # "idle"
  /\ AttemptEnds(worker.job)
  /\ Blamed(worker.job, 1)
  /\ worker' = Idle
  /\ UNCHANGED <<written, mode, cursor, receipt, stores, revivals, heard>>

\* The transcript is not this session's: a verdict, buried at once.
OwnershipRefused ==
  /\ worker.phase = "reading"
  /\ Q!Bury(worker.job)
  /\ Blamed(worker.job, MaxAttempts)
  /\ worker' = Idle
  /\ UNCHANGED <<written, mode, cursor, receipt, stores, revivals, heard>>

\* The process dies; the job stays claimed until its lease has lapsed.
Crash ==
  /\ worker.phase # "idle"
  /\ Blamed(worker.job, 1)
  /\ worker' = Idle
  /\ UNCHANGED <<queue, written, mode, cursor, receipt, stores, revivals, heard>>

\* The code itself rejects what it finds: no fault of anybody's.
Refused ==
  /\ AttemptEnds(worker.job)
  /\ worker' = Idle
  /\ UNCHANGED <<written, mode, cursor, receipt, stores, history>>

-----------------------------------------------------------------------------
(* Worker.once                                                             *)

\* Bug: a claim whose last delivery expired is left where it is.
RecoverWhileLeft(j) ==
  /\ worker.phase = "idle" /\ mode # "OFF"
  /\ job[j] = "taken" /\ tries[j] < MaxAttempts
  /\ Q!Return(j)
  /\ UNCHANGED <<written, mode, cursor, receipt, stores, worker, history>>

\* recover_expired_claims, at the start of once().
Recover(j) ==
  /\ worker.phase = "idle" /\ mode # "OFF"
  /\ job[j] = "taken"
  /\ AttemptEnds(j)
  /\ UNCHANGED <<written, mode, cursor, receipt, stores, worker, history>>

\* claim_next and start_processing.
Claim(j) ==
  /\ worker.phase = "idle" /\ mode # "OFF"
  /\ Q!Deliver(j)
  /\ worker' = [Idle EXCEPT !.phase = "claimed", !.job = j]
  /\ UNCHANGED <<written, mode, cursor, receipt, stores, history>>

\* Bug: a review item that was decided meanwhile no longer proves its effect.
ProvenWhilePending(r) ==
  /\ ~r.twice
  /\ r.ops \subseteq oplog
  /\ \A m \in r.ops : Kind[m] = "phase" => milestone = m
  /\ \A m \in r.reviews : review[m] = "pending"

\* _verify_receipt_operations: no review item is listed twice, every operation
\* has its receipt and its record still exists, every review item is still on disk.
Proven(r) ==
  /\ ~r.twice
  /\ r.ops \subseteq oplog
  /\ \A m \in r.ops : Kind[m] = "phase" => milestone = m
  /\ \A m \in r.reviews : review[m] # "none"

\* No receipt: process() reads the checkpoint.
StartReading ==
  /\ worker.phase = "claimed"
  /\ receipt[worker.job] = NoReceipt
  /\ worker' = [worker EXCEPT !.phase = "reading", !.at = cursor]
  /\ UNCHANGED <<queue, written, mode, cursor, receipt, stores, history>>

\* A receipt of an earlier attempt: its cursor is restored, no message is read.
ReplayReceipt ==
  LET r == receipt[worker.job] IN
  /\ worker.phase = "claimed"
  /\ r # NoReceipt /\ Proven(r)
  /\ cursor' = r.cursor
  /\ worker' = [worker EXCEPT !.phase = "applying", !.at = r.cursor, !.to = r.cursor,
                              !.ops = r.ops, !.reviews = r.reviews, !.twice = r.twice]
  /\ UNCHANGED <<queue, written, mode, receipt, stores, history>>

\* CANONICAL_RECEIPT_MISMATCH
ReceiptRefused ==
  /\ worker.phase = "claimed"
  /\ receipt[worker.job] # NoReceipt /\ ~Proven(receipt[worker.job])
  /\ Refused

\* read() returns a full buffer or what is left of the file.
Least(x, y) == IF x < y THEN x ELSE y

\* Bug: a full chunk is taken for the last one.
NoMore(n) == FALSE

\* has_more of read_increment: the read filled its buffer.
HasMore(n) == n = Chunk

\* Bug: the checkpoint is saved with the read, before the effects.
ReadAndSave ==
  LET to == Least(worker.at + Chunk, written) IN
  /\ worker.phase = "reading"
  /\ mode # "OUTSIDE" /\ (worker.first \/ mode # "OFF")
  /\ cursor' = to
  /\ worker' = [worker EXCEPT !.phase = "applying", !.first = FALSE, !.to = to,
                              !.more = HasMore(to - worker.at)]
  /\ UNCHANGED <<queue, written, mode, receipt, stores, history>>

\* read_increment: up to a chunk of messages; process looks at the scope before
\* every chunk, once() at the mode before the later ones.
ReadIncrement ==
  LET to == Least(worker.at + Chunk, written) IN
  /\ worker.phase = "reading"
  /\ mode # "OUTSIDE" /\ (worker.first \/ mode # "OFF")
  /\ worker' = [worker EXCEPT !.phase = "applying", !.first = FALSE, !.to = to,
                              !.more = HasMore(to - worker.at)]
  /\ UNCHANGED <<queue, written, mode, cursor, receipt, stores, history>>

\* RUNTIME_STOPPED and SCOPE_DISABLED
RuntimeStopped ==
  /\ worker.phase = "reading"
  /\ mode = "OUTSIDE" \/ (~worker.first /\ mode = "OFF")
  /\ Fault

-----------------------------------------------------------------------------
(* One message of the chunk.                                               *)

Automatic(m) == Kind[m] \in {"memory", "state", "phase"}

AtMessage(m) ==
  /\ worker.phase = "applying" /\ worker.at < worker.to
  /\ m = worker.at + 1

Skip(m) ==
  /\ AtMessage(m)
  /\ Kind[m] = "noise"
  /\ worker' = [worker EXCEPT !.at = m]
  /\ UNCHANGED <<queue, written, mode, cursor, receipt, stores, history>>

\* _add_review: the item of these words, a new one if there is none; an item that
\* is no longer pending is not an effect of this job.  An automatic candidate comes
\* here in SHADOW and APPROVAL, when apply_candidate finds the mode OFF after the
\* worker had found it on or the project out of scope (SCOPE_ERROR), and when the
\* memory store finds it in conflict with another memory (DEGRADED).
AddReview(m) ==
  LET i == Item[m] IN
  /\ AtMessage(m)
  /\ Kind[m] \in {"review", "memory"} \/ (Automatic(m) /\ mode # "ACTIVE")
  /\ review' = [review EXCEPT ![i] = IF @ = "none" THEN "pending" ELSE @]
  /\ worker' = IF review[i] = "closed" THEN [worker EXCEPT !.at = m]
               ELSE [worker EXCEPT !.at = m, !.reviews = @ \union {i},
                                   !.twice = @ \/ i \in worker.reviews]
  /\ UNCHANGED <<queue, written, mode, cursor, receipt, oplog, applied, milestone,
                 open, history>>

Applied(m) == worker' = [worker EXCEPT !.at = m, !.ops = @ \union {m}]

\* Bug: the effect is made again although its operation receipt is there.
FreshAlways(m) == TRUE

\* The store has no receipt of this operation.
Fresh(m) == m \notin oplog

\* apply_candidate: the effect and its operation receipt in one transaction.
Apply(m) ==
  /\ AtMessage(m)
  /\ Automatic(m) /\ mode = "ACTIVE"
  /\ Fresh(m)
  /\ Kind[m] = "phase" => ~open
  /\ oplog' = oplog \union {m}
  /\ applied' = RecordOf(m)
  /\ IF Kind[m] = "phase"
     THEN milestone' = m /\ open' = TRUE
     ELSE UNCHANGED <<milestone, open>>
  /\ Applied(m)
  /\ UNCHANGED <<queue, written, mode, cursor, receipt, review, history>>

\* The operation receipt answers; _verify_canonical_effect wants the record.
Reapply(m) ==
  /\ AtMessage(m)
  /\ Automatic(m) /\ mode = "ACTIVE"
  /\ m \in oplog
  /\ Kind[m] = "phase" => milestone = m
  /\ Applied(m)
  /\ UNCHANGED <<queue, written, mode, cursor, receipt, stores, history>>

\* INVALID_TRANSITION (the current milestone is unfinished), or
\* CANONICAL_EFFECT_UNVERIFIED (the milestone has been replaced since).
ApplyRefused(m) ==
  /\ AtMessage(m)
  /\ Kind[m] = "phase" /\ mode = "ACTIVE"
  /\ IF m \in oplog THEN milestone # m ELSE open
  /\ Refused

\* REJECTED by apply_candidate, or REVIEW_PERSIST_FAILED.
Unwelcome(m) ==
  /\ AtMessage(m)
  /\ Kind[m] = "unsafe"
  /\ Refused

StoppedDuringProcessing(m) ==
  /\ AtMessage(m)
  /\ Automatic(m) /\ mode = "OFF"
  /\ Fault

NextChunk ==
  /\ worker.phase = "applying" /\ worker.at = worker.to /\ worker.more
  /\ worker' = [worker EXCEPT !.phase = "reading"]
  /\ UNCHANGED <<queue, written, mode, cursor, receipt, stores, history>>

-----------------------------------------------------------------------------
(* Receipt, checkpoint, acknowledgement.                                   *)

WriteReceipt ==
  /\ worker.phase = "applying" /\ worker.at = worker.to /\ ~worker.more
  /\ receipt' = [receipt EXCEPT ![worker.job] =
       [cursor |-> worker.to, ops |-> worker.ops, reviews |-> worker.reviews,
        twice |-> worker.twice]]
  /\ worker' = [worker EXCEPT !.phase = "receipted"]
  /\ UNCHANGED <<queue, written, mode, cursor, stores, history>>

PersistCheckpoint ==
  /\ worker.phase = "receipted"
  /\ cursor' = worker.to
  /\ worker' = [worker EXCEPT !.phase = "saved"]
  /\ UNCHANGED <<queue, written, mode, receipt, stores, history>>

Commit ==
  /\ worker.phase = "saved"
  /\ Q!Finish(worker.job)
  /\ worker' = Idle
  /\ UNCHANGED <<written, mode, cursor, receipt, stores, history>>

-----------------------------------------------------------------------------

AtWork ==
  \/ StartReading
  \/ ReplayReceipt
  \/ ReceiptRefused
  \/ ReadIncrement
  \/ RuntimeStopped
  \/ \E m \in Msgs :
       \/ Skip(m)
       \/ AddReview(m)
       \/ Apply(m)
       \/ Reapply(m)
       \/ ApplyRefused(m)
       \/ Unwelcome(m)
       \/ StoppedDuringProcessing(m)
  \/ NextChunk
  \/ WriteReceipt
  \/ PersistCheckpoint
  \/ Commit

Once ==
  \/ \E j \in Jobs : Recover(j) \/ Claim(j)
  \/ AtWork

Around ==
  \/ Speak
  \/ SetMode
  \/ \E j \in Jobs : Enqueue(j) \/ Revive(j)
  \/ \E m \in Msgs : AcceptReview(m) \/ CloseReview(m)
  \/ FinishMilestone
  \/ SetMilestone

Faults == Fault \/ OwnershipRefused \/ Crash

Next == Once \/ Around \/ Faults

Spec == Init /\ [][Next]_vars

(* While the worker process runs, once() is called again and again and its *)
(* steps go on; faults, the owner and the client are free.                 *)
Fairness ==
  /\ WF_vars(AtWork)
  /\ \A j \in Jobs : WF_vars(Recover(j)) /\ WF_vars(Claim(j))

FairSpec == Spec /\ Fairness

-----------------------------------------------------------------------------
(* Properties.                                                             *)

\* Every variable keeps its type; the checkpoint and the receipts stay within
\* the longest transcript.
TypeOK ==
  /\ Q!TypeOK
  /\ written \in 0..Messages
  /\ mode \in Modes
  /\ cursor \in 0..Messages
  /\ receipt \in [Jobs -> Receipts \union {NoReceipt}]
  /\ oplog \subseteq Msgs
  /\ applied \in [Msgs -> Nat]
  /\ milestone \in Msgs \union {None, ByHand}
  /\ open \in BOOLEAN
  /\ review \in [Msgs -> {"none", "pending", "closed"}]
  /\ worker \in Attempts
  /\ revivals \in 0..MaxRevivals
  /\ heard \in [Jobs -> 0..Messages]
  /\ blame \in [Jobs -> Nat]

\* A message is dealt with when it had nothing to offer, its effect is in a
\* canonical store, or its words were put before a person.
Handled(m) == Kind[m] = "noise" \/ m \in oplog \/ review[Item[m]] # "none"

\* The checkpoint never passes a message that was not dealt with, whatever
\* crashes, mode changes and receipt replays came before (worker.process keeps
\* the cursor in memory and once() persists it last).
NothingSkipped == \A m \in 1..cursor : Handled(m)

\* An acknowledged job has a receipt, and everything said in the session before
\* its hook fired is dealt with, although the job may have been committed by a
\* later attempt from an earlier receipt, and jobs share the checkpoint.
CommittedIsCovered ==
  \A j \in Jobs : job[j] = "done" =>
    /\ receipt[j] # NoReceipt
    /\ \A m \in 1..heard[j] : Handled(m)

\* An attempt holds its job and has dealt with all it has passed.
AttemptInv ==
  worker.phase # "idle" =>
    /\ worker.job \in Jobs /\ job[worker.job] = "taken"
    /\ worker.at <= written
    /\ \A m \in 1..worker.at : Handled(m)

\* The last chunk of an attempt reaches what was said before the hook fired.
ChunkInv ==
  worker.phase \in {"applying", "receipted", "saved"} =>
    /\ worker.at <= worker.to /\ worker.to <= written
    /\ worker.more \/ heard[worker.job] <= worker.to
    /\ worker.phase # "applying" =>
         worker.at = worker.to /\ receipt[worker.job] # NoReceipt

\* So does a receipt, and only a job with a receipt is done.
JobInv(j) ==
  /\ heard[j] <= written
  /\ receipt[j] # NoReceipt => heard[j] <= receipt[j].cursor
  /\ receipt[j].cursor <= written
  /\ \A m \in 1..receipt[j].cursor : Handled(m)
  /\ job[j] = "new" => receipt[j] = NoReceipt
  /\ job[j] = "done" => receipt[j] # NoReceipt

\* Why NothingSkipped and CommittedIsCovered hold (Worker.once writes receipt,
\* checkpoint and acknowledgement in this order, after all the effects).
WorkerInv ==
  /\ AttemptInv
  /\ ChunkInv
  /\ cursor <= written /\ NothingSkipped
  /\ \A j \in Jobs : JobInv(j)

\* While the mode, the approval switch and the scope of the project stay what they
\* are, no message makes two canonical records, neither by redelivery nor by a
\* person accepting its review item.  (Switched between two deliveries, the code
\* may apply what is before a person already; the backfill command, which offers
\* old sessions to a person once more, is not part of this module.)
ExactlyOnce == \A m \in Msgs : applied[m] <= 1

\* The session said nothing that the code itself refuses (a second milestone, or a
\* candidate that neither apply_candidate nor ReviewStore.add takes), and nothing
\* twice: two messages that share a review item make a receipt that lists it twice,
\* which no replay accepts (UntamperedReviewReplays).
Plain == \A m \in 1..written : Kind[m] \notin {"phase", "unsafe"} /\ Item[m] = m

\* A dead letter is the work of faults: after a session that was plain, a job is
\* buried only when every one of its attempts met one (or its transcript was
\* another session's).
BuriedByFaultsOnly ==
  Plain => \A j \in Jobs : job[j] = "dead" => blame[j] >= MaxAttempts

\* What the test of the receipt window says (a crash after the canonical effects
\* replays safely): a job whose effects were proved by a receipt is not buried
\* while it has met fewer faults than it has attempts.
CrashReplaysSafely ==
  \A j \in Jobs :
    job[j] = "dead" /\ receipt[j] # NoReceipt => blame[j] >= MaxAttempts

\* What the test of a review item's replay says (the replay check must accept it,
\* or the job never acks): a job whose receipt names review items and nothing else
\* is not buried while it has met fewer faults than it has attempts.
UntamperedReviewReplays ==
  \A j \in Jobs :
    job[j] = "dead" /\ receipt[j] # NoReceipt /\ receipt[j].ops = {} =>
      blame[j] >= MaxAttempts

\* If the runtime is not switched off for good, whatever was said before a hook
\* fired is dealt with, or the job that should have done it is a dead letter.
SpokenIsHandled ==
  <>[](mode # "OFF") =>
    \A j \in Jobs : \A m \in Msgs :
      (job[j] = "ready" /\ m <= heard[j]) ~> (Handled(m) \/ job[j] = "dead")
=============================================================================

------------------------- MODULE CaptureWorkerProofs -------------------------
(***************************************************************************)
(* The safety properties of CaptureWorker for every number of jobs,        *)
(* attempts and messages, every chunk size and every mix of messages.      *)
(***************************************************************************)
EXTENDS CaptureWorker, TLAPS

USE DEF queue, stores, history

LEMMA Parameters ==
  /\ MaxAttempts \in Nat \ {0} /\ Messages \in Nat /\ Chunk \in Nat \ {0}
  /\ MaxRevivals \in Nat
  /\ Msgs = 1 .. Messages
  BY AttemptsAssumption, MessagesAssumption, ChunkAssumption, RevivalsAssumption
     DEF Msgs

\* A message and the one that gave its review item the words are of one kind.
LEMMA SameWords ==
  ASSUME NEW m \in Msgs
  PROVE  Item[m] \in Msgs /\ Kind[Item[m]] = Kind[m]
  BY ItemAssumption

\* What the queue does with a job when an attempt ends without a commit.
LEMMA AttemptEndsQueue ==
  ASSUME TypeOK, NEW j, AttemptEnds(j)
  PROVE  /\ job[j] = "taken"
         /\ \/ tries[j] < MaxAttempts /\ job' = [job EXCEPT ![j] = "ready"]
            \/ ~(tries[j] < MaxAttempts) /\ job' = [job EXCEPT ![j] = "dead"]
         /\ UNCHANGED tries
  BY DEF AttemptEnds, Q!Return, Q!Bury, Q!Become

LEMMA LeastIsLeast ==
  ASSUME NEW x \in Int, NEW y \in Int
  PROVE  /\ Least(x, y) \in {x, y}
         /\ Least(x, y) <= x /\ Least(x, y) <= y
  BY DEF Least

-----------------------------------------------------------------------------
(* Type correctness.                                                       *)

LEMMA IdleType == Idle \in Attempts
  BY Parameters DEF Idle, Attempts, Phases

\* The attempt after one message.
LEMMA PassedType ==
  ASSUME worker \in Attempts, NEW m \in Msgs, NEW i \in Msgs
  PROVE  /\ [worker EXCEPT !.at = m] \in Attempts
         /\ [worker EXCEPT !.at = m, !.ops = @ \union {m}] \in Attempts
         /\ [worker EXCEPT !.at = m, !.reviews = @ \union {i},
                           !.twice = @ \/ i \in worker.reviews] \in Attempts
  <1>1. m \in 0 .. Messages
    BY Parameters
  <1>2. /\ worker.ops \union {m} \in SUBSET Msgs
        /\ worker.reviews \union {i} \in SUBSET Msgs
        /\ (worker.twice \/ i \in worker.reviews) \in BOOLEAN
    BY DEF Attempts
  <1> QED
    BY <1>1, <1>2 DEF Attempts

LEMMA BlameType ==
  ASSUME TypeOK, NEW j, NEW n \in Nat, Blamed(j, n)
  PROVE  blame' \in [Jobs -> Nat]
  <1>1. ASSUME NEW i \in Jobs  PROVE blame[i] + n \in Nat
    BY DEF TypeOK
  <1> QED
    BY <1>1 DEF TypeOK, Blamed

LEMMA RecordType ==
  ASSUME TypeOK, NEW m \in Msgs
  PROVE  RecordOf(m) \in [Msgs -> Nat]
  <1>1. ASSUME NEW i \in Msgs  PROVE applied[i] + 1 \in Nat
    BY DEF TypeOK
  <1> QED
    BY <1>1 DEF TypeOK, RecordOf

\* An attempt that ends leaves well-typed variables.
LEMMA EndType ==
  ASSUME TypeOK, NEW j, AttemptEnds(j)
  PROVE  job' \in [Jobs -> Q!States] /\ tries' \in [Jobs -> Nat]
  BY AttemptEndsQueue DEF TypeOK, Q!TypeOK, Q!States

LEMMA FaultType == TypeOK /\ Fault => TypeOK'
  <1> SUFFICES ASSUME TypeOK, Fault  PROVE TypeOK'
    OBVIOUS
  <1>1. blame' \in [Jobs -> Nat]
    BY BlameType DEF Fault
  <1>2. job' \in [Jobs -> Q!States] /\ tries' \in [Jobs -> Nat]
    BY EndType DEF Fault
  <1> QED
    BY <1>1, <1>2, IdleType DEF Fault, TypeOK, Q!TypeOK

LEMMA RefusedType == TypeOK /\ Refused => TypeOK'
  <1> SUFFICES ASSUME TypeOK, Refused  PROVE TypeOK'
    OBVIOUS
  <1>2. job' \in [Jobs -> Q!States] /\ tries' \in [Jobs -> Nat]
    BY EndType DEF Refused
  <1> QED
    BY <1>2, IdleType DEF Refused, TypeOK, Q!TypeOK

LEMMA TypeStep == TypeOK /\ AttemptInv /\ [Next]_vars => TypeOK'
  <1> SUFFICES ASSUME TypeOK, AttemptInv, [Next]_vars  PROVE TypeOK'
    OBVIOUS
  <1> USE Parameters
  <1>1. CASE Speak
    BY <1>1 DEF Speak, TypeOK, Q!TypeOK
  <1>2. CASE SetMode
    BY <1>2 DEF SetMode, TypeOK, Q!TypeOK
  <1>3. ASSUME NEW j \in Jobs, Enqueue(j)  PROVE TypeOK'
    BY <1>3 DEF Enqueue, TypeOK, Q!TypeOK, Q!Accept, Q!Become, Q!States
  <1>4. ASSUME NEW j \in Jobs, Revive(j)  PROVE TypeOK'
    BY <1>4 DEF Revive, TypeOK, Q!TypeOK, Q!Revive, Q!Become, Q!States
  <1>5. ASSUME NEW m \in Msgs, AcceptReview(m)  PROVE TypeOK'
    BY <1>5, RecordType DEF AcceptReview, TypeOK, Q!TypeOK
  <1>6. ASSUME NEW m \in Msgs, CloseReview(m)  PROVE TypeOK'
    BY <1>6 DEF CloseReview, TypeOK, Q!TypeOK
  <1>7. CASE FinishMilestone
    BY <1>7 DEF FinishMilestone, TypeOK, Q!TypeOK
  <1>8. CASE SetMilestone
    BY <1>8 DEF SetMilestone, TypeOK, Q!TypeOK
  <1>9. CASE Fault
    BY <1>9, FaultType
  <1>10. CASE OwnershipRefused
    <2>1. blame' \in [Jobs -> Nat]
      BY <1>10, BlameType DEF OwnershipRefused
    <2> QED
      BY <1>10, <2>1, IdleType
         DEF OwnershipRefused, TypeOK, Q!TypeOK, Q!Bury, Q!Become, Q!States
  <1>11. CASE Crash
    <2>1. blame' \in [Jobs -> Nat]
      BY <1>11, BlameType DEF Crash
    <2> QED
      BY <1>11, <2>1, IdleType DEF Crash, TypeOK, Q!TypeOK
  <1>12. ASSUME NEW j \in Jobs, Recover(j)  PROVE TypeOK'
    <2>1. job' \in [Jobs -> Q!States] /\ tries' \in [Jobs -> Nat]
      BY <1>12, EndType DEF Recover
    <2> QED
      BY <1>12, <2>1 DEF Recover, TypeOK, Q!TypeOK
  <1>13. ASSUME NEW j \in Jobs, Claim(j)  PROVE TypeOK'
    <2>1. ASSUME NEW i \in Jobs  PROVE tries[i] + 1 \in Nat
      BY DEF TypeOK, Q!TypeOK
    <2>2. tries' \in [Jobs -> Nat]
      BY <1>13, <2>1 DEF Claim, Q!Deliver, TypeOK, Q!TypeOK
    <2> QED
      BY <1>13, <2>2, IdleType
         DEF Claim, TypeOK, Q!TypeOK, Q!Deliver, Q!Become, Q!States, Attempts, Idle, Phases
  <1>14. CASE StartReading
    BY <1>14 DEF StartReading, TypeOK, Q!TypeOK, Attempts, Phases
  <1>15. CASE ReplayReceipt
    <2>1. receipt[worker.job] \in Receipts
      BY <1>15 DEF ReplayReceipt, TypeOK, AttemptInv
    <2>2. cursor' \in 0 .. Messages /\ worker' \in Attempts
      BY <1>15, <2>1 DEF ReplayReceipt, TypeOK, Attempts, Phases, Receipts
    <2> QED
      BY <1>15, <2>2 DEF ReplayReceipt, TypeOK, Q!TypeOK
  <1>16. CASE ReceiptRefused
    BY <1>16, RefusedType DEF ReceiptRefused
  <1>17. CASE ReadIncrement
    <2>1. worker.at \in 0 .. Messages /\ written \in 0 .. Messages
      BY DEF TypeOK, Attempts
    <2>2. Least(worker.at + Chunk, written) \in 0 .. Messages
      BY <2>1 DEF Least
    <2>3. worker' \in Attempts
      BY <1>17, <2>2 DEF ReadIncrement, TypeOK, Attempts, Phases, HasMore
    <2> QED
      BY <1>17, <2>3 DEF ReadIncrement, TypeOK, Q!TypeOK
  <1>18. CASE RuntimeStopped
    BY <1>18, FaultType DEF RuntimeStopped
  <1>19. ASSUME NEW m \in Msgs, Skip(m)  PROVE TypeOK'
    BY <1>19, PassedType DEF Skip, TypeOK, Q!TypeOK
  <1>20. ASSUME NEW m \in Msgs, AddReview(m)  PROVE TypeOK'
    <2>1. worker' \in Attempts
      BY <1>20, PassedType, SameWords DEF AddReview, TypeOK
    <2>2. review' \in [Msgs -> {"none", "pending", "closed"}]
      BY <1>20 DEF AddReview, TypeOK
    <2> QED
      BY <1>20, <2>1, <2>2 DEF AddReview, TypeOK, Q!TypeOK
  <1>21. ASSUME NEW m \in Msgs, Apply(m)  PROVE TypeOK'
    BY <1>21, PassedType, RecordType DEF Apply, Applied, TypeOK, Q!TypeOK
  <1>22. ASSUME NEW m \in Msgs, Reapply(m)  PROVE TypeOK'
    BY <1>22, PassedType DEF Reapply, Applied, TypeOK, Q!TypeOK
  <1>23. ASSUME NEW m \in Msgs, ApplyRefused(m) \/ Unwelcome(m)  PROVE TypeOK'
    BY <1>23, RefusedType DEF ApplyRefused, Unwelcome
  <1>24. ASSUME NEW m \in Msgs, StoppedDuringProcessing(m)  PROVE TypeOK'
    BY <1>24, FaultType DEF StoppedDuringProcessing
  <1>25. CASE NextChunk
    BY <1>25 DEF NextChunk, TypeOK, Q!TypeOK, Attempts, Phases
  <1>26. CASE WriteReceipt
    <2>1. [cursor |-> worker.to, ops |-> worker.ops, reviews |-> worker.reviews,
           twice |-> worker.twice] \in Receipts
      BY DEF TypeOK, Attempts, Receipts
    <2> QED
      BY <1>26, <2>1 DEF WriteReceipt, TypeOK, Q!TypeOK, Attempts, Phases
  <1>27. CASE PersistCheckpoint
    BY <1>27 DEF PersistCheckpoint, TypeOK, Q!TypeOK, Attempts, Phases
  <1>28. CASE Commit
    BY <1>28, IdleType DEF Commit, TypeOK, Q!TypeOK, Q!Finish, Q!Become, Q!States
  <1>29. CASE UNCHANGED vars
    BY <1>29 DEF vars, TypeOK, Q!TypeOK
  <1> QED
    BY <1>1, <1>2, <1>3, <1>4, <1>5, <1>6, <1>7, <1>8, <1>9, <1>10, <1>11, <1>12,
       <1>13, <1>14, <1>15, <1>16, <1>17, <1>18, <1>19, <1>20, <1>21, <1>22, <1>23,
       <1>24, <1>25, <1>26, <1>27, <1>28, <1>29
       DEF Next, Once, AtWork, Around, Faults

LEMMA TypeInit == Init => TypeOK
  <1> SUFFICES ASSUME Init  PROVE TypeOK
    OBVIOUS
  <1>1. Q!TypeOK
    BY DEF Init, Q!TypeOK, Q!States
  <1>2. heard \in [Jobs -> 0 .. Messages] /\ blame \in [Jobs -> Nat]
    BY Parameters DEF Init
  <1>3. review \in [Msgs -> {"none", "pending", "closed"}] /\ applied \in [Msgs -> Nat]
    BY DEF Init
  <1>4. receipt \in [Jobs -> Receipts \union {NoReceipt}]
    BY DEF Init
  <1>5. /\ written \in 0 .. Messages /\ cursor \in 0 .. Messages
        /\ revivals \in 0 .. MaxRevivals
    BY Parameters DEF Init
  <1> QED
    BY <1>1, <1>2, <1>3, <1>4, <1>5, IdleType DEF Init, TypeOK

-----------------------------------------------------------------------------
(* What a step leaves alone.                                               *)

\* What was dealt with stays so.
HandledGrows == \A m \in Msgs : Handled(m) => Handled(m)'

\* No receipt, no registration and no acknowledgement is added.
NoProgress ==
  /\ receipt' = receipt /\ heard' = heard
  /\ \A j \in Jobs : /\ job'[j] = "new" => job[j] = "new"
                     /\ job'[j] = "done" => job[j] = "done"

\* Operation receipts and review items are never taken away.
EffectsGrow ==
  /\ oplog \subseteq oplog'
  /\ \A m \in Msgs : review[m] # "none" => review'[m] # "none"

LEMMA EffectsStay == TypeOK /\ [Next]_vars => EffectsGrow
  <1> SUFFICES ASSUME TypeOK, [Next]_vars  PROVE EffectsGrow
    OBVIOUS
  <1>1. CASE UNCHANGED <<oplog, review>>
    BY <1>1 DEF EffectsGrow
  <1>2. ASSUME NEW i \in Msgs, AddReview(i) \/ CloseReview(i) \/ AcceptReview(i)
        PROVE  EffectsGrow
    BY <1>2 DEF AddReview, CloseReview, AcceptReview, TypeOK, EffectsGrow
  <1>3. ASSUME NEW i \in Msgs, Apply(i)
        PROVE  EffectsGrow
    BY <1>3 DEF Apply, EffectsGrow
  <1>4. Once \/ Faults =>
          \/ UNCHANGED <<oplog, review>>
          \/ \E i \in Msgs : AddReview(i) \/ Apply(i)
    BY DEF Once, Faults, AtWork, Recover, Claim, StartReading, ReplayReceipt,
           ReceiptRefused, ReadIncrement, RuntimeStopped, Skip, Reapply, ApplyRefused,
           Unwelcome, StoppedDuringProcessing, NextChunk, WriteReceipt,
           PersistCheckpoint, Commit, Fault, OwnershipRefused, Crash, Refused
  <1>5. Around =>
          \/ UNCHANGED <<oplog, review>>
          \/ \E i \in Msgs : CloseReview(i) \/ AcceptReview(i)
    BY DEF Around, Speak, SetMode, Enqueue, Revive, FinishMilestone, SetMilestone
  <1>6. CASE UNCHANGED vars
    BY <1>1, <1>6 DEF vars
  <1> QED
    BY <1>1, <1>2, <1>3, <1>4, <1>5, <1>6 DEF Next

LEMMA HandledStays == TypeOK /\ [Next]_vars => HandledGrows
  BY EffectsStay, SameWords DEF EffectsGrow, HandledGrows, Handled

LEMMA CursorKept ==
  ASSUME TypeOK, WorkerInv, HandledGrows, cursor' = cursor, written <= written',
         written' \in 0 .. Messages
  PROVE  cursor' <= written' /\ NothingSkipped'
  BY Parameters DEF TypeOK, WorkerInv, NothingSkipped, HandledGrows

LEMMA JobsKept ==
  ASSUME TypeOK, WorkerInv, HandledGrows, NoProgress, written <= written',
         written' \in 0 .. Messages
  PROVE  \A j \in Jobs : JobInv(j)'
  <1> SUFFICES ASSUME NEW j \in Jobs  PROVE JobInv(j)'
    OBVIOUS
  <1>1. JobInv(j)
    BY DEF WorkerInv
  <1>2. receipt[j].cursor \in Int /\ heard[j] \in 0 .. Messages
    BY DEF TypeOK, Receipts, NoReceipt
  <1>3. \A m \in 1 .. receipt[j].cursor : m \in Msgs
    BY <1>1, <1>2, Parameters DEF JobInv, TypeOK
  <1>4. /\ receipt'[j] = receipt[j] /\ heard'[j] = heard[j]
        /\ job'[j] = "new" => job[j] = "new"
        /\ job'[j] = "done" => job[j] = "done"
    BY DEF NoProgress
  <1>5. \A m \in 1 .. receipt[j].cursor : Handled(m)'
    BY <1>1, <1>3 DEF JobInv, HandledGrows
  <1>6. written \in Int /\ written' \in Int
    BY DEF TypeOK
  <1> QED
    BY <1>1, <1>2, <1>4, <1>5, <1>6 DEF JobInv

LEMMA AttemptOver ==
  ASSUME worker' = Idle
  PROVE  AttemptInv' /\ ChunkInv'
  BY DEF Idle, AttemptInv, ChunkInv

LEMMA AttemptKept ==
  ASSUME TypeOK, WorkerInv, HandledGrows, worker' = worker, written <= written',
         written' \in 0 .. Messages, receipt' = receipt,
         worker.phase # "idle" => /\ job'[worker.job] = "taken"
                                  /\ heard'[worker.job] = heard[worker.job]
  PROVE  AttemptInv' /\ ChunkInv'
  <1>1. /\ worker.at \in 0 .. Messages /\ worker.to \in 0 .. Messages
        /\ worker.phase \in Phases
    BY DEF TypeOK, Attempts
  <1>2. AttemptInv'
    <2> SUFFICES ASSUME worker.phase # "idle"
                 PROVE  /\ worker.job \in Jobs /\ job'[worker.job] = "taken"
                        /\ worker.at <= written'
                        /\ \A m \in 1 .. worker.at : Handled(m)'
      BY DEF AttemptInv
    <2>1. /\ worker.job \in Jobs /\ worker.at <= written
          /\ \A m \in 1 .. worker.at : Handled(m)
      BY DEF WorkerInv, AttemptInv
    <2>2. \A m \in 1 .. worker.at : m \in Msgs
      BY <1>1, Parameters
    <2> QED
      BY <1>1, <2>1, <2>2 DEF HandledGrows, TypeOK
  <1>3. ChunkInv'
    BY <1>1, Parameters DEF WorkerInv, ChunkInv, Phases, TypeOK
  <1> QED
    BY <1>2, <1>3

-----------------------------------------------------------------------------
(* WorkerInv is inductive.                                                 *)

\* The first part of an attempt that is still going on.
LEMMA WorkerShape ==
  ASSUME TypeOK, WorkerInv
  PROVE  /\ worker.phase \in Phases
         /\ worker.at \in 0 .. Messages /\ worker.to \in 0 .. Messages
         /\ written \in 0 .. Messages /\ cursor \in 0 .. Messages
         /\ worker.first \in BOOLEAN /\ worker.more \in BOOLEAN
         /\ worker.phase # "idle" => worker.job \in Jobs /\ job[worker.job] = "taken"
  BY DEF TypeOK, Attempts, WorkerInv, AttemptInv

LEMMA CursorIsInt ==
  ASSUME TypeOK, NEW j \in Jobs
  PROVE  receipt[j].cursor \in Int
  BY Parameters DEF TypeOK, Receipts, NoReceipt

LEMMA EndsKeepInv ==
  ASSUME TypeOK, WorkerInv, HandledGrows, NEW j \in Jobs,
         UNCHANGED <<written, cursor, receipt, heard>>,
         \/ job' = job
         \/ job' = [job EXCEPT ![j] = "ready"]
         \/ job' = [job EXCEPT ![j] = "dead"],
         worker' = Idle
  PROVE  WorkerInv'
  <1>1. NoProgress
    BY DEF NoProgress, TypeOK, Q!TypeOK
  <1>2. written <= written' /\ written' \in 0 .. Messages
    BY WorkerShape, Parameters
  <1> QED
    BY <1>1, <1>2, CursorKept, JobsKept, AttemptOver DEF WorkerInv

\* One step of the attempt that changes no file the other jobs see.
LEMMA WorkKeepsInv ==
  ASSUME TypeOK, WorkerInv, HandledGrows,
         UNCHANGED <<written, cursor, receipt, heard, job>>,
         AttemptInv', ChunkInv'
  PROVE  WorkerInv'
  <1>1. NoProgress
    BY DEF NoProgress
  <1>2. written <= written' /\ written' \in 0 .. Messages
    BY WorkerShape, Parameters
  <1> QED
    BY <1>1, <1>2, CursorKept, JobsKept DEF WorkerInv

\* The attempt passes message m, which is dealt with.
LEMMA PassKeepsInv ==
  ASSUME TypeOK, WorkerInv, HandledGrows, NEW m \in Msgs, AtMessage(m), Handled(m)',
         UNCHANGED <<written, cursor, receipt, heard, job>>,
         worker'.phase = worker.phase, worker'.job = worker.job,
         worker'.more = worker.more, worker'.to = worker.to, worker'.at = m
  PROVE  WorkerInv'
  <1>1. AttemptInv'
    <2>1. \A i \in 1 .. m : i \in Msgs /\ (i = m \/ i \in 1 .. worker.at)
      BY WorkerShape, Parameters DEF AtMessage
    <2>2. \A i \in 1 .. m : Handled(i)'
      BY <2>1 DEF AtMessage, WorkerInv, AttemptInv, HandledGrows
    <2> QED
      BY <2>2, WorkerShape DEF AtMessage, WorkerInv, AttemptInv, ChunkInv
  <1>2. ChunkInv'
    BY WorkerShape DEF AtMessage, WorkerInv, ChunkInv
  <1> QED
    BY <1>1, <1>2, WorkKeepsInv

\* A step around the attempt.
LEMMA AroundKeepsInv ==
  ASSUME TypeOK, WorkerInv, HandledGrows, NoProgress,
         written <= written', written' \in 0 .. Messages,
         UNCHANGED <<cursor, worker>>,
         worker.phase # "idle" => job'[worker.job] = "taken"
  PROVE  WorkerInv'
  <1>1. worker.phase # "idle" => heard'[worker.job] = heard[worker.job]
    BY DEF NoProgress
  <1>2. receipt' = receipt
    BY DEF NoProgress
  <1> QED
    BY <1>1, <1>2, CursorKept, JobsKept, AttemptKept DEF WorkerInv

LEMMA AroundStep == TypeOK /\ WorkerInv /\ HandledGrows /\ TypeOK' /\ Around => WorkerInv'
  <1> SUFFICES ASSUME TypeOK, WorkerInv, HandledGrows, TypeOK', Around  PROVE WorkerInv'
    OBVIOUS
  <1> USE WorkerShape
  <1>0. written' \in 0 .. Messages
    BY DEF TypeOK
  <1>1. CASE Speak
    <2>1. written <= written'
      BY <1>1 DEF Speak
    <2> QED
      BY <1>1, <1>0, <2>1, AroundKeepsInv DEF Speak, NoProgress
  <1>2. CASE SetMode \/ FinishMilestone \/ SetMilestone
    BY <1>2, <1>0, AroundKeepsInv DEF SetMode, FinishMilestone, SetMilestone, NoProgress
  <1>3. ASSUME NEW m \in Msgs, AcceptReview(m) \/ CloseReview(m)  PROVE WorkerInv'
    BY <1>3, <1>0, AroundKeepsInv DEF AcceptReview, CloseReview, NoProgress
  <1>4. ASSUME NEW j \in Jobs, Revive(j)  PROVE WorkerInv'
    <2>1. job[j] = "dead" /\ job' = [job EXCEPT ![j] = "ready"]
      BY <1>4 DEF Revive, Q!Revive, Q!Become
    <2>2. NoProgress
      BY <1>4, <2>1 DEF Revive, NoProgress, TypeOK, Q!TypeOK
    <2>3. worker.phase # "idle" => job'[worker.job] = "taken"
      BY <2>1
    <2> QED
      BY <1>4, <1>0, <2>2, <2>3, AroundKeepsInv DEF Revive
  <1>5. ASSUME NEW j \in Jobs, Enqueue(j)  PROVE WorkerInv'
    <2>1. /\ job[j] = "new" /\ job' = [job EXCEPT ![j] = "ready"]
          /\ heard' = [heard EXCEPT ![j] = written]
          /\ UNCHANGED <<written, cursor, receipt, worker>>
      BY <1>5 DEF Enqueue, Q!Accept, Q!Become
    <2>2. ASSUME NEW i \in Jobs  PROVE JobInv(i)'
      <3>1. JobInv(i)
        BY DEF WorkerInv
      <3>2. receipt[i].cursor \in Int
        BY DEF TypeOK, Receipts, NoReceipt
      <3>3. \A m \in 1 .. receipt[i].cursor : Handled(m)'
        BY <3>1, <3>2, Parameters DEF JobInv, HandledGrows
      <3>4. i # j => heard'[i] = heard[i] /\ job'[i] = job[i]
        BY <2>1 DEF TypeOK, Q!TypeOK
      <3>5. heard'[j] = written /\ job'[j] = "ready"
        BY <2>1 DEF TypeOK, Q!TypeOK
      <3> QED
        BY <2>1, <3>1, <3>3, <3>4, <3>5 DEF JobInv
    <2>3. worker.phase # "idle" => /\ job'[worker.job] = "taken"
                                   /\ heard'[worker.job] = heard[worker.job]
      BY <2>1 DEF TypeOK
    <2> QED
      BY <1>0, <2>1, <2>2, <2>3, CursorKept, AttemptKept DEF WorkerInv
  <1> QED
    BY <1>1, <1>2, <1>3, <1>4, <1>5 DEF Around

\* Everything that ends an attempt without a commit.
LEMMA EndStep ==
  ASSUME TypeOK, WorkerInv, HandledGrows,
         \/ Refused /\ worker.phase # "idle"
         \/ Faults
         \/ \E j \in Jobs : Recover(j)
  PROVE  WorkerInv'
  <1> USE WorkerShape
  <1>1. CASE Refused /\ worker.phase # "idle"
    BY <1>1, AttemptEndsQueue, EndsKeepInv DEF Refused
  <1>2. CASE Fault
    BY <1>2, AttemptEndsQueue, EndsKeepInv DEF Fault
  <1>3. CASE OwnershipRefused
    BY <1>3, EndsKeepInv DEF OwnershipRefused, Q!Bury, Q!Become
  <1>4. CASE Crash
    BY <1>4, EndsKeepInv DEF Crash
  <1>5. ASSUME NEW j \in Jobs, Recover(j)  PROVE WorkerInv'
    <2>1. worker.phase = "idle" /\ UNCHANGED <<worker, written, cursor, receipt, heard>>
      BY <1>5 DEF Recover
    <2>2. \/ job' = [job EXCEPT ![j] = "ready"]
          \/ job' = [job EXCEPT ![j] = "dead"]
      BY <1>5, AttemptEndsQueue DEF Recover
    <2>3. NoProgress
      BY <2>1, <2>2 DEF NoProgress, TypeOK, Q!TypeOK
    <2> QED
      BY <2>1, <2>3, AroundKeepsInv
  <1> QED
    BY <1>1, <1>2, <1>3, <1>4, <1>5 DEF Faults

LEMMA MessageStep ==
  ASSUME TypeOK, WorkerInv, HandledGrows, NEW m \in Msgs,
         \/ Skip(m) \/ AddReview(m) \/ Apply(m) \/ Reapply(m)
  PROVE  WorkerInv'
  <1>1. CASE Skip(m)
    <2>1. Handled(m)'
      BY <1>1 DEF Skip, Handled
    <2> QED
      BY <1>1, <2>1, PassKeepsInv DEF Skip, TypeOK, Attempts
  <1>2. CASE AddReview(m)
    <2>1. review'[Item[m]] # "none"
      BY <1>2, SameWords DEF AddReview, TypeOK
    <2>2. Handled(m)'
      BY <2>1 DEF Handled
    <2>3. /\ worker'.phase = worker.phase /\ worker'.job = worker.job
          /\ worker'.more = worker.more /\ worker'.to = worker.to /\ worker'.at = m
      BY <1>2 DEF AddReview, TypeOK, Attempts
    <2> QED
      BY <1>2, <2>2, <2>3, PassKeepsInv DEF AddReview
  <1>3. CASE Apply(m)
    <2>1. Handled(m)'
      BY <1>3 DEF Apply, Handled
    <2> QED
      BY <1>3, <2>1, PassKeepsInv DEF Apply, Applied, TypeOK, Attempts
  <1>4. CASE Reapply(m)
    <2>1. Handled(m)'
      BY <1>4 DEF Reapply, Handled
    <2> QED
      BY <1>4, <2>1, PassKeepsInv DEF Reapply, Applied, TypeOK, Attempts
  <1> QED
    BY <1>1, <1>2, <1>3, <1>4

\* Reading and the durable end of an attempt.
LEMMA FileStep ==
  ASSUME TypeOK, TypeOK', WorkerInv, HandledGrows,
         \/ StartReading \/ ReplayReceipt \/ ReadIncrement \/ NextChunk
         \/ WriteReceipt \/ PersistCheckpoint \/ Commit
         \/ \E j \in Jobs : Claim(j)
  PROVE  WorkerInv'
  <1> USE WorkerShape, Parameters
  <1>0. /\ written \in Int /\ \A j \in Jobs : heard[j] \in 0 .. Messages
        /\ written' \in 0 .. Messages
    BY DEF TypeOK
  <1>1. CASE StartReading
    <2>1. /\ AttemptInv'
          /\ ChunkInv'
      BY <1>1 DEF StartReading, WorkerInv, AttemptInv, ChunkInv, NothingSkipped,
                  HandledGrows, TypeOK, Attempts
    <2> QED
      BY <1>1, <2>1, WorkKeepsInv DEF StartReading
  <1>2. CASE ReplayReceipt
    <2>1. worker.job \in Jobs /\ receipt[worker.job] # NoReceipt
      BY <1>2 DEF ReplayReceipt
    <2>2. receipt[worker.job] \in Receipts /\ JobInv(worker.job)
      BY <2>1 DEF TypeOK, WorkerInv
    <2> DEFINE c == receipt[worker.job].cursor
    <2>3. /\ c \in 0 .. Messages /\ c <= written /\ heard[worker.job] <= c
          /\ \A m \in 1 .. c : Handled(m)'
      BY <2>1, <2>2 DEF JobInv, Receipts, HandledGrows
    <2>4. /\ cursor' = c /\ UNCHANGED <<job, written, receipt, heard>>
          /\ worker'.phase = "applying" /\ worker'.job = worker.job
          /\ worker'.at = c /\ worker'.to = c
      BY <1>2 DEF ReplayReceipt, TypeOK, Attempts
    <2> HIDE DEF c
    <2>5. AttemptInv' /\ ChunkInv'
      BY <1>2, <2>1, <2>3, <2>4 DEF AttemptInv, ChunkInv, ReplayReceipt
    <2>6. cursor' <= written' /\ NothingSkipped'
      BY <2>3, <2>4 DEF NothingSkipped
    <2>7. \A j \in Jobs : JobInv(j)'
      BY <1>0, <2>4, JobsKept DEF NoProgress
    <2> QED
      BY <2>5, <2>6, <2>7 DEF WorkerInv
  <1>3. CASE ReadIncrement
    <2> DEFINE to == Least(worker.at + Chunk, written)
    <2>0. worker.at <= written /\ worker.at \in Int /\ worker.at + Chunk \in Int
      BY <1>3 DEF WorkerInv, AttemptInv, ReadIncrement
    <2>1. /\ to <= written /\ (to = written \/ to = worker.at + Chunk)
          /\ to \in Int /\ worker.at <= to
      BY <1>0, <2>0, LeastIsLeast
    <2>2. /\ worker'.phase = "applying" /\ worker'.job = worker.job
          /\ worker'.at = worker.at /\ worker'.to = to
          /\ to - worker.at = Chunk => worker'.more
          /\ UNCHANGED <<written, cursor, receipt, heard, job>>
      BY <1>3 DEF ReadIncrement, HasMore, TypeOK, Attempts
    <2> HIDE DEF to
    <2>3. AttemptInv'
      BY <1>3, <2>2 DEF ReadIncrement, WorkerInv, AttemptInv, HandledGrows
    <2>4. worker'.more \/ to = written
      BY <2>0, <2>1, <2>2
    <2>5. worker.job \in Jobs /\ heard[worker.job] <= written
      BY <1>3 DEF ReadIncrement, WorkerInv, JobInv
    <2>6. ChunkInv'
      BY <2>1, <2>2, <2>4, <2>5 DEF ChunkInv
    <2> QED
      BY <2>2, <2>3, <2>6, WorkKeepsInv
  <1>4. CASE NextChunk
    <2>1. AttemptInv' /\ ChunkInv'
      BY <1>4 DEF NextChunk, WorkerInv, AttemptInv, ChunkInv, HandledGrows, TypeOK, Attempts
    <2> QED
      BY <1>4, <2>1, WorkKeepsInv DEF NextChunk
  <1>5. CASE WriteReceipt
    <2> DEFINE j == worker.job
    <2>1. /\ j \in Jobs /\ worker.at = worker.to /\ worker.to <= written
          /\ heard[j] <= worker.to /\ job[j] = "taken"
          /\ \A m \in 1 .. worker.to : Handled(m)'
      BY <1>5 DEF WriteReceipt, WorkerInv, AttemptInv, ChunkInv, HandledGrows
    <2>2. /\ receipt'[j].cursor = worker.to /\ receipt'[j] # NoReceipt
          /\ \A i \in Jobs \ {j} : receipt'[i] = receipt[i]
      <3>1. receipt'[j] = [cursor |-> worker.to, ops |-> worker.ops,
                           reviews |-> worker.reviews, twice |-> worker.twice]
        BY <1>5, <2>1 DEF WriteReceipt, TypeOK
      <3>2. receipt'[j].cursor = worker.to
        BY <3>1
      <3>3. receipt'[j] # NoReceipt
        BY <3>2, WorkerShape, Parameters DEF NoReceipt
      <3>4. \A i \in Jobs \ {j} : receipt'[i] = receipt[i]
        BY <1>5 DEF WriteReceipt, TypeOK
      <3> QED
        BY <3>2, <3>3, <3>4
    <2>3. /\ UNCHANGED <<written, cursor, heard, job>>
          /\ worker' = [worker EXCEPT !.phase = "receipted"]
      BY <1>5 DEF WriteReceipt
    <2>4. /\ worker'.phase = "receipted" /\ worker'.job = worker.job
          /\ worker'.at = worker.at /\ worker'.to = worker.to
          /\ worker'.more = worker.more
      BY <2>3 DEF TypeOK, Attempts
    <2>5. AttemptInv' /\ ChunkInv'
      BY <2>1, <2>2, <2>3, <2>4 DEF AttemptInv, ChunkInv
    <2>6. ASSUME NEW i \in Jobs  PROVE JobInv(i)'
      <3>1. CASE i = j
        BY <3>1, <2>1, <2>2, <2>3, <1>0 DEF JobInv
      <3>2. CASE i # j
        <4>1. JobInv(i) /\ receipt'[i] = receipt[i] /\ receipt[i].cursor \in Int
          BY <3>2, <2>2, CursorIsInt DEF WorkerInv
        <4>2. \A m \in 1 .. receipt[i].cursor : Handled(m)'
          BY <4>1 DEF JobInv, HandledGrows
        <4> QED
          BY <4>1, <4>2, <2>3 DEF JobInv
      <3> QED
        BY <3>1, <3>2
    <2> QED
      BY <1>0, <2>3, <2>5, <2>6, CursorKept DEF WorkerInv
  <1>6. CASE PersistCheckpoint
    <2>1. /\ worker.at = worker.to /\ worker.to <= written
          /\ cursor' = worker.to /\ UNCHANGED <<written, receipt, heard, job>>
          /\ \A m \in 1 .. worker.to : Handled(m)'
      BY <1>6 DEF PersistCheckpoint, WorkerInv, AttemptInv, ChunkInv, HandledGrows
    <2>2. cursor' <= written' /\ NothingSkipped'
      BY <2>1 DEF NothingSkipped
    <2>3. /\ worker'.phase = "saved" /\ worker'.job = worker.job
          /\ worker'.at = worker.at /\ worker'.to = worker.to
          /\ worker'.more = worker.more
      BY <1>6 DEF PersistCheckpoint, TypeOK, Attempts
    <2>4. AttemptInv' /\ ChunkInv'
      BY <1>6, <2>1, <2>3
         DEF PersistCheckpoint, WorkerInv, AttemptInv, ChunkInv
    <2>5. \A j \in Jobs : JobInv(j)'
      BY <1>0, <2>1, JobsKept DEF NoProgress
    <2> QED
      BY <2>2, <2>4, <2>5 DEF WorkerInv
  <1>7. CASE Commit
    <2>1. /\ worker.job \in Jobs /\ receipt[worker.job] # NoReceipt
          /\ job' = [job EXCEPT ![worker.job] = "done"]
          /\ worker' = Idle /\ UNCHANGED <<written, cursor, receipt, heard>>
      BY <1>7 DEF Commit, Q!Finish, Q!Become, WorkerInv, ChunkInv
    <2>2. ASSUME NEW i \in Jobs  PROVE JobInv(i)'
      <3>1. JobInv(i) /\ receipt[i].cursor \in Int
        BY CursorIsInt DEF WorkerInv
      <3>2. \A m \in 1 .. receipt[i].cursor : Handled(m)'
        BY <3>1 DEF JobInv, HandledGrows
      <3>3. \/ i # worker.job /\ job'[i] = job[i]
            \/ i = worker.job /\ job'[i] = "done"
        BY <2>1 DEF TypeOK, Q!TypeOK
      <3> QED
        BY <2>1, <3>1, <3>2, <3>3 DEF JobInv
    <2> QED
      BY <1>0, <2>1, <2>2, CursorKept, AttemptOver DEF WorkerInv
  <1>8. ASSUME NEW j \in Jobs, Claim(j)  PROVE WorkerInv'
    <2>1. /\ job[j] = "ready" /\ job' = [job EXCEPT ![j] = "taken"]
          /\ worker' = [Idle EXCEPT !.phase = "claimed", !.job = j]
          /\ UNCHANGED <<written, cursor, receipt, heard>>
      BY <1>8 DEF Claim, Q!Deliver, Q!Become
    <2>2. NoProgress
      BY <2>1 DEF NoProgress, TypeOK, Q!TypeOK
    <2>3. worker'.phase = "claimed" /\ worker'.job = j /\ worker'.at = 0
      BY <2>1 DEF Idle
    <2>4. AttemptInv' /\ ChunkInv'
      BY <2>1, <2>3 DEF AttemptInv, ChunkInv, TypeOK, Q!TypeOK
    <2> QED
      BY <1>0, <2>1, <2>2, <2>4, CursorKept, JobsKept DEF WorkerInv
  <1> QED
    BY <1>1, <1>2, <1>3, <1>4, <1>5, <1>6, <1>7, <1>8

LEMMA InvStep == TypeOK /\ WorkerInv /\ [Next]_vars => TypeOK' /\ WorkerInv'
  <1> SUFFICES ASSUME TypeOK, WorkerInv, [Next]_vars  PROVE TypeOK' /\ WorkerInv'
    OBVIOUS
  <1>1. TypeOK'
    BY TypeStep DEF WorkerInv
  <1>2. HandledGrows
    BY HandledStays
  <1>3. CASE Around
    BY <1>1, <1>2, <1>3, AroundStep
  <1>4. CASE Faults \/ \E j \in Jobs : Recover(j)
    BY <1>1, <1>2, <1>4, EndStep
  <1>5. ASSUME NEW m \in Msgs,
               \/ Skip(m) \/ AddReview(m) \/ Apply(m) \/ Reapply(m) \/ ApplyRefused(m)
               \/ Unwelcome(m) \/ StoppedDuringProcessing(m)
        PROVE  WorkerInv'
    <2>1. CASE Skip(m) \/ AddReview(m) \/ Apply(m) \/ Reapply(m)
      BY <1>2, <2>1, MessageStep
    <2>2. CASE ApplyRefused(m) \/ Unwelcome(m)
      BY <1>2, <2>2, EndStep DEF ApplyRefused, Unwelcome, AtMessage
    <2>3. CASE StoppedDuringProcessing(m)
      BY <1>2, <2>3, EndStep DEF StoppedDuringProcessing, Faults
    <2> QED
      BY <1>5, <2>1, <2>2, <2>3
  <1>6. CASE ReceiptRefused \/ RuntimeStopped
    <2>1. CASE ReceiptRefused
      <3>1. Refused /\ worker.phase # "idle"
        BY <2>1 DEF ReceiptRefused
      <3> QED
        BY <1>1, <1>2, <3>1, EndStep
    <2>2. CASE RuntimeStopped
      <3>1. Faults
        BY <2>2 DEF RuntimeStopped, Faults
      <3> QED
        BY <1>1, <1>2, <3>1, EndStep
    <2> QED
      BY <1>6, <2>1, <2>2
  <1>7. CASE \/ StartReading \/ ReplayReceipt \/ ReadIncrement \/ NextChunk
             \/ WriteReceipt \/ PersistCheckpoint \/ Commit
             \/ \E j \in Jobs : Claim(j)
    BY <1>1, <1>2, <1>7, FileStep
  <1>8. CASE UNCHANGED vars
    <2>1. NoProgress /\ written <= written' /\ written' \in 0 .. Messages
      BY <1>8, WorkerShape, Parameters DEF vars, NoProgress
    <2>2. UNCHANGED <<cursor, worker, job>>
      BY <1>8 DEF vars
    <2> QED
      BY <1>1, <1>2, <2>1, <2>2, WorkerShape, AroundKeepsInv
  <1> QED
    BY <1>1, <1>3, <1>4, <1>5, <1>6, <1>7, <1>8 DEF Next, Once, AtWork

LEMMA InvInit == Init => WorkerInv
  <1> SUFFICES ASSUME Init  PROVE WorkerInv
    OBVIOUS
  <1>1. AttemptInv /\ ChunkInv
    BY DEF Init, Idle, AttemptInv, ChunkInv
  <1>2. \A j \in Jobs : JobInv(j)
    BY DEF Init, JobInv, NoReceipt
  <1> QED
    BY <1>1, <1>2 DEF Init, WorkerInv, NothingSkipped

-----------------------------------------------------------------------------
(* No effect is made twice.                                                *)

\* Why a message makes at most one record while the mode stays what it is.  A
\* memory is recognised by its fingerprint whichever way it comes.  Anything
\* else goes one way only: to its store, where the operation receipt remembers
\* it, or before a person, where the closed review item does.
OnceInv(m) ==
  /\ applied[m] <= 1
  /\ Kind[m] # "memory" =>
       /\ m \in oplog => Automatic(m) /\ mode = "ACTIVE"
       /\ review[m] # "none" => ~Automatic(m) \/ mode # "ACTIVE"
       /\ applied[m] > 0 => m \in oplog \/ review[m] = "closed"

SteadyInv == \A m \in Msgs : OnceInv(m)

\* A record made of message m touches no other message.
LEMMA RecordEffect ==
  ASSUME TypeOK, SteadyInv, NEW m \in Msgs, applied' = RecordOf(m)
  PROVE  /\ \A i \in Msgs \ {m} : applied'[i] = applied[i]
         /\ Kind[m] = "memory" => applied'[m] <= 1
         /\ Kind[m] # "memory" /\ applied[m] = 0 => applied'[m] <= 1
  <1>1. applied[m] \in Nat /\ applied[m] <= 1
    BY DEF TypeOK, SteadyInv, OnceInv
  <1>2. \/ applied'[m] = applied[m]
        \/ /\ applied'[m] = applied[m] + 1
           /\ Kind[m] = "memory" => ~(applied[m] > 0)
    BY DEF RecordOf, TypeOK
  <1>3. \A i \in Msgs \ {m} : applied'[i] = applied[i]
    BY DEF RecordOf, TypeOK
  <1> QED
    BY <1>1, <1>2, <1>3

LEMMA SteadyStep ==
  ASSUME TypeOK, SteadyInv, [Next]_vars, mode' = mode
  PROVE  SteadyInv'
  <1> SUFFICES ASSUME NEW m \in Msgs  PROVE OnceInv(m)'
    BY DEF SteadyInv
  <1>0. OnceInv(m) /\ applied[m] \in Nat
    BY DEF SteadyInv, TypeOK
  <1>1. CASE UNCHANGED <<oplog, applied, review>>
    BY <1>0, <1>1 DEF OnceInv, Automatic
  <1>2. ASSUME NEW i \in Msgs, AddReview(i)  PROVE OnceInv(m)'
    <2>1. /\ oplog' = oplog /\ applied' = applied
          /\ review'[m] # review[m] =>
               m = Item[i] /\ review[m] = "none" /\ review'[m] = "pending"
      BY <1>2 DEF AddReview, TypeOK
    <2>2. m = Item[i] /\ Kind[m] # "memory" => ~Automatic(m) \/ mode # "ACTIVE"
      BY <1>2, SameWords DEF AddReview, Automatic
    <2> QED
      BY <1>0, <2>1, <2>2 DEF OnceInv, Automatic
  <1>3. ASSUME NEW i \in Msgs, CloseReview(i)  PROVE OnceInv(m)'
    <2>1. /\ oplog' = oplog /\ applied' = applied
          /\ review'[m] # review[m] => review[m] # "none" /\ review'[m] = "closed"
      BY <1>3 DEF CloseReview, TypeOK
    <2> QED
      BY <1>0, <2>1 DEF OnceInv, Automatic
  <1>4. ASSUME NEW i \in Msgs, AcceptReview(i)  PROVE OnceInv(m)'
    <2>1. /\ oplog' = oplog /\ applied' = RecordOf(i)
          /\ review[i] = "pending" /\ review'[i] = "closed"
          /\ m # i => review'[m] = review[m]
      BY <1>4 DEF AcceptReview, TypeOK
    <2>2. CASE m = i
      <3>1. Kind[m] # "memory" => m \notin oplog /\ applied[m] = 0
        BY <1>0, <2>1, <2>2 DEF OnceInv
      <3>2. applied'[m] <= 1
        BY <2>1, <2>2, <3>1, RecordEffect
      <3> QED
        BY <1>0, <2>1, <2>2, <3>1, <3>2 DEF OnceInv, Automatic
    <2>3. CASE m # i
      <3>1. applied'[m] = applied[m]
        BY <2>1, <2>3, RecordEffect
      <3> QED
        BY <1>0, <2>1, <2>3, <3>1 DEF OnceInv, Automatic
    <2> QED
      BY <2>2, <2>3
  <1>5. ASSUME NEW i \in Msgs, Apply(i)  PROVE OnceInv(m)'
    <2>1. /\ oplog' = oplog \union {i} /\ applied' = RecordOf(i) /\ review' = review
          /\ i \notin oplog /\ Automatic(i) /\ mode = "ACTIVE"
      BY <1>5 DEF Apply, Fresh
    <2>2. CASE m = i
      <3>1. Kind[m] # "memory" => review[m] = "none" /\ applied[m] = 0
        BY <1>0, <2>1, <2>2 DEF OnceInv
      <3>2. applied'[m] <= 1
        BY <2>1, <2>2, <3>1, RecordEffect
      <3> QED
        BY <1>0, <2>1, <2>2, <3>1, <3>2 DEF OnceInv, Automatic
    <2>3. CASE m # i
      <3>1. applied'[m] = applied[m]
        BY <2>1, <2>3, RecordEffect
      <3> QED
        BY <1>0, <2>1, <2>3, <3>1 DEF OnceInv, Automatic
    <2> QED
      BY <2>2, <2>3
  <1>6. Once \/ Faults =>
          \/ UNCHANGED <<oplog, applied, review>>
          \/ \E i \in Msgs : AddReview(i) \/ Apply(i)
    BY DEF Once, Faults, AtWork, Recover, Claim, StartReading, ReplayReceipt,
           ReceiptRefused, ReadIncrement, RuntimeStopped, Skip, Reapply, ApplyRefused,
           Unwelcome, StoppedDuringProcessing, NextChunk, WriteReceipt,
           PersistCheckpoint, Commit, Fault, OwnershipRefused, Crash, Refused
  <1>7. Around =>
          \/ UNCHANGED <<oplog, applied, review>>
          \/ \E i \in Msgs : CloseReview(i) \/ AcceptReview(i)
    BY DEF Around, Speak, SetMode, Enqueue, Revive, FinishMilestone, SetMilestone
  <1>8. CASE UNCHANGED vars
    BY <1>1, <1>8 DEF vars
  <1> QED
    BY <1>1, <1>2, <1>3, <1>4, <1>5, <1>6, <1>7, <1>8 DEF Next

-----------------------------------------------------------------------------
(* Only faults bury a job.                                                 *)

\* What an attempt or a receipt claims is there for _verify_receipt_operations.
Backed(ops, reviews) ==
  /\ ops \subseteq oplog
  /\ \A m \in ops : m <= written
  /\ \A m \in reviews : review[m] # "none"

ClaimsBacked == Backed(worker.ops, worker.reviews)

EvidenceInv ==
  /\ ClaimsBacked
  /\ \A j \in Jobs : Backed(receipt[j].ops, receipt[j].reviews)

\* Of a session that said nothing twice no review item is listed twice: an attempt
\* and a receipt list the items of messages they have passed.
Listed(r, at) == ~r.twice /\ \A m \in r.reviews : m <= at

ListedAttempt ==
  /\ Listed(worker, worker.at)
  /\ worker.phase = "claimed" => worker.reviews = {}

ListedInv ==
  Plain => /\ ListedAttempt
           /\ \A j \in Jobs : Listed(receipt[j], receipt[j].cursor)

\* The delivery in progress has not met its fault yet, if it ever will.
Attempted(j) == worker.phase # "idle" /\ worker.job = j

PaidFor(j) ==
  /\ job[j] \notin {"done", "dead"} => tries[j] <= blame[j] + 1
  /\ job[j] \notin {"done", "dead"} /\ ~Attempted(j) => tries[j] <= blame[j]
  /\ job[j] = "dead" => MaxAttempts <= blame[j]

BlameInv == Plain => \A j \in Jobs : PaidFor(j)

FaultInv == EvidenceInv /\ ListedInv /\ BlameInv

LEMMA WrittenGrows == TypeOK /\ [Next]_vars => written \in Int /\ written' \in Int /\ written <= written'
  <1> SUFFICES ASSUME TypeOK, [Next]_vars
               PROVE  written \in Int /\ written' \in Int /\ written <= written'
    OBVIOUS
  <1>0. written \in Int
    BY DEF TypeOK
  <1>1. Once \/ Faults => written' = written
    BY DEF Once, Faults, AtWork, Recover, Claim, StartReading, ReplayReceipt,
           ReceiptRefused, ReadIncrement, RuntimeStopped, Skip, AddReview, Apply, Reapply,
           ApplyRefused, Unwelcome, StoppedDuringProcessing, NextChunk, WriteReceipt,
           PersistCheckpoint, Commit, Fault, OwnershipRefused, Crash, Refused
  <1>2. Around => written' = written \/ written' = written + 1
    BY DEF Around, Speak, SetMode, Enqueue, Revive, AcceptReview, CloseReview,
           FinishMilestone, SetMilestone
  <1>3. UNCHANGED vars => written' = written
    BY DEF vars
  <1> QED
    BY <1>0, <1>1, <1>2, <1>3 DEF Next

\* What was backed stays so.
LEMMA BackedStays ==
  ASSUME TypeOK, [Next]_vars
  PROVE  \A ops, reviews \in SUBSET Msgs : Backed(ops, reviews) => Backed(ops, reviews)'
  BY EffectsStay, WrittenGrows, Parameters DEF EffectsGrow, Backed

LEMMA ClaimsType ==
  ASSUME TypeOK
  PROVE  /\ worker.ops \in SUBSET Msgs /\ worker.reviews \in SUBSET Msgs
         /\ \A j \in Jobs : /\ receipt[j].ops \in SUBSET Msgs
                            /\ receipt[j].reviews \in SUBSET Msgs
  BY DEF TypeOK, Attempts, Receipts, NoReceipt

\* A step that leaves the receipts alone.
LEMMA EvidenceKept ==
  ASSUME TypeOK, EvidenceInv, [Next]_vars, receipt' = receipt,
         ClaimsBacked'
  PROVE  EvidenceInv'
  BY BackedStays, ClaimsType DEF EvidenceInv, ClaimsBacked

LEMMA IdleBacked == worker' = Idle => ClaimsBacked'
  BY DEF Idle, Backed, ClaimsBacked

\* One more operation, or one more review item, of the attempt.
LEMMA ClaimAdded ==
  ASSUME TypeOK, EvidenceInv, [Next]_vars, NEW m \in Msgs,
         m <= written', written' \in Int,
         \/ /\ worker' = [worker EXCEPT !.at = m, !.ops = @ \union {m}]
            /\ m \in oplog'
         \/ /\ worker'.ops = worker.ops /\ worker'.reviews = worker.reviews \union {Item[m]}
            /\ review'[Item[m]] # "none"
  PROVE  ClaimsBacked'
  <1>1. PICK ops \in SUBSET Msgs, reviews \in SUBSET Msgs :
              ops = worker.ops /\ reviews = worker.reviews
    BY ClaimsType
  <1>2. Backed(ops, reviews)'
    BY <1>1, BackedStays DEF EvidenceInv, ClaimsBacked
  <1>3. \/ worker'.ops = ops \union {m} /\ worker'.reviews = reviews /\ m \in oplog'
        \/ /\ worker'.ops = ops /\ worker'.reviews = reviews \union {Item[m]}
           /\ review'[Item[m]] # "none"
    BY <1>1 DEF TypeOK, Attempts
  <1> QED
    BY <1>2, <1>3 DEF ClaimsBacked, Backed

LEMMA ClaimsKept ==
  ASSUME TypeOK, EvidenceInv, [Next]_vars,
         worker'.ops = worker.ops, worker'.reviews = worker.reviews
  PROVE  ClaimsBacked'
  <1>1. PICK ops \in SUBSET Msgs, reviews \in SUBSET Msgs :
              ops = worker.ops /\ reviews = worker.reviews
    BY ClaimsType
  <1>2. Backed(ops, reviews)'
    BY <1>1, BackedStays DEF EvidenceInv, ClaimsBacked
  <1> QED
    BY <1>1, <1>2 DEF ClaimsBacked

LEMMA EvidenceStep ==
  ASSUME TypeOK, WorkerInv, EvidenceInv, [Next]_vars
  PROVE  EvidenceInv'
  <1> USE WorkerShape, Parameters
  <1>0. written' \in Int /\ written <= written'
    BY WrittenGrows
  <1>1. CASE Around \/ UNCHANGED vars
    <2>1. worker' = worker /\ receipt' = receipt
      BY <1>1 DEF Around, Speak, SetMode, Enqueue, Revive, AcceptReview, CloseReview,
                  FinishMilestone, SetMilestone, vars
    <2> QED
      BY <2>1, ClaimsKept, EvidenceKept
  <1>2. CASE worker' = Idle /\ receipt' = receipt
    BY <1>2, IdleBacked, EvidenceKept
  <1>3. CASE Faults \/ Refused \/ Commit
    BY <1>2, <1>3 DEF Faults, Fault, OwnershipRefused, Crash, Refused, Commit
  <1>4. ASSUME NEW j \in Jobs, Recover(j) \/ Claim(j)  PROVE EvidenceInv'
    <2>1. CASE Recover(j)
      BY <2>1, ClaimsKept, EvidenceKept DEF Recover
    <2>2. CASE Claim(j)
      <3>1. receipt' = receipt /\ worker'.ops = {} /\ worker'.reviews = {}
        BY <2>2 DEF Claim, Idle
      <3>2. ClaimsBacked'
        BY <3>1 DEF ClaimsBacked, Backed
      <3> QED
        BY <3>1, <3>2, EvidenceKept
    <2> QED
      BY <1>4, <2>1, <2>2
  <1>5. CASE StartReading \/ ReadIncrement \/ NextChunk \/ PersistCheckpoint
    <2>1. /\ receipt' = receipt
          /\ worker'.ops = worker.ops /\ worker'.reviews = worker.reviews
      <3>1. CASE StartReading
        BY <3>1 DEF StartReading, TypeOK, Attempts
      <3>2. CASE ReadIncrement
        BY <3>2 DEF ReadIncrement, TypeOK, Attempts
      <3>3. CASE NextChunk \/ PersistCheckpoint
        BY <3>3 DEF NextChunk, PersistCheckpoint, TypeOK, Attempts
      <3> QED
        BY <1>5, <3>1, <3>2, <3>3
    <2> QED
      BY <2>1, ClaimsKept, EvidenceKept
  <1>6. CASE ReplayReceipt
    <2>1. PICK ops \in SUBSET Msgs, reviews \in SUBSET Msgs :
                /\ ops = receipt[worker.job].ops /\ reviews = receipt[worker.job].reviews
                /\ Backed(ops, reviews)
      BY <1>6, ClaimsType DEF ReplayReceipt, EvidenceInv
    <2>2. receipt' = receipt /\ worker'.ops = ops /\ worker'.reviews = reviews
      BY <1>6, <2>1 DEF ReplayReceipt, TypeOK, Attempts
    <2>3. Backed(ops, reviews)'
      BY <2>1, BackedStays
    <2>4. ClaimsBacked'
      BY <2>2, <2>3 DEF ClaimsBacked
    <2> QED
      BY <2>2, <2>4, EvidenceKept
  <1>7. ASSUME NEW m \in Msgs, Skip(m) \/ AddReview(m) \/ Apply(m) \/ Reapply(m)
        PROVE  EvidenceInv'
    <2>1. m <= written' /\ receipt' = receipt
      <3>1. AtMessage(m)
        BY <1>7 DEF Skip, AddReview, Apply, Reapply
      <3> QED
        BY <1>0, <1>7, <3>1
           DEF AtMessage, WorkerInv, ChunkInv, Skip, AddReview, Apply, Reapply, Msgs
    <2>2. CASE Skip(m)
      <3>1. worker'.ops = worker.ops /\ worker'.reviews = worker.reviews
        BY <2>2 DEF Skip, TypeOK, Attempts
      <3> QED
        BY <2>1, <3>1, ClaimsKept, EvidenceKept
    <2>3. CASE AddReview(m)
      <3>1. review'[Item[m]] # "none"
        BY <2>3, SameWords DEF AddReview, TypeOK
      <3>2. CASE review[Item[m]] = "closed"
        <4>1. worker'.ops = worker.ops /\ worker'.reviews = worker.reviews
          BY <2>3, <3>2 DEF AddReview, TypeOK, Attempts
        <4> QED
          BY <2>1, <4>1, ClaimsKept, EvidenceKept
      <3>3. CASE review[Item[m]] # "closed"
        <4>1. worker'.ops = worker.ops /\ worker'.reviews = worker.reviews \union {Item[m]}
          BY <2>3, <3>3 DEF AddReview, TypeOK, Attempts
        <4> QED
          BY <1>0, <2>1, <3>1, <4>1, ClaimAdded, EvidenceKept
      <3> QED
        BY <3>2, <3>3
    <2>4. CASE Apply(m) \/ Reapply(m)
      <3>1. /\ worker' = [worker EXCEPT !.at = m, !.ops = @ \union {m}]
            /\ m \in oplog'
        BY <2>4 DEF Apply, Reapply, Applied
      <3> QED
        BY <1>0, <2>1, <3>1, ClaimAdded, EvidenceKept
    <2> QED
      BY <1>7, <2>2, <2>3, <2>4
  <1>8. CASE WriteReceipt
    <2>1. PICK ops \in SUBSET Msgs, reviews \in SUBSET Msgs :
                ops = worker.ops /\ reviews = worker.reviews /\ Backed(ops, reviews)
      BY ClaimsType DEF EvidenceInv, ClaimsBacked
    <2>2. worker'.ops = worker.ops /\ worker'.reviews = worker.reviews
      BY <1>8 DEF WriteReceipt, TypeOK, Attempts
    <2>3. ASSUME NEW j \in Jobs
          PROVE  \/ receipt'[j] = receipt[j]
                 \/ receipt'[j].ops = ops /\ receipt'[j].reviews = reviews
      <3>1. CASE j = worker.job
        <4>1. receipt'[j] = [cursor |-> worker.to, ops |-> worker.ops,
                             reviews |-> worker.reviews, twice |-> worker.twice]
          BY <1>8, <3>1 DEF WriteReceipt, TypeOK
        <4> QED
          BY <2>1, <4>1
      <3>2. CASE j # worker.job
        BY <1>8, <3>2 DEF WriteReceipt, TypeOK
      <3> QED
        BY <3>1, <3>2
    <2>4. ASSUME NEW j \in Jobs
          PROVE  Backed(receipt[j].ops, receipt[j].reviews)'
      <3>1. CASE receipt'[j] = receipt[j]
        <4>1. PICK o \in SUBSET Msgs, r \in SUBSET Msgs :
                    o = receipt[j].ops /\ r = receipt[j].reviews /\ Backed(o, r)
          BY ClaimsType DEF EvidenceInv
        <4>2. Backed(o, r)'
          BY <4>1, BackedStays
        <4> QED
          BY <3>1, <4>1, <4>2
      <3>2. CASE receipt'[j].ops = ops /\ receipt'[j].reviews = reviews
        <4>1. Backed(ops, reviews)'
          BY <2>1, BackedStays
        <4> QED
          BY <3>2, <4>1
      <3> QED
        BY <2>3, <3>1, <3>2
    <2> QED
      BY <2>2, <2>4, ClaimsKept DEF EvidenceInv
  <1>9. ASSUME NEW m \in Msgs, ApplyRefused(m) \/ Unwelcome(m) \/ StoppedDuringProcessing(m)
        PROVE  EvidenceInv'
    BY <1>3, <1>9 DEF ApplyRefused, Unwelcome, StoppedDuringProcessing, Faults
  <1>10. CASE ReceiptRefused \/ RuntimeStopped
    BY <1>3, <1>10 DEF ReceiptRefused, RuntimeStopped, Faults
  <1> QED
    BY <1>1, <1>3, <1>4, <1>5, <1>6, <1>7, <1>8, <1>9, <1>10 DEF Next, Once, AtWork

\* Saying more can only make a session less plain.
LEMMA PlainWas == TypeOK /\ [Next]_vars /\ Plain' => Plain
  BY WrittenGrows DEF Plain

LEMMA ListedStep ==
  ASSUME TypeOK, WorkerInv, ListedInv, [Next]_vars
  PROVE  ListedInv'
  <1> SUFFICES ASSUME Plain'
               PROVE  ListedAttempt' /\ \A j \in Jobs : Listed(receipt[j], receipt[j].cursor)'
    BY DEF ListedInv
  <1> USE WorkerShape, Parameters
  <1>0. Plain /\ ListedAttempt /\ \A j \in Jobs : Listed(receipt[j], receipt[j].cursor)
    BY PlainWas DEF ListedInv
  <1>1. CASE worker' = worker /\ receipt' = receipt
    BY <1>0, <1>1 DEF ListedAttempt, Listed
  <1>2. CASE worker' = Idle /\ receipt' = receipt
    BY <1>0, <1>2 DEF ListedAttempt, Listed, Idle
  <1>3. CASE Around \/ UNCHANGED vars
    BY <1>1, <1>3 DEF Around, Speak, SetMode, Enqueue, Revive, AcceptReview, CloseReview,
                      FinishMilestone, SetMilestone, vars
  <1>4. CASE Faults \/ Refused \/ Commit
    BY <1>2, <1>4 DEF Faults, Fault, OwnershipRefused, Crash, Refused, Commit
  <1>5. ASSUME NEW j \in Jobs, Recover(j) \/ Claim(j)
        PROVE  ListedAttempt' /\ \A i \in Jobs : Listed(receipt[i], receipt[i].cursor)'
    <2>1. CASE Recover(j)
      BY <1>1, <2>1 DEF Recover
    <2>2. CASE Claim(j)
      BY <1>0, <2>2 DEF Claim, Idle, ListedAttempt, Listed
    <2> QED
      BY <1>5, <2>1, <2>2
  \* A step that lists nothing more.
  <1>6. ASSUME receipt' = receipt, worker'.phase # "claimed", worker'.at \in Int,
               worker'.reviews = worker.reviews, worker'.twice = worker.twice,
               worker.at <= worker'.at \/ worker.reviews = {}
        PROVE  ListedAttempt' /\ \A i \in Jobs : Listed(receipt[i], receipt[i].cursor)'
    <2>1. \A m \in worker.reviews : m \in Int
      BY ClaimsType
    <2> QED
      BY <1>0, <1>6, <2>1 DEF ListedAttempt, Listed
  <1>7. CASE StartReading
    <2>1. worker.reviews = {}
      BY <1>0, <1>7 DEF StartReading, ListedAttempt
    <2> QED
      BY <1>6, <1>7, <2>1 DEF StartReading, TypeOK, Attempts
  <1>8. CASE ReadIncrement \/ NextChunk \/ PersistCheckpoint
    <2>1. CASE ReadIncrement
      BY <1>6, <2>1 DEF ReadIncrement, TypeOK, Attempts
    <2>2. CASE NextChunk \/ PersistCheckpoint
      BY <1>6, <2>2 DEF NextChunk, PersistCheckpoint, TypeOK, Attempts
    <2> QED
      BY <1>8, <2>1, <2>2
  <1>9. CASE ReplayReceipt
    <2>1. PICK r \in Receipts : r = receipt[worker.job] /\ Listed(r, r.cursor)
      BY <1>0, <1>9 DEF ReplayReceipt, TypeOK
    <2>2. /\ receipt' = receipt /\ worker'.phase = "applying" /\ worker'.at = r.cursor
          /\ worker'.reviews = r.reviews /\ worker'.twice = r.twice
      BY <1>9, <2>1 DEF ReplayReceipt, TypeOK, Attempts
    <2> QED
      BY <1>0, <2>1, <2>2 DEF ListedAttempt, Listed
  <1>10. ASSUME NEW m \in Msgs, Skip(m) \/ AddReview(m) \/ Apply(m) \/ Reapply(m)
         PROVE  ListedAttempt' /\ \A i \in Jobs : Listed(receipt[i], receipt[i].cursor)'
    <2>1. AtMessage(m) /\ receipt' = receipt
      BY <1>10 DEF Skip, AddReview, Apply, Reapply
    <2>2. m = worker.at + 1 /\ worker.phase = "applying"
      BY <2>1 DEF AtMessage
    <2>3. CASE Skip(m) \/ Apply(m) \/ Reapply(m)
      <3>1. /\ worker'.at = m /\ worker'.phase = "applying"
            /\ worker'.reviews = worker.reviews /\ worker'.twice = worker.twice
        <4>1. \/ worker' = [worker EXCEPT !.at = m]
              \/ worker' = [worker EXCEPT !.at = m, !.ops = @ \union {m}]
          BY <2>3 DEF Skip, Apply, Reapply, Applied
        <4>2. worker \in Attempts
          BY DEF TypeOK
        <4> QED
          BY <2>2, <4>1, <4>2 DEF Attempts
      <3> QED
        BY <1>6, <2>1, <2>2, <3>1
    <2>4. CASE AddReview(m)
      <3>1. Item[m] = m
        <4>1. m \in 1 .. written
          BY <2>1, <2>2 DEF AtMessage, WorkerInv, ChunkInv
        <4> QED
          BY <1>0, <4>1 DEF Plain
      <3>2. m \notin worker.reviews
        BY <1>0, <2>2 DEF ListedAttempt, Listed
      <3>3. worker'.at = m /\ worker'.phase = "applying"
        BY <2>2, <2>4 DEF AddReview, TypeOK, Attempts
      <3>4. \/ worker'.reviews = worker.reviews /\ worker'.twice = worker.twice
            \/ /\ worker'.reviews = worker.reviews \union {m}
               /\ worker'.twice = (worker.twice \/ m \in worker.reviews)
        BY <2>4, <3>1 DEF AddReview, TypeOK, Attempts
      <3>5. ~worker'.twice
        BY <1>0, <3>2, <3>4 DEF ListedAttempt, Listed
      <3>6. \A i \in worker.reviews : i <= m
        <4>1. \A i \in worker.reviews : i \in Int /\ i <= worker.at
          BY <1>0, ClaimsType DEF ListedAttempt, Listed
        <4> QED
          BY <2>2, <4>1
      <3>7. \A i \in worker'.reviews : i <= m
        BY <3>4, <3>6
      <3> QED
        BY <1>0, <2>1, <3>3, <3>5, <3>7 DEF ListedAttempt, Listed
    <2> QED
      BY <1>10, <2>3, <2>4
  <1>11. CASE WriteReceipt
    <2>1. /\ worker'.phase = "receipted" /\ worker'.at = worker.at
          /\ worker'.reviews = worker.reviews /\ worker'.twice = worker.twice
          /\ worker.at = worker.to
      BY <1>11 DEF WriteReceipt, TypeOK, Attempts
    <2>2. ASSUME NEW j \in Jobs  PROVE Listed(receipt[j], receipt[j].cursor)'
      <3>1. CASE j = worker.job
        <4>1. receipt'[j] = [cursor |-> worker.to, ops |-> worker.ops,
                             reviews |-> worker.reviews, twice |-> worker.twice]
          BY <1>11, <3>1 DEF WriteReceipt, TypeOK
        <4> QED
          BY <1>0, <2>1, <4>1 DEF ListedAttempt, Listed
      <3>2. CASE j # worker.job
        <4>1. receipt'[j] = receipt[j]
          BY <1>11, <3>2 DEF WriteReceipt, TypeOK
        <4> QED
          BY <1>0, <4>1 DEF Listed
      <3> QED
        BY <3>1, <3>2
    <2> QED
      BY <1>0, <2>1, <2>2 DEF ListedAttempt, Listed
  <1>12. ASSUME NEW m \in Msgs, ApplyRefused(m) \/ Unwelcome(m) \/ StoppedDuringProcessing(m)
         PROVE  ListedAttempt' /\ \A i \in Jobs : Listed(receipt[i], receipt[i].cursor)'
    BY <1>4, <1>12 DEF ApplyRefused, Unwelcome, StoppedDuringProcessing, Faults
  <1>13. CASE ReceiptRefused \/ RuntimeStopped
    BY <1>4, <1>13 DEF ReceiptRefused, RuntimeStopped, Faults
  <1> QED
    BY <1>3, <1>4, <1>5, <1>7, <1>8, <1>9, <1>10, <1>11, <1>12, <1>13
       DEF Next, Once, AtWork

\* While nothing unwelcome was said the code refuses nothing of its own.
LEMMA NeverRefused ==
  ASSUME TypeOK, WorkerInv, EvidenceInv, ListedInv, Plain
  PROVE  /\ ~ReceiptRefused
         /\ \A m \in Msgs : ~ApplyRefused(m) /\ ~Unwelcome(m)
  <1> USE WorkerShape, Parameters
  <1>1. ~ReceiptRefused
    <2> SUFFICES ASSUME ReceiptRefused  PROVE FALSE
      OBVIOUS
    <2>1. PICK r \in Receipts : /\ r = receipt[worker.job] /\ Backed(r.ops, r.reviews)
                                /\ ~r.twice
      BY DEF ReceiptRefused, TypeOK, EvidenceInv, ListedInv, Listed
    <2>2. \A m \in r.ops : m \in 1 .. written
      BY <2>1 DEF Backed, Receipts
    <2>3. Proven(r)
      BY <2>1, <2>2 DEF Proven, Backed, Plain
    <2> QED
      BY <2>1, <2>3 DEF ReceiptRefused
  <1>2. ASSUME NEW m \in Msgs, AtMessage(m)  PROVE m \in 1 .. written
    BY <1>2 DEF AtMessage, WorkerInv, ChunkInv
  <1> QED
    BY <1>1, <1>2 DEF ApplyRefused, Unwelcome, Plain

\* A step that delivers nothing, blames nobody and keeps the attempt going.
LEMMA BlameKept ==
  ASSUME TypeOK, BlameInv, Plain' => Plain,
         UNCHANGED <<tries, blame>>,
         \A j \in Jobs : /\ Attempted(j) => Attempted(j)'
                         /\ job'[j] \notin {"done", "dead"} => job[j] \notin {"done", "dead"}
                         /\ job'[j] = "dead" => job[j] = "dead"
  PROVE  BlameInv'
  <1> SUFFICES ASSUME Plain', NEW j \in Jobs  PROVE PaidFor(j)'
    BY DEF BlameInv
  <1>1. PaidFor(j)
    BY DEF BlameInv
  <1>2. /\ tries'[j] = tries[j] /\ blame'[j] = blame[j]
        /\ Attempted(j) => Attempted(j)'
        /\ job'[j] \notin {"done", "dead"} => job[j] \notin {"done", "dead"}
        /\ job'[j] = "dead" => job[j] = "dead"
    OBVIOUS
  <1> QED
    BY <1>1, <1>2 DEF PaidFor

LEMMA BlameStep ==
  ASSUME TypeOK, TypeOK', WorkerInv, EvidenceInv, ListedInv, BlameInv, [Next]_vars
  PROVE  BlameInv'
  <1> SUFFICES ASSUME Plain'  PROVE BlameInv'
    BY DEF BlameInv
  <1>0. Plain
    BY WrittenGrows DEF Plain
  <1>a. ASSUME NEW j \in Jobs
        PROVE  PaidFor(j) /\ tries[j] \in Nat /\ blame[j] \in Nat
    BY <1>0 DEF BlameInv, TypeOK, Q!TypeOK
  <1>b. MaxAttempts \in Nat
    BY Parameters
  <1>c. ASSUME job' = job \/ \E j \in Jobs : job[j] = "new" /\ job' = [job EXCEPT ![j] = "ready"],
               UNCHANGED <<tries, blame, worker>>
        PROVE  BlameInv'
    <2>1. \A j \in Jobs : /\ job'[j] \notin {"done", "dead"} => job[j] \notin {"done", "dead"}
                          /\ job'[j] = "dead" => job[j] = "dead"
      BY <1>c DEF TypeOK, Q!TypeOK
    <2>2. \A j \in Jobs : Attempted(j) => Attempted(j)'
      BY <1>c DEF Attempted
    <2> QED
      BY <1>0, <1>c, <2>1, <2>2, BlameKept
  <1>1. CASE Speak \/ SetMode \/ FinishMilestone \/ SetMilestone \/ UNCHANGED vars
    BY <1>c, <1>1 DEF Speak, SetMode, FinishMilestone, SetMilestone, vars
  <1>2. ASSUME NEW m \in Msgs, AcceptReview(m) \/ CloseReview(m)  PROVE BlameInv'
    BY <1>c, <1>2 DEF AcceptReview, CloseReview
  <1>3. ASSUME NEW j \in Jobs, Enqueue(j)  PROVE BlameInv'
    BY <1>c, <1>3 DEF Enqueue, Q!Accept, Q!Become
  <1>4. ASSUME NEW j \in Jobs, Revive(j)  PROVE BlameInv'
    <2>1. /\ job[j] = "dead" /\ job' = [job EXCEPT ![j] = "ready"]
          /\ tries' = [tries EXCEPT ![j] = 0] /\ blame' = [blame EXCEPT ![j] = 0]
          /\ worker' = worker
      BY <1>4 DEF Revive, Q!Revive, Q!Become
    <2>2. ASSUME NEW i \in Jobs  PROVE PaidFor(i)'
      <3>1. CASE i = j
        BY <2>1, <3>1 DEF PaidFor, TypeOK, Q!TypeOK
      <3>2. CASE i # j
        <4>1. job'[i] = job[i] /\ tries'[i] = tries[i] /\ blame'[i] = blame[i]
          BY <2>1, <3>2 DEF TypeOK, Q!TypeOK
        <4> QED
          BY <1>a, <2>1, <4>1 DEF PaidFor, Attempted
      <3> QED
        BY <3>1, <3>2
    <2> QED
      BY <2>2 DEF BlameInv
  \* The end of the attempt on job j, blamed n more.
  <1>5. ASSUME NEW j \in Jobs, NEW n \in Nat, worker.phase # "idle", worker.job = j,
               worker' = Idle, UNCHANGED tries, blame' = [blame EXCEPT ![j] = @ + n],
               \/ job' = job /\ n = 1
               \/ job' = [job EXCEPT ![j] = "ready"] /\ n = 1
               \/ job' = [job EXCEPT ![j] = "dead"] /\ n = 1 /\ MaxAttempts <= tries[j]
               \/ job' = [job EXCEPT ![j] = "dead"] /\ n = MaxAttempts
               \/ job' = [job EXCEPT ![j] = "done"]
        PROVE  BlameInv'
    <2>1. job[j] = "taken"
      BY <1>5, WorkerShape
    <2>2. blame'[j] = blame[j] + n /\ tries'[j] = tries[j]
      BY <1>5 DEF TypeOK
    <2>3. \/ job'[j] \in {"taken", "ready"} /\ n = 1
          \/ job'[j] = "dead" /\ n = 1 /\ MaxAttempts <= tries[j]
          \/ job'[j] = "dead" /\ n = MaxAttempts
          \/ job'[j] = "done"
      BY <1>5, <2>1 DEF TypeOK, Q!TypeOK
    <2>4. tries[j] <= blame[j] + 1
      BY <1>a, <2>1 DEF PaidFor
    <2>5. tries[j] \in Nat /\ blame[j] \in Nat
      BY <1>a
    <2>6. PaidFor(j)'
      BY <1>b, <1>5, <2>2, <2>3, <2>4, <2>5 DEF PaidFor
    <2>7. ASSUME NEW i \in Jobs, i # j  PROVE PaidFor(i)'
      <3>1. blame'[i] = blame[i] /\ job'[i] = job[i] /\ tries'[i] = tries[i]
        BY <1>5, <2>7 DEF TypeOK, Q!TypeOK
      <3>2. ~Attempted(i)
        BY <1>5, <2>7 DEF Attempted
      <3> QED
        BY <1>a, <3>1, <3>2 DEF PaidFor
    <2> QED
      BY <2>6, <2>7 DEF BlameInv
  <1>6. CASE Fault
    <2>1. PICK j \in Jobs : j = worker.job
      BY <1>6, WorkerShape DEF Fault
    <2>2. tries[j] \in Nat /\ (~(tries[j] < MaxAttempts) => MaxAttempts <= tries[j])
      BY <1>a, <1>b
    <2>3. /\ worker.phase # "idle" /\ worker' = Idle /\ AttemptEnds(j)
          /\ blame' = [blame EXCEPT ![j] = @ + 1]
      BY <1>6, <2>1 DEF Fault, Blamed
    <2>4. /\ tries' = tries
          /\ \/ job' = [job EXCEPT ![j] = "ready"]
             \/ job' = [job EXCEPT ![j] = "dead"] /\ MaxAttempts <= tries[j]
      BY <2>2, <2>3, AttemptEndsQueue
    <2> QED
      BY <1>5, <2>1, <2>3, <2>4
  <1>7. CASE OwnershipRefused
    <2>1. PICK j \in Jobs : j = worker.job
      BY <1>7, WorkerShape DEF OwnershipRefused
    <2>2. /\ worker.phase # "idle" /\ worker' = Idle /\ tries' = tries
          /\ blame' = [blame EXCEPT ![j] = @ + MaxAttempts]
          /\ job' = [job EXCEPT ![j] = "dead"]
      BY <1>7, <2>1 DEF OwnershipRefused, Blamed, Q!Bury, Q!Become
    <2> QED
      BY <1>b, <1>5, <2>1, <2>2
  <1>8. CASE Crash
    <2>1. PICK j \in Jobs : j = worker.job
      BY <1>8, WorkerShape DEF Crash
    <2>2. /\ worker.phase # "idle" /\ worker' = Idle /\ tries' = tries /\ job' = job
          /\ blame' = [blame EXCEPT ![j] = @ + 1]
      BY <1>8, <2>1 DEF Crash, Blamed
    <2> QED
      BY <1>5, <2>1, <2>2
  <1>9. CASE Commit
    <2>1. PICK j \in Jobs : j = worker.job
      BY <1>9, WorkerShape DEF Commit
    <2>2. /\ worker.phase # "idle" /\ worker' = Idle /\ tries' = tries
          /\ blame' = blame /\ job' = [job EXCEPT ![j] = "done"]
      BY <1>9, <2>1 DEF Commit, Q!Finish, Q!Become
    <2>3. blame' = [blame EXCEPT ![j] = @ + 0]
      BY <2>2 DEF TypeOK
    <2> QED
      BY <1>5, <2>1, <2>2, <2>3
  <1>10. ASSUME NEW j \in Jobs, Recover(j)  PROVE BlameInv'
    <2>1. tries[j] \in Nat /\ (~(tries[j] < MaxAttempts) => MaxAttempts <= tries[j])
      BY <1>a, <1>b
    <2>2. /\ worker.phase = "idle" /\ worker' = worker /\ blame' = blame /\ tries' = tries
          /\ job[j] = "taken"
          /\ \/ job' = [job EXCEPT ![j] = "ready"]
             \/ MaxAttempts <= tries[j] /\ job' = [job EXCEPT ![j] = "dead"]
      BY <1>10, <2>1, AttemptEndsQueue DEF Recover
    <2>3. ASSUME NEW i \in Jobs  PROVE PaidFor(i)'
      <3>1. ~Attempted(i)
        BY <2>2 DEF Attempted
      <3>2. PaidFor(i) /\ tries'[i] = tries[i] /\ blame'[i] = blame[i]
        BY <1>a, <2>2
      <3>3. \/ job'[i] = job[i]
            \/ job[i] = "taken" /\ job'[i] = "ready"
            \/ job[i] = "taken" /\ job'[i] = "dead" /\ MaxAttempts <= tries[i]
        BY <2>2 DEF TypeOK, Q!TypeOK
      <3>4. tries[i] \in Nat /\ blame[i] \in Nat
        BY <1>a
      <3> QED
        BY <1>b, <3>1, <3>2, <3>3, <3>4 DEF PaidFor
    <2> QED
      BY <2>3 DEF BlameInv
  <1>11. ASSUME NEW j \in Jobs, Claim(j)  PROVE BlameInv'
    <2>1. /\ worker.phase = "idle" /\ blame' = blame /\ job[j] = "ready"
          /\ job' = [job EXCEPT ![j] = "taken"] /\ tries' = [tries EXCEPT ![j] = @ + 1]
          /\ worker'.phase = "claimed" /\ worker'.job = j
      BY <1>11 DEF Claim, Q!Deliver, Q!Become, Idle
    <2>2. ASSUME NEW i \in Jobs  PROVE PaidFor(i)'
      <3>1. ~Attempted(i)
        BY <2>1 DEF Attempted
      <3>2. PaidFor(i) /\ blame'[i] = blame[i] /\ tries[i] \in Nat /\ blame[i] \in Nat
        BY <1>a, <2>1
      <3>3. CASE i = j
        <4>1. job'[i] = "taken" /\ tries'[i] = tries[i] + 1 /\ Attempted(i)'
          BY <2>1, <3>3 DEF Attempted, TypeOK, Q!TypeOK
        <4>2. tries[i] <= blame[i]
          BY <2>1, <3>1, <3>2, <3>3 DEF PaidFor
        <4> QED
          BY <3>2, <4>1, <4>2 DEF PaidFor
      <3>4. CASE i # j
        <4>1. job'[i] = job[i] /\ tries'[i] = tries[i]
          BY <2>1, <3>4 DEF TypeOK, Q!TypeOK
        <4> QED
          BY <3>1, <3>2, <4>1 DEF PaidFor
      <3> QED
        BY <3>3, <3>4
    <2> QED
      BY <2>2 DEF BlameInv
  \* A step of the attempt.
  <1>12. ASSUME UNCHANGED <<job, tries, blame>>,
                worker.phase # "idle" => worker'.phase # "idle", worker'.job = worker.job
         PROVE  BlameInv'
    <2>1. \A j \in Jobs : Attempted(j) => Attempted(j)'
      BY <1>12 DEF Attempted
    <2> QED
      BY <1>0, <1>12, <2>1, BlameKept
  <1>13. CASE \/ StartReading \/ ReplayReceipt \/ ReadIncrement \/ NextChunk
              \/ WriteReceipt \/ PersistCheckpoint
    <2>1. CASE StartReading
      BY <1>12, <2>1 DEF StartReading, TypeOK, Attempts
    <2>2. CASE ReplayReceipt
      BY <1>12, <2>2 DEF ReplayReceipt, TypeOK, Attempts
    <2>3. CASE ReadIncrement
      BY <1>12, <2>3 DEF ReadIncrement, TypeOK, Attempts
    <2>4. CASE NextChunk \/ WriteReceipt \/ PersistCheckpoint
      BY <1>12, <2>4 DEF NextChunk, WriteReceipt, PersistCheckpoint, TypeOK, Attempts
    <2> QED
      BY <1>13, <2>1, <2>2, <2>3, <2>4
  <1>14. ASSUME NEW m \in Msgs, Skip(m) \/ AddReview(m) \/ Apply(m) \/ Reapply(m)
         PROVE  BlameInv'
    <2>1. CASE Skip(m)
      BY <1>12, <2>1 DEF Skip, TypeOK, Attempts
    <2>2. CASE AddReview(m)
      BY <1>12, <2>2 DEF AddReview, TypeOK, Attempts
    <2>3. CASE Apply(m) \/ Reapply(m)
      BY <1>12, <2>3 DEF Apply, Reapply, Applied, TypeOK, Attempts
    <2> QED
      BY <1>14, <2>1, <2>2, <2>3
  <1>15. CASE RuntimeStopped \/ \E m \in Msgs : StoppedDuringProcessing(m)
    BY <1>6, <1>15 DEF RuntimeStopped, StoppedDuringProcessing
  <1> QED
    BY <1>0, <1>1, <1>2, <1>3, <1>4, <1>6, <1>7, <1>8, <1>9, <1>10, <1>11, <1>13,
       <1>14, <1>15, NeverRefused DEF Next, Once, AtWork, Around, Faults

-----------------------------------------------------------------------------
(* The theorems.                                                           *)

\* The order receipt, checkpoint, acknowledgement of Worker.once and what it
\* keeps true of every attempt, receipt and job: the invariant the others follow from.
THEOREM WorkerInvariant == Spec => [](TypeOK /\ WorkerInv)
  <1>1. Init => TypeOK /\ WorkerInv
    BY TypeInit, InvInit
  <1>2. TypeOK /\ WorkerInv /\ [Next]_vars => (TypeOK /\ WorkerInv)'
    BY InvStep
  <1> QED
    BY <1>1, <1>2, PTL DEF Spec

\* Every variable of CaptureWorker keeps its type for every value of the constants.
THEOREM WorkerTypes == Spec => []TypeOK
  BY WorkerInvariant, PTL

\* The checkpoint of a session never passes a message that was not dealt with.
THEOREM WorkerSkipsNothing == Spec => []NothingSkipped
  <1>1. WorkerInv => NothingSkipped
    BY DEF WorkerInv
  <1> QED
    BY <1>1, WorkerInvariant, PTL

\* A committed job has its receipt, and what was said before its hook is dealt with.
THEOREM WorkerCoversCommitted == Spec => []CommittedIsCovered
  <1>1. TypeOK /\ WorkerInv => CommittedIsCovered
    <2> SUFFICES ASSUME TypeOK, WorkerInv, NEW j \in Jobs, job[j] = "done"
                 PROVE  receipt[j] # NoReceipt /\ \A m \in 1 .. heard[j] : Handled(m)
      BY DEF CommittedIsCovered
    <2>1. JobInv(j) /\ receipt[j].cursor \in Int /\ heard[j] \in Int
      BY CursorIsInt DEF WorkerInv, TypeOK
    <2> QED
      BY <2>1 DEF JobInv
  <1> QED
    BY <1>1, WorkerInvariant, PTL

\* While the mode, the approval switch and the scope of the project stay what they
\* are no message makes two records: redelivery and receipt replay find the
\* operation receipt, a decided review item is not opened again.  (All three are the
\* owner's; ACTIVE after SHADOW may apply what a person accepts as well, see
\* ExactlyOnce in CaptureWorker.)
THEOREM WorkerExactlyOnce == Spec /\ [][UNCHANGED mode]_vars => []ExactlyOnce
  <1>1. Init => SteadyInv
    BY DEF Init, SteadyInv, OnceInv
  <1>2. TypeOK /\ SteadyInv /\ [Next]_vars /\ [UNCHANGED mode]_vars => SteadyInv'
    <2>1. [UNCHANGED mode]_vars => mode' = mode
      BY DEF vars
    <2> QED
      BY <2>1, SteadyStep
  <1>3. SteadyInv => ExactlyOnce
    BY DEF SteadyInv, OnceInv, ExactlyOnce
  <1> QED
    BY <1>1, <1>2, <1>3, WorkerTypes, PTL DEF Spec

\* What every attempt and receipt claims is in the stores; and of a plain session
\* no receipt lists a review item twice, so _verify_receipt_operations accepts every
\* replay, and every delivery of a job that is not done has been paid for with a
\* fault: the invariant behind WorkerBuriedByFaults.
THEOREM WorkerEvidence == Spec => []FaultInv
  <1>1. Init => FaultInv
    <2> SUFFICES ASSUME Init  PROVE FaultInv
      OBVIOUS
    <2>1. EvidenceInv /\ ListedInv
      BY DEF Init, Idle, NoReceipt, EvidenceInv, ClaimsBacked, Backed, ListedInv, ListedAttempt, Listed
    <2>2. BlameInv
      BY DEF Init, BlameInv, PaidFor
    <2> QED
      BY <2>1, <2>2 DEF FaultInv
  <1>2. TypeOK /\ WorkerInv /\ (TypeOK /\ WorkerInv)' /\ FaultInv /\ [Next]_vars => FaultInv'
    BY EvidenceStep, ListedStep, BlameStep DEF FaultInv
  <1> QED
    BY <1>1, <1>2, WorkerInvariant, PTL DEF Spec

\* A dead letter is the work of faults alone, unless the session said what the
\* code itself refuses (a milestone, or a candidate that nothing takes) or a
\* sentence of one item twice (its receipt is refused, see UntamperedReviewReplays).
THEOREM WorkerBuriedByFaults == Spec => []BuriedByFaultsOnly
  <1>1. TypeOK /\ FaultInv => BuriedByFaultsOnly
    <2> SUFFICES ASSUME TypeOK, FaultInv, Plain, NEW j \in Jobs, job[j] = "dead"
                 PROVE  blame[j] >= MaxAttempts
      BY DEF BuriedByFaultsOnly
    <2>1. PaidFor(j) /\ blame[j] \in Nat /\ MaxAttempts \in Nat
      BY Parameters DEF FaultInv, BlameInv, TypeOK
    <2> QED
      BY <2>1 DEF PaidFor
  <1> QED
    BY <1>1, WorkerTypes, WorkerEvidence, PTL
=============================================================================

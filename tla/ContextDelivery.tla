--------------------------- MODULE ContextDelivery ---------------------------
(***************************************************************************)
(* The way of a context to a client (src/brain_eleven/runtime/launcher.py, *)
(* context.py, maintenance_delivery.py): a hook of a session finds the     *)
(* service, asks it for a context, writes the answer to the client and     *)
(* only then records the delivery.  The service compiles from stores that  *)
(* change meanwhile, and goes on when the hook has stopped waiting.        *)
(***************************************************************************)
EXTENDS Integers

CONSTANTS Hooks,       \* hook processes of one session
          Turns,       \* its prompts
          Bootstrap,   \* the turn of every session start
          MaxStoreWrites,   \* bound on writes to the memory, to the state, of reports
          MaxFaults    \* bound on crashes of hooks and of the service

ASSUME DeliveryAssumption == MaxStoreWrites \in Nat /\ MaxFaults \in Nat

VARIABLES setting, enrolled, \* what the owner allows
          memory, state,    \* revisions of the two stores
          reports,          \* published reports, by the revisions they are of
          acked,            \* reports with a delivery receipt for the session
          up,               \* the service answers
          hook, request,    \* a hook, and what the service does for it
          handed,           \* delivery receipt of each turn
          stored, faults,
          emitted,          \* history: contexts written to the client, by turn
          torn,             \* history: emissions whose receipt was lost
          moments           \* history: revisions that stood together

contextVars == <<setting, enrolled, memory, state, reports, acked, up, hook, request, handed,
                 stored, faults, emitted, torn, moments>>
owner == <<setting, enrolled>>
sources == <<memory, state, reports, stored, moments>>
emissions == <<emitted, torn>>

AllTurns == Turns \union {Bootstrap}
NoContext == [memory |-> 0, state |-> 0]
NoAnswer == [from |-> NoContext, reminder |-> NoContext]
IdleHook == [at |-> "idle", turn |-> Bootstrap, answer |-> NoAnswer]
NothingAsked == [at |-> "none", answer |-> NoAnswer]
Current == [memory |-> memory, state |-> state]

ContextInit ==
  /\ setting \in {"OFF", "ACTIVE"} /\ enrolled = TRUE
  /\ memory = 1 /\ state = 1 /\ moments = {Current}
  /\ reports \in {{}, {Current}} /\ acked = {}
  /\ up \in BOOLEAN
  /\ hook = [h \in Hooks |-> IdleHook] /\ request = [h \in Hooks |-> NothingAsked]
  /\ handed = [t \in AllTurns |-> "NONE"]
  /\ stored = 0 /\ faults = 0
  /\ emitted = [t \in AllTurns |-> 0] /\ torn = emitted

-----------------------------------------------------------------------------
(* The vault and the service as the hooks find them.                       *)

OwnerChanges ==
  /\ stored < MaxStoreWrites /\ stored' = stored + 1
  /\ \/ setting' \in {"OFF", "SHADOW", "ACTIVE"} \ {setting} /\ UNCHANGED enrolled
     \/ enrolled' = ~enrolled /\ UNCHANGED setting
  /\ UNCHANGED <<memory, state, reports, moments, acked, up, hook, request, handed, faults, emissions>>

StoreChanges ==
  /\ stored < MaxStoreWrites /\ stored' = stored + 1
  /\ \/ memory' = memory + 1 /\ UNCHANGED <<state, reports>>
     \/ state' = state + 1 /\ UNCHANGED <<memory, reports>>
     \/ Current \notin reports /\ reports' = reports \union {Current} /\ UNCHANGED <<memory, state>>
  /\ moments' = moments \union {Current'}
  /\ UNCHANGED <<owner, acked, up, hook, request, handed, faults, emissions>>

\* The service launched by some hook answers.
ServiceStarts ==
  /\ ~up /\ up' = TRUE
  /\ UNCHANGED <<owner, sources, acked, hook, request, handed, faults, emissions>>

\* It stops or dies, and every request with it.
ServiceStops ==
  /\ up /\ faults < MaxFaults /\ faults' = faults + 1
  /\ up' = FALSE /\ request' = [h \in Hooks |-> NothingAsked]
  /\ UNCHANGED <<owner, sources, acked, hook, handed, emissions>>

-----------------------------------------------------------------------------
(* hook and main of the launcher.                                          *)

HookDoes(h, new) == hook' = [hook EXCEPT ![h] = new]
Done(h) == [IdleHook EXCEPT !.at = "done", !.turn = hook[h].turn]

\* The delivery lock of the session is held until the receipt is written.
SessionLocked == \E h \in Hooks : hook[h].at \notin {"idle", "done"}

\* A hook that waits for the lock in vain ends with an error message; one
\* that finds the runtime off or the folder unknown says nothing.
HookStarts(h, t) ==
  /\ hook[h].at = "idle" /\ ~SessionLocked
  /\ HookDoes(h, [IdleHook EXCEPT !.turn = t, !.at = IF setting = "OFF" \/ ~enrolled THEN "done" ELSE "probing"])
  /\ UNCHANGED <<owner, sources, acked, up, request, handed, faults, emissions>>
LockTimesOut(h) ==
  /\ hook[h].at = "idle" /\ SessionLocked
  /\ HookDoes(h, [IdleHook EXCEPT !.at = "done"])
  /\ UNCHANGED <<owner, sources, acked, up, request, handed, faults, emissions>>

\* ensure_service.  A bootstrap that finds no service leaves a receipt that
\* lets a later one try again.
Probes(h) ==
  /\ hook[h].at = "probing"
  /\ \/ up /\ HookDoes(h, [hook[h] EXCEPT !.at = "looking"])
     \/ ~up /\ HookDoes(h, IF hook[h].turn = Bootstrap THEN [hook[h] EXCEPT !.at = "excusing"] ELSE Done(h))
  /\ UNCHANGED <<owner, sources, acked, up, request, handed, faults, emissions>>

\* It does not look at the receipt it replaces.
Excuses(h) ==
  LET t == hook[h].turn IN
  /\ hook[h].at = "excusing"
  /\ handed' = [handed EXCEPT ![t] = "NOT_COMPILED"]
  /\ torn' = IF handed[t] = "EMITTED" THEN [torn EXCEPT ![t] = @ + 1] ELSE torn
  /\ HookDoes(h, Done(h))
  /\ UNCHANGED <<owner, sources, acked, up, request, faults, emitted>>

\* Bug: the receipt of an earlier delivery is not read.
AsksAgain(h) ==
  /\ hook[h].at = "looking"
  /\ IF ~up THEN HookDoes(h, Done(h)) /\ UNCHANGED request
     ELSE /\ HookDoes(h, [hook[h] EXCEPT !.at = "waiting"])
          /\ request' = [request EXCEPT ![h].at = "asked"]
  /\ UNCHANGED <<owner, sources, acked, up, handed, faults, emissions>>

Asks(h) ==
  /\ hook[h].at = "looking"
  /\ IF handed[hook[h].turn] = "EMITTED" \/ ~up THEN HookDoes(h, Done(h)) /\ UNCHANGED request
     ELSE /\ HookDoes(h, [hook[h] EXCEPT !.at = "waiting"])
          /\ request' = [request EXCEPT ![h].at = "asked"]
  /\ UNCHANGED <<owner, sources, acked, up, handed, faults, emissions>>

Answered(h) ==
  /\ hook[h].at = "waiting" /\ request[h].at = "answered"
  /\ HookDoes(h, [hook[h] EXCEPT !.at = "flushing", !.answer = request[h].answer])
  /\ request' = [request EXCEPT ![h] = NothingAsked]
  /\ UNCHANGED <<owner, sources, acked, up, handed, faults, emissions>>

\* The request has two seconds; the service is not told that nobody waits.
WaitsTooLong(h) ==
  /\ hook[h].at = "waiting"
  /\ HookDoes(h, Done(h))
  /\ UNCHANGED <<owner, sources, acked, up, request, handed, faults, emissions>>

\* Bug: the lock of the session ends with hook(), before the output is flushed.
FlushesUnlocked(h) ==
  LET t == hook[h].turn IN
  /\ hook[h].at = "flushing"
  /\ emitted' = IF hook[h].answer.from = NoContext THEN emitted ELSE [emitted EXCEPT ![t] = @ + 1]
  /\ handed' = [handed EXCEPT ![t] = "NONE"]
  /\ HookDoes(h, Done(h))
  /\ UNCHANGED <<owner, sources, acked, up, request, faults, torn>>

Flushes(h) ==
  /\ hook[h].at = "flushing"
  /\ emitted' = IF hook[h].answer.from = NoContext THEN emitted ELSE [emitted EXCEPT ![hook[h].turn] = @ + 1]
  /\ HookDoes(h, [hook[h] EXCEPT !.at = "recording"])
  /\ UNCHANGED <<owner, sources, acked, up, request, handed, faults, torn>>

\* An answer without a context is recorded as well.
RecordsDelivery(h) ==
  /\ hook[h].at = "recording"
  /\ handed' = [handed EXCEPT ![hook[h].turn] = "EMITTED"]
  /\ HookDoes(h, [hook[h] EXCEPT !.at = "done"])
  /\ UNCHANGED <<owner, sources, acked, up, request, faults, emissions>>

HookDies(h) ==
  /\ hook[h].at \notin {"idle", "done"} /\ faults < MaxFaults /\ faults' = faults + 1
  /\ torn' = IF hook[h].at = "recording" /\ hook[h].answer.from # NoContext
             THEN [torn EXCEPT ![hook[h].turn] = @ + 1] ELSE torn
  /\ HookDoes(h, [hook[h] EXCEPT !.at = "done"])
  /\ UNCHANGED <<owner, sources, acked, up, request, handed, emitted>>

-----------------------------------------------------------------------------
(* compile_bootstrap, and compile_context for a prompt.                    *)

ServiceDoes(h, at) == request' = [request EXCEPT ![h].at = at]
AnswersNothing(h) == request' = [request EXCEPT ![h] = [at |-> "answered", answer |-> NoAnswer]]
ServiceSide == <<owner, sources, up, hook, handed, faults, emissions>>

ReadsMemory(h) ==
  /\ request[h].at = "asked"
  /\ IF setting = "OFF" \/ ~enrolled THEN AnswersNothing(h)
     ELSE request' = [request EXCEPT ![h].at = "reading", ![h].answer.from.memory = memory]
  /\ UNCHANGED <<ServiceSide, acked>>

ReadsState(h) ==
  /\ request[h].at = "reading"
  /\ request' = [request EXCEPT ![h].at = IF hook[h].turn = Bootstrap THEN "looking" ELSE "composed",
                                ![h].answer.from.state = state]
  /\ UNCHANGED <<ServiceSide, acked>>

\* latest_reminder: a report of the revisions of this moment.
LooksForReport(h) ==
  /\ request[h].at = "looking"
  /\ request' = [request EXCEPT ![h].at = "composed",
                   ![h].answer.reminder = IF Current \in reports \ acked THEN Current ELSE NoContext]
  /\ UNCHANGED <<ServiceSide, acked>>

\* Bug: only the revision of the memory is compared.
ChecksMemory(h) ==
  /\ request[h].at = "composed"
  /\ IF request[h].answer.from.memory = memory THEN ServiceDoes(h, "current")
     ELSE request' = [request EXCEPT ![h] = [at |-> "failed", answer |-> NoAnswer]]
  /\ UNCHANGED <<ServiceSide, acked>>

\* _ensure_output_is_current: what was read is compared with the stores, the
\* memory before the state; another revision is an error.
Checks(h) ==
  /\ request[h].at \in {"composed", "comparing"}
  /\ \/ /\ request[h].at = "composed" /\ request[h].answer.from.memory = memory
        /\ ServiceDoes(h, "comparing")
     \/ /\ request[h].at = "comparing" /\ request[h].answer.from.state = state
        /\ ServiceDoes(h, "current")
     \/ /\ IF request[h].at = "composed" THEN request[h].answer.from.memory # memory
           ELSE request[h].answer.from.state # state
        /\ request' = [request EXCEPT ![h] = [at |-> "failed", answer |-> NoAnswer]]
  /\ UNCHANGED <<ServiceSide, acked>>

\* Mode and scope are read again; in SHADOW without shadow_recall a
\* prompt gets nothing, whatever the comparison that follows would say.
Revalidates(h) ==
  /\ request[h].at = "current"
  /\ IF setting = "OFF" \/ ~enrolled \/ (setting = "SHADOW" /\ hook[h].turn # Bootstrap) THEN AnswersNothing(h)
     ELSE ServiceDoes(h, IF hook[h].turn # Bootstrap THEN "revalidated"
                         ELSE IF request[h].answer.reminder = NoContext THEN "answered" ELSE "acking")
  /\ UNCHANGED <<ServiceSide, acked>>

\* inputs_current, for a prompt only; another revision is an empty answer.
Rechecks(h) ==
  LET from == request[h].answer.from IN
  /\ \/ /\ request[h].at = "revalidated" /\ from.memory = memory
        /\ ServiceDoes(h, "rechecking")
     \/ /\ request[h].at = "rechecking" /\ from.state = state
        /\ ServiceDoes(h, "answered")
     \/ /\ \/ request[h].at = "revalidated" /\ from.memory # memory
           \/ request[h].at = "rechecking" /\ from.state # state
        /\ AnswersNothing(h)
  /\ UNCHANGED <<ServiceSide, acked>>

\* Bug: the receipt is not looked for again under the lock.
AcksBlindly(h) ==
  /\ request[h].at = "acking"
  /\ acked' = acked \union {request[h].answer.reminder}
  /\ ServiceDoes(h, "answered")
  /\ UNCHANGED ServiceSide

\* ack_reminder: the first of the session's requests gets the reminder.
Acks(h) ==
  /\ request[h].at = "acking"
  /\ acked' = acked \union {request[h].answer.reminder}
  /\ request' = [request EXCEPT ![h].at = "answered",
                   ![h].answer.reminder = IF @ \in acked THEN NoContext ELSE @]
  /\ UNCHANGED ServiceSide

\* A failed request is an error response; the hook reports it.
RequestFails(h) ==
  /\ request[h].at = "failed" /\ hook[h].at = "waiting"
  /\ HookDoes(h, Done(h)) /\ request' = [request EXCEPT ![h] = NothingAsked]
  /\ UNCHANGED <<owner, sources, acked, up, handed, faults, emissions>>

-----------------------------------------------------------------------------
ContextNext ==
  \/ OwnerChanges \/ StoreChanges \/ ServiceStarts \/ ServiceStops
  \/ \E h \in Hooks :
       \/ \E t \in AllTurns : HookStarts(h, t)
       \/ LockTimesOut(h) \/ Probes(h) \/ Excuses(h) \/ Asks(h) \/ Answered(h)
       \/ WaitsTooLong(h) \/ Flushes(h) \/ RecordsDelivery(h) \/ HookDies(h)
       \/ ReadsMemory(h) \/ ReadsState(h) \/ LooksForReport(h) \/ Checks(h)
       \/ Revalidates(h) \/ Rechecks(h) \/ Acks(h) \/ RequestFails(h)

ContextSpec == ContextInit /\ [][ContextNext]_contextVars

-----------------------------------------------------------------------------
(* Properties                                                              *)

\* A context that reaches a hook was made of revisions of the two stores that
\* stood together at one moment, though they are read one after the other.
ContextIsOfAMoment ==
  \A h \in Hooks : hook[h].answer.from # NoContext => hook[h].answer.from \in moments

\* The reminder in a context is of the revisions the context is of, and of
\* all the answers of a session only one carries a report, though a request
\* goes on when its hook is gone and the next hook asks again.
RemindedOnceAndInTime ==
  LET answer(h) == IF request[h].at = "answered" THEN request[h].answer ELSE hook[h].answer
      reminder(h) == answer(h).reminder IN
  \A h \in Hooks : reminder(h) # NoContext =>
    /\ reminder(h) = answer(h).from
    /\ \A g \in Hooks \ {h} : reminder(g) # reminder(h)

\* A turn is given its context once more only for every emission whose
\* receipt was lost: to a crash before it was written, or to the receipt of a
\* later bootstrap that found no service.
EmittedOnce == \A t \in AllTurns : emitted[t] <= 1 + torn[t]

\* The three together: what a client is given, and how often.
DeliveryIsSound == ContextIsOfAMoment /\ RemindedOnceAndInTime /\ EmittedOnce
=============================================================================

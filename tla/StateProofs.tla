----------------------------- MODULE StateProofs -----------------------------
(***************************************************************************)
(* What the canonical state of the projects keeps, for every number of     *)
(* projects, writers, identities and requests: proofs about ProjectState.  *)
(***************************************************************************)
EXTENDS ProjectState, SequenceTheorems, TLAPS

Steps == {"idle", "start", "guarded", "entered", "started", "locked"}
Calls == [at : Steps, request : Requests \union {NoRequest}, target : Nat, expected : Nat]

\* A writer in a call: what it has checked still holds while it holds its locks.
CallFits(w) ==
  LET q == proc[w].request IN
  \/ proc[w] = Idle
  \/ /\ proc[w].at \in {"start", "guarded", "entered"} /\ q \in Requests
     /\ proc[w].target \in {None} \union DOMAIN rec
     /\ q.op = "move" => proc[w].target # None
     /\ proc[w].at = "guarded" => q.ref # None
     /\ proc[w].at \in {"guarded", "entered"} /\ q.ref # None => q.ref \in alive
     /\ proc[w].at = "entered" => q.project \notin archived

Guards(w) == proc[w].at \in {"guarded", "entered"} /\ proc[w].request.ref # None

\* Who holds which lock, by what it is at.
LocksFit ==
  /\ \A w \in Writers : /\ lock["memory"] = w <=> Guards(w)
                        /\ lock["registry"] = w <=> proc[w].at = "entered"
                        /\ lock["state"] # w
  /\ lock["memory"] = Migrator <=> proc[Migrator].at \in {"started", "locked"}
  /\ lock["state"] = Migrator <=> proc[Migrator].at = "locked"
  /\ lock["registry"] # Migrator
  /\ proc[Migrator].at \in {"idle", "started", "locked"}
  /\ proc[Migrator].at = "idle" => proc[Migrator] = Idle
  /\ proc[Migrator] # Idle => schema = 1

CallsFit ==
  /\ proc \in [Processes -> Calls] /\ lock \in [Locks -> Processes \union {None}]
  /\ archived \subseteq Projects /\ alive \subseteq Memories
  /\ \A w \in Writers : CallFits(w)
  /\ LocksFit

\* The log is a chain whose last links are the revisions r.
Later(log, i) == {j \in DOMAIN log : j > i /\ log[j].project = log[i].project}
Linked(log, r, i, later) ==
  /\ log[i].new <= r[log[i].project]
  /\ IF later = {} THEN log[i].new = r[log[i].project]
     ELSE \E j \in later : log[j].old = log[i].new /\ \A k \in later : j <= k
Chain(log, r) == \A i \in DOMAIN log : Linked(log, r, i, Later(log, i))

FileTypes ==
  /\ rev \in [Projects -> 0..MaxRevision]
  /\ rec \in Seq(Records) /\ Len(rec) <= MaxRecords
  /\ current \in [Projects -> [milestone : 0..Len(rec), objective : 0..Len(rec)]]
  /\ refs \in [Projects -> SUBSET Memories]
  /\ events \in Seq(Events) /\ Len(events) <= MaxEvents
  /\ schema \in {1, 2} /\ effects \in [Identities -> Nat]
  /\ DOMAIN receipts = Identities

\* An identity changed the file once if it has a receipt, and never before
\* the receipts were introduced.
ReceiptFits(i) ==
  /\ effects[i] = IF receipts[i] = NoReceipt THEN 0 ELSE 1
  /\ schema = 1 => receipts[i] = NoReceipt
  /\ receipts[i] # NoReceipt => receipts[i].project \in Projects /\ receipts[i].after \in Nat

FileFits ==
  /\ FileTypes /\ Chain(events, rev) /\ ReceiptsMatchLineage
  /\ \A i \in Identities : ReceiptFits(i)

StateInv == CallsFit /\ FileFits

-----------------------------------------------------------------------------
(* Names and calls.                                                        *)

LEMMA NamesAreApart ==
  /\ None = 0 /\ Migrator = -1 /\ None \notin Processes /\ Migrator \notin Writers
  /\ Writers \subseteq Processes /\ Migrator \in Processes
  /\ None \notin Projects /\ None \notin Identities /\ None \notin Memories
  /\ Projects \subseteq Nat /\ Memories \subseteq Nat
  /\ MaxEvents \in Nat \ {0} /\ MaxRecords \in Nat /\ MaxRevision \in Nat
  BY NamesAssumption DEF None, Migrator, Processes

LEMMA IdleIsTyped ==
  Idle \in Calls /\ Idle.at = "idle" /\ Idle.request = NoRequest /\ NoRequest.ref = None
  BY DEF Idle, Calls, Steps, None, NoRequest

\* A process goes on to v: what has to be shown of the locks it then holds.
LEMMA CallGoesOn ==
  ASSUME CallsFit, NEW w \in Writers, NEW v \in Calls,
         proc' = [proc EXCEPT ![w] = v],
         lock' \in [Locks -> Processes \union {None}],
         \A l \in Locks : lock'[l] = lock[l] \/ (lock[l] = w /\ lock'[l] = None)
                            \/ (lock[l] = None /\ lock'[l] = w),
         CallFits(w)', UNCHANGED <<archived, alive>>,
         schema' = schema, DOMAIN rec \subseteq DOMAIN rec',
         lock'["memory"] = w <=> v.at \in {"guarded", "entered"} /\ v.request.ref # None,
         lock'["registry"] = w <=> v.at = "entered",
         lock'["state"] # w
  PROVE  CallsFit'
  <1>1. \A x \in Processes : proc'[x] = IF x = w THEN v ELSE proc[x]
    BY NamesAreApart DEF CallsFit
  <1>2. proc' \in [Processes -> Calls]
    BY <1>1 DEF CallsFit
  <1>3. ASSUME NEW x \in Writers  PROVE CallFits(x)'
    <2>1. CASE x = w
      BY <2>1
    <2>2. CASE x # w
      <3>1. proc'[x] = proc[x] /\ CallFits(x)
        BY <1>1, <2>2, NamesAreApart DEF CallsFit
      <3> QED
        BY <3>1 DEF CallFits
    <2> QED
      BY <2>1, <2>2
  <1>4. \A x \in Processes \ {w} : \A l \in Locks : lock'[l] = x <=> lock[l] = x
    BY NamesAreApart
  <1>5. /\ "memory" \in Locks /\ "registry" \in Locks /\ "state" \in Locks
    BY DEF Locks
  <1>6. ASSUME NEW x \in Writers
        PROVE  /\ lock'["memory"] = x <=> Guards(x)'
               /\ lock'["registry"] = x <=> proc'[x].at = "entered"
               /\ lock'["state"] # x
    <2>1. CASE x = w
      BY <1>1, <2>1, NamesAreApart DEF Guards
    <2>2. CASE x # w
      BY <1>1, <1>4, <1>5, <2>2, NamesAreApart DEF CallsFit, LocksFit, Guards
    <2> QED
      BY <2>1, <2>2
  <1>7. proc'[Migrator] = proc[Migrator] /\ \A l \in Locks : lock'[l] = Migrator <=> lock[l] = Migrator
    BY <1>1, <1>4, NamesAreApart
  <1>8. LocksFit'
    BY <1>5, <1>6, <1>7 DEF CallsFit, LocksFit
  <1> QED
    BY <1>2, <1>3, <1>8 DEF CallsFit

\* A call ends: with an effect on the file or without one.
LEMMA EndsKeeps ==
  ASSUME CallsFit, NEW w \in Processes, Ends(w), UNCHANGED <<archived, alive>>,
         schema' = schema \/ w = Migrator, DOMAIN rec \subseteq DOMAIN rec'
  PROVE  CallsFit'
  <1>0. /\ "memory" \in Locks /\ "registry" \in Locks /\ "state" \in Locks
        /\ proc \in [Processes -> Calls] /\ lock \in [Locks -> Processes \union {None}]
    BY DEF Locks, CallsFit
  <1>1. \A x \in Processes : proc'[x] = IF x = w THEN Idle ELSE proc[x]
    BY <1>0 DEF Ends
  <1>2. proc' \in [Processes -> Calls]
    BY <1>0, <1>1, IdleIsTyped DEF Ends
  <1>3. \A l \in Locks : lock'[l] = IF lock[l] = w THEN None ELSE lock[l]
    BY DEF Ends
  <1>4. lock' \in [Locks -> Processes \union {None}]
    BY <1>0, <1>3 DEF Ends
  <1>5. ASSUME NEW x \in Writers  PROVE CallFits(x)'
    <2>1. CASE x = w
      BY <1>1, <2>1, NamesAreApart DEF CallFits
    <2>2. CASE x # w
      <3>1. proc'[x] = proc[x] /\ CallFits(x)
        BY <1>1, <2>2, NamesAreApart DEF CallsFit
      <3> QED
        BY <3>1 DEF CallFits
    <2> QED
      BY <2>1, <2>2
  <1>6. \A l \in Locks : lock'[l] # w /\ \A x \in Processes \ {w} : lock'[l] = x <=> lock[l] = x
    BY <1>3, NamesAreApart
  <1>7. ASSUME NEW x \in Writers
        PROVE  /\ lock'["memory"] = x <=> Guards(x)'
               /\ lock'["registry"] = x <=> proc'[x].at = "entered"
               /\ lock'["state"] # x
    <2>1. CASE x = w
      BY <1>0, <1>1, <1>6, <2>1, NamesAreApart, IdleIsTyped DEF Guards
    <2>2. CASE x # w
      BY <1>0, <1>1, <1>6, <2>2, NamesAreApart DEF CallsFit, LocksFit, Guards
    <2> QED
      BY <2>1, <2>2
  <1>8. LocksFit'
    <2>1. CASE w = Migrator
      <3>1. proc'[Migrator] = Idle /\ \A l \in Locks : lock'[l] # Migrator
        BY <1>1, <1>6, <2>1
      <3> QED
        BY <1>0, <1>7, <3>1, IdleIsTyped DEF LocksFit
    <2>2. CASE w # Migrator
      <3>1. proc'[Migrator] = proc[Migrator] /\ \A l \in Locks : lock'[l] = Migrator <=> lock[l] = Migrator
        BY <1>1, <1>6, <2>2, NamesAreApart
      <3> QED
        BY <1>0, <1>7, <2>2, <3>1 DEF CallsFit, LocksFit
    <2> QED
      BY <2>1, <2>2
  <1> QED
    BY <1>2, <1>4, <1>5, <1>8 DEF CallsFit

LEMMA LocksAreThree ==
  "memory" \in Locks /\ "registry" \in Locks /\ "state" \in Locks
    /\ \A l \in Locks : l \in {"memory", "registry", "state"}
  BY DEF Locks

LEMMA BeginKeeps ==
  ASSUME CallsFit, FileTypes, NEW w \in Writers, NEW q \in Requests, NEW target \in {None} \union DOMAIN rec,
         Begin(w, q, target)
  PROVE  CallsFit'
  <1>1. PICK v : v = [at |-> "start", request |-> q, target |-> target, expected |-> rev[q.project]]
    OBVIOUS
  <1>2. /\ proc[w] = Idle /\ proc' = [proc EXCEPT ![w] = v] /\ (q.op = "move" => target # None)
        /\ UNCHANGED <<document, archived, alive, lock, effects>>
    BY <1>1 DEF Begin
  <1>3. target \in Nat /\ rev[q.project] \in Nat
    <2>1. target \in Nat
      BY DEF FileTypes, None
    <2>2. q.project \in Projects
      BY RequestsAssumption DEF Mutations
    <2>3. rev[q.project] \in 0..MaxRevision
      BY <2>2 DEF FileTypes
    <2> QED
      BY <2>1, <2>3, NamesAreApart
  <1>4. v \in Calls /\ v.at = "start" /\ v.request = q /\ v.target = target
    BY <1>1, <1>3 DEF Calls, Steps
  <1>5. proc'[w] = v
    BY <1>2, NamesAreApart DEF CallsFit
  <1>6. CallFits(w)'
    BY <1>2, <1>4, <1>5 DEF CallFits, document
  <1>7. lock["memory"] # w /\ lock["registry"] # w /\ lock["state"] # w
    BY <1>2, IdleIsTyped DEF CallsFit, LocksFit, Guards
  <1>8. lock' \in [Locks -> Processes \union {None}] /\ lock' = lock
    BY <1>2 DEF CallsFit
  <1>9. UNCHANGED <<archived, alive, schema, rec>>
    BY <1>2 DEF document
  <1> QED
    BY <1>2, <1>4, <1>6, <1>7, <1>8, <1>9, CallGoesOn

\* A step at which a process keeps its request and takes a lock.
LEMMA TakeIsTyped ==
  ASSUME CallsFit, NEW w \in Processes, NEW l \in Locks, Take(l, w)
  PROVE  /\ lock' \in [Locks -> Processes \union {None}]
         /\ \A k \in Locks : lock'[k] = IF k = l THEN w ELSE lock[k]
         /\ lock[l] = None
  BY DEF Take, CallsFit

LEMMA GuardKeeps ==
  ASSUME CallsFit, NEW w \in Writers, Guard(w)
  PROVE  CallsFit'
  <1>1. PICK v : v = [proc[w] EXCEPT !.at = "guarded"]
    OBVIOUS
  <1>2. /\ proc[w].at = "start" /\ proc[w].request.ref # None /\ proc[w].request.ref \in alive
        /\ Take("memory", w) /\ proc' = [proc EXCEPT ![w] = v]
        /\ UNCHANGED <<document, archived, alive, effects>>
    BY <1>1 DEF Guard, Step
  <1>3. proc[w] \in Calls
    BY NamesAreApart DEF CallsFit
  <1>4. /\ v \in Calls /\ v.at = "guarded" /\ v.request = proc[w].request
        /\ v.target = proc[w].target
    BY <1>1, <1>3 DEF Calls, Steps
  <1>5. proc'[w] = v
    BY <1>2, NamesAreApart DEF CallsFit
  <1>6. CallFits(w)'
    <2>1. CallFits(w) /\ proc[w] # Idle
      BY <1>2, IdleIsTyped DEF CallsFit
    <2> QED
      BY <1>2, <1>4, <1>5, <2>1 DEF CallFits, document
  <1>7. /\ lock' \in [Locks -> Processes \union {None}]
        /\ \A k \in Locks : lock'[k] = IF k = "memory" THEN w ELSE lock[k]
        /\ lock["memory"] = None
    BY <1>2, LocksAreThree, NamesAreApart, TakeIsTyped
  <1>8. lock["registry"] # w /\ lock["state"] # w
    BY <1>2 DEF CallsFit, LocksFit
  <1>9. UNCHANGED <<archived, alive, schema, rec>>
    BY <1>2 DEF document
  <1> QED
    BY <1>2, <1>4, <1>6, <1>7, <1>8, <1>9, LocksAreThree, CallGoesOn

LEMMA EnterKeeps ==
  ASSUME CallsFit, NEW w \in Writers, Enter(w)
  PROVE  CallsFit'
  <1>1. PICK v : v = [proc[w] EXCEPT !.at = "entered"]
    OBVIOUS
  <1>2. /\ proc[w].at = "guarded" \/ (proc[w].at = "start" /\ proc[w].request.ref = None)
        /\ proc[w].request.project \notin archived
        /\ Take("registry", w) /\ proc' = [proc EXCEPT ![w] = v]
        /\ UNCHANGED <<document, archived, alive, effects>>
    BY <1>1 DEF Enter, Step
  <1>3. proc[w] \in Calls
    BY NamesAreApart DEF CallsFit
  <1>4. /\ v \in Calls /\ v.at = "entered" /\ v.request = proc[w].request
        /\ v.target = proc[w].target
    BY <1>1, <1>3 DEF Calls, Steps
  <1>5. proc'[w] = v
    BY <1>2, NamesAreApart DEF CallsFit
  <1>6. CallFits(w)'
    <2>1. CallFits(w) /\ proc[w] # Idle
      BY <1>2, IdleIsTyped DEF CallsFit
    <2> QED
      BY <1>2, <1>4, <1>5, <2>1 DEF CallFits, document
  <1>7. /\ lock' \in [Locks -> Processes \union {None}]
        /\ \A k \in Locks : lock'[k] = IF k = "registry" THEN w ELSE lock[k]
        /\ lock["registry"] = None
    BY <1>2, LocksAreThree, NamesAreApart, TakeIsTyped
  <1>8. /\ lock["memory"] = w <=> proc[w].request.ref # None
        /\ lock["state"] # w
    <2>1. CallFits(w) /\ proc[w] # Idle /\ (lock["memory"] = w <=> Guards(w)) /\ lock["state"] # w
      BY <1>2, IdleIsTyped DEF CallsFit, LocksFit
    <2> QED
      BY <1>2, <2>1 DEF CallFits, Guards
  <1>9. UNCHANGED <<archived, alive, schema, rec>>
    BY <1>2 DEF document
  <1> QED
    BY <1>2, <1>4, <1>6, <1>7, <1>8, <1>9, LocksAreThree, CallGoesOn

\* The owners of the registry and of the memory work under their lock.
LEMMA OwnersKeep ==
  ASSUME CallsFit, (\E p \in Projects : Archive(p)) \/ (\E m \in Memories : Delete(m))
  PROVE  CallsFit'
  <1>1. UNCHANGED <<document, lock, proc, effects>> /\ archived' \subseteq Projects /\ alive' \subseteq Memories
    BY DEF Archive, Delete, CallsFit
  <1>2. ASSUME NEW w \in Writers  PROVE CallFits(w)'
    <2>1. CallFits(w) /\ (lock["memory"] = w <=> Guards(w)) /\ (lock["registry"] = w <=> proc[w].at = "entered")
      BY DEF CallsFit, LocksFit
    <2>2. CASE \E p \in Projects : Archive(p)
      BY <1>1, <2>1, <2>2, NamesAreApart DEF CallFits, Archive, document
    <2>3. CASE \E m \in Memories : Delete(m)
      BY <1>1, <2>1, <2>3, NamesAreApart DEF CallFits, Delete, Guards, document
    <2> QED
      BY <2>2, <2>3
  <1>3. LocksFit'
    BY <1>1 DEF CallsFit, LocksFit, Guards, document
  <1> QED
    BY <1>1, <1>2, <1>3 DEF CallsFit

\* The migration takes the memory's lock and then the state's.
LEMMA MigrationKeeps ==
  ASSUME CallsFit, MigrationStarts \/ MigrationLocks
  PROVE  CallsFit' /\ UNCHANGED <<document, archived, alive, effects>>
  <1>1. PICK at \in {"started", "locked"}, l \in {"memory", "state"} :
          /\ Take(l, Migrator) /\ Step(Migrator, at)
          /\ UNCHANGED <<document, archived, alive, effects>>
          /\ \/ at = "started" /\ proc[Migrator] = Idle /\ schema = 1 /\ l = "memory"
             \/ at = "locked" /\ proc[Migrator].at = "started"
    BY DEF MigrationStarts, MigrationLocks
  <1>2. l \in Locks /\ Migrator \in Processes
    BY LocksAreThree, NamesAreApart
  <1>3. /\ lock' \in [Locks -> Processes \union {None}]
        /\ \A k \in Locks : lock'[k] = IF k = l THEN Migrator ELSE lock[k]
        /\ lock[l] = None
    BY <1>1, <1>2, TakeIsTyped
  <1>4. at = "locked" => l = "state"
    BY <1>1, <1>3, NamesAreApart DEF CallsFit, LocksFit
  <1>5. PICK v : v = [proc[Migrator] EXCEPT !.at = at]
    OBVIOUS
  <1>6. v \in Calls /\ v.at = at
    BY <1>2, <1>5 DEF CallsFit, Calls, Steps
  <1>7. /\ proc' \in [Processes -> Calls]
        /\ \A x \in Processes : proc'[x] = IF x = Migrator THEN v ELSE proc[x]
    BY <1>1, <1>2, <1>5, <1>6 DEF CallsFit, Step
  <1>8. ASSUME NEW w \in Writers
        PROVE  /\ CallFits(w)'
               /\ lock'["memory"] = w <=> Guards(w)'
               /\ lock'["registry"] = w <=> proc'[w].at = "entered"
               /\ lock'["state"] # w
    <2>1. proc'[w] = proc[w] /\ CallFits(w) /\ w # Migrator
      BY <1>7, NamesAreApart DEF CallsFit
    <2>2. \A k \in Locks : lock'[k] = w <=> lock[k] = w
      BY <1>3, <2>1, NamesAreApart
    <2>3. CallFits(w)'
      BY <1>1, <2>1 DEF CallFits, document
    <2> QED
      BY <2>1, <2>2, <2>3, LocksAreThree DEF CallsFit, LocksFit, Guards
  <1>9. LocksFit'
    <2>1. proc'[Migrator] = v /\ v.at = at /\ at # "idle"
      BY <1>1, <1>2, <1>6, <1>7
    <2>2. lock'["memory"] = Migrator /\ (lock'["state"] = Migrator <=> at = "locked")
          /\ lock'["registry"] # Migrator
      BY <1>1, <1>3, <1>4, LocksAreThree, IdleIsTyped DEF CallsFit, LocksFit
    <2>3. schema' = 1
      BY <1>1, IdleIsTyped DEF CallsFit, LocksFit, document
    <2> QED
      BY <1>1, <1>8, <2>1, <2>2, <2>3 DEF LocksFit
  <1> QED
    BY <1>1, <1>3, <1>7, <1>8, <1>9 DEF CallsFit

-----------------------------------------------------------------------------
(* The log.                                                                *)

LEMMA ChainGrows ==
  ASSUME NEW log \in Seq(Events), NEW r, r \in [Projects -> Nat], Chain(log, r),
         NEW p \in Projects, NEW e \in Events,
         e.project = p, e.old = r[p], e.new = r[p] + 1,
         NEW s, s = [r EXCEPT ![p] = r[p] + 1]
  PROVE  Chain(Append(log, e), s)
  <1>1. PICK long : long = Append(log, e)
    OBVIOUS
  <1>2. /\ long \in Seq(Events) /\ Len(long) = Len(log) + 1 /\ long[Len(log) + 1] = e
        /\ \A j \in 1..Len(log) : long[j] = log[j]
    BY <1>1, AppendProperties
  <1>3. /\ DOMAIN log = 1..Len(log) /\ DOMAIN long = 1..(Len(log) + 1) /\ Len(log) \in Nat
        /\ \A x \in Projects : s[x] = IF x = p THEN r[p] + 1 ELSE r[x]
        /\ \A j \in DOMAIN log : log[j].project \in Projects /\ log[j].new \in Nat
    <2>1. \A j \in DOMAIN log : log[j] \in Events
      OBVIOUS
    <2>2. \A j \in DOMAIN log : log[j].project \in Projects /\ log[j].new \in Nat
      BY <2>1 DEF Events
    <2>3. \A x \in Projects : s[x] = IF x = p THEN r[p] + 1 ELSE r[x]
      OBVIOUS
    <2> QED
      BY <1>2, <2>2, <2>3
  <1>4. ASSUME NEW i \in DOMAIN long
        PROVE  Linked(long, s, i, Later(long, i))
    <2> DEFINE later == Later(long, i)
    <2>0. /\ later = {j \in DOMAIN long : j > i /\ long[j].project = long[i].project}
          /\ (Linked(long, s, i, Later(long, i)) <=>
               /\ long[i].new <= s[long[i].project]
               /\ IF later = {} THEN long[i].new = s[long[i].project]
                  ELSE \E j \in later : long[j].old = long[i].new /\ \A k \in later : j <= k)
      BY DEF Later, Linked
    <2> HIDE DEF later
    <2>1. CASE i = Len(log) + 1
      <3>1. later = {} /\ long[i] = e
        BY <1>2, <1>3, <2>0, <2>1
      <3> QED
        BY <1>3, <2>0, <3>1
    <2>2. CASE i \in DOMAIN log
      <3>1. PICK before : before = {j \in DOMAIN log : j > i /\ log[j].project = log[i].project}
        OBVIOUS
      <3>a. before = Later(log, i)
        BY <3>1 DEF Later
      <3>2. /\ log[i].new <= r[log[i].project]
            /\ IF before = {} THEN log[i].new = r[log[i].project]
               ELSE \E j \in before : log[j].old = log[i].new /\ \A k \in before : j <= k
        BY <2>2, <3>a DEF Chain, Linked
      <3>3. long[i] = log[i] /\ log[i].project \in Projects /\ r[log[i].project] \in Nat /\ r[p] \in Nat
        BY <1>2, <1>3, <2>2
      <3>4. long[i].new <= s[long[i].project]
        BY <1>3, <2>2, <3>2, <3>3
      <3>5. CASE log[i].project # p
        <4>1. later = before
          BY <1>2, <1>3, <2>0, <2>2, <3>1, <3>3, <3>5
        <4>2. \A j \in before : long[j] = log[j]
          BY <1>2, <1>3, <3>1
        <4> QED
          BY <1>3, <2>0, <3>2, <3>3, <3>4, <3>5, <4>1, <4>2
      <3>6. CASE log[i].project = p
        <4>1. later = before \union {Len(log) + 1}
          BY <1>2, <1>3, <2>0, <2>2, <3>1, <3>3, <3>6
        <4>2. CASE before = {}
          <5>1. later = {Len(log) + 1} /\ long[Len(log) + 1].old = long[i].new
            BY <1>2, <3>2, <3>3, <3>6, <4>1, <4>2
          <5>2. \A k \in later : Len(log) + 1 <= k
            BY <1>3, <5>1
          <5>3. \E j \in later : long[j].old = long[i].new /\ \A k \in later : j <= k
            BY <5>1, <5>2
          <5>4. later # {}
            BY <5>1
          <5> QED
            BY <2>0, <3>4, <5>3, <5>4, Zenon
        <4>3. CASE before # {}
          <5>1. PICK j \in before : log[j].old = log[i].new /\ \A k \in before : j <= k
            BY <3>2, <4>3
          <5>2. j \in DOMAIN log /\ long[j] = log[j] /\ j <= Len(log) + 1
            BY <1>2, <1>3, <3>1, <5>1
          <5>3. j \in later /\ long[j].old = long[i].new /\ \A k \in later : j <= k
            BY <3>3, <4>1, <5>1, <5>2
          <5>4. later # {}
            BY <5>3
          <5> QED
            BY <2>0, <3>4, <5>3, <5>4, Zenon
        <4> QED
          BY <4>2, <4>3
      <3> QED
        BY <3>5, <3>6
    <2> QED
      BY <1>3, <2>1, <2>2
  <1> QED
    BY <1>1, <1>4 DEF Chain

\* Cutting off what is old leaves a chain.
LEMMA ChainIsCut ==
  ASSUME NEW log \in Seq(Events), NEW r, Chain(log, r), NEW n \in Nat, n < Len(log)
  PROVE  /\ Chain(SubSeq(log, n + 1, Len(log)), r)
         /\ SubSeq(log, n + 1, Len(log)) \in Seq(Events)
         /\ Len(SubSeq(log, n + 1, Len(log))) = Len(log) - n
         /\ \A i \in 1..(Len(log) - n) : SubSeq(log, n + 1, Len(log))[i] = log[i + n]
  <1>1. PICK cut : cut = SubSeq(log, n + 1, Len(log))
    OBVIOUS
  <1>2. /\ Len(log) \in Nat /\ n + 1 \in Int /\ DOMAIN log = 1..Len(log)
        /\ \A i \in (n + 1)..Len(log) : log[i] \in Events
    OBVIOUS
  <1>3. /\ cut \in Seq(Events) /\ Len(cut) = Len(log) - n
        /\ \A i \in 1..(Len(log) - n) : cut[i] = log[i + n]
    <2>1. /\ cut \in Seq(Events) /\ Len(cut) = IF n + 1 <= Len(log) THEN Len(log) - (n + 1) + 1 ELSE 0
          /\ \A i \in 1..(Len(log) - (n + 1) + 1) : cut[i] = log[n + 1 + i - 1]
      BY <1>1, <1>2, SubSeqProperties
    <2>2. Len(log) - (n + 1) + 1 = Len(log) - n /\ n + 1 <= Len(log)
      BY <1>2
    <2>3. \A i \in 1..(Len(log) - n) : n + 1 + i - 1 = i + n
      BY <1>2
    <2> QED
      BY <2>1, <2>2, <2>3
  <1>4. DOMAIN cut = 1..(Len(log) - n) /\ \A i \in DOMAIN cut : i + n \in DOMAIN log
    BY <1>2, <1>3
  <1>5. ASSUME NEW i \in DOMAIN cut
        PROVE  Linked(cut, r, i, Later(cut, i))
    <2> DEFINE later == Later(cut, i)
    <2>0. /\ later = {j \in DOMAIN cut : j > i /\ cut[j].project = cut[i].project}
          /\ (Linked(cut, r, i, Later(cut, i)) <=>
               /\ cut[i].new <= r[cut[i].project]
               /\ IF later = {} THEN cut[i].new = r[cut[i].project]
                  ELSE \E j \in later : cut[j].old = cut[i].new /\ \A k \in later : j <= k)
      BY DEF Later, Linked
    <2> HIDE DEF later
    <2>1. PICK before : /\ before = Later(log, i + n)
                        /\ before = {j \in DOMAIN log : j > i + n /\ log[j].project = log[i + n].project}
      BY DEF Later
    <2>2. i + n \in DOMAIN log /\ cut[i] = log[i + n]
      BY <1>3, <1>4
    <2>3. /\ log[i + n].new <= r[log[i + n].project]
          /\ IF before = {} THEN log[i + n].new = r[log[i + n].project]
             ELSE \E j \in before : log[j].old = log[i + n].new /\ \A k \in before : j <= k
      BY <2>1, <2>2 DEF Chain, Linked
    <2>4. \A j \in later : j + n \in before /\ cut[j] = log[j + n]
      <3>1. ASSUME NEW j \in later  PROVE j + n \in before /\ cut[j] = log[j + n]
        <4>1. j \in DOMAIN cut /\ j > i /\ cut[j].project = cut[i].project
          BY <2>0
        <4>2. j + n \in DOMAIN log /\ cut[j] = log[j + n]
          BY <1>3, <1>4, <4>1
        <4>3. j + n > i + n
          BY <1>4, <4>1
        <4> QED
          BY <2>1, <2>2, <4>1, <4>2, <4>3
      <3> QED
        BY <3>1
    <2>5. \A j \in before : j - n \in later
      <3>1. ASSUME NEW j \in before  PROVE j - n \in later
        <4>1. j \in 1..Len(log) /\ i \in 1..(Len(log) - n) /\ j > i + n
          BY <1>2, <1>4, <2>1
        <4>2. j - n \in 1..(Len(log) - n) /\ j - n > i /\ (j - n) + n = j
          BY <1>2, <4>1
        <4>3. cut[j - n] = log[j]
          BY <1>3, <4>2
        <4> QED
          BY <1>4, <2>0, <2>1, <2>2, <4>2, <4>3
      <3> QED
        BY <3>1
    <2>6. CASE before = {}
      BY <2>0, <2>2, <2>3, <2>4, <2>6
    <2>7. CASE before # {}
      <3>1. PICK j \in before : log[j].old = log[i + n].new /\ \A k \in before : j <= k
        BY <2>3, <2>7
      <3>2. j - n \in later /\ j \in Nat
        BY <1>2, <2>1, <2>5, <3>1
      <3>3. cut[j - n] = log[j]
        <4>1. (j - n) + n = j
          BY <3>2
        <4> QED
          BY <2>4, <3>2, <4>1
      <3>4. ASSUME NEW k \in later  PROVE j - n <= k
        <4>1. k + n \in before /\ k \in Nat
          BY <1>4, <2>0, <2>4
        <4>2. j <= k + n
          BY <3>1, <4>1
        <4> QED
          BY <3>2, <4>1, <4>2
      <3> QED
        BY <2>0, <2>2, <2>3, <3>1, <3>2, <3>3, <3>4
    <2> QED
      BY <2>6, <2>7
  <1> QED
    BY <1>1, <1>3, <1>5 DEF Chain

\* An event e of a step of the project p from the revisions r to s, and the log
\* that has it: a bounded chain that has nothing else new.
Event(e, p, r, s) ==
  /\ r \in [Projects -> Nat] /\ p \in Projects /\ e \in Events
  /\ e.project = p /\ e.old = r[p] /\ e.new = r[p] + 1 /\ s = [r EXCEPT ![p] = r[p] + 1]
Extends(after, log, e, s) ==
  /\ after \in Seq(Events) /\ Len(after) <= MaxEvents /\ Chain(after, s)
  /\ \A k \in DOMAIN after : after[k] = e \/ \E j \in DOMAIN log : after[k] = log[j]

\* What append_event makes of the log.
LEMMA LogGrows ==
  ASSUME NEW log \in Seq(Events), Len(log) <= MaxEvents, NEW p, NEW e, NEW r, NEW s,
         Chain(log, r), Event(e, p, r, s)
  PROVE  Extends(Logged(log, e), log, e, s)
  <1>0. /\ r \in [Projects -> Nat] /\ p \in Projects /\ e \in Events
        /\ e.project = p /\ e.old = r[p] /\ e.new = r[p] + 1 /\ s = [r EXCEPT ![p] = r[p] + 1]
    BY DEF Event
  <1>1. PICK long : long = Append(log, e)
    OBVIOUS
  <1>2. /\ long \in Seq(Events) /\ Len(long) = Len(log) + 1
        /\ \A k \in DOMAIN long : long[k] = e \/ \E j \in DOMAIN log : long[k] = log[j]
    <2>1. /\ long \in Seq(Events) /\ Len(long) = Len(log) + 1 /\ long[Len(log) + 1] = e
          /\ \A j \in 1..Len(log) : long[j] = log[j]
      BY <1>0, <1>1, AppendProperties
    <2>2. DOMAIN log = 1..Len(log) /\ DOMAIN long = 1..(Len(log) + 1) /\ Len(log) \in Nat
      BY <2>1
    <2> QED
      BY <2>1, <2>2
  <1>3. Chain(long, s)
    BY <1>0, <1>1, ChainGrows
  <1>4. MaxEvents \in Nat \ {0} /\ Len(log) \in Nat
    BY NamesAreApart
  <1>5. CASE Len(long) <= MaxEvents
    <2>1. Logged(log, e) = long
      BY <1>1, <1>2, <1>4, <1>5 DEF Logged
    <2> QED
      BY <1>2, <1>3, <1>5, <2>1 DEF Extends
  <1>6. CASE Len(long) > MaxEvents
    <2>1. PICK n \in Nat : n = Len(long) - MaxEvents /\ n < Len(long)
      BY <1>2, <1>4, <1>6
    <2>2. PICK cut : cut = SubSeq(long, n + 1, Len(long))
      OBVIOUS
    <2>3. Logged(log, e) = cut
      BY <1>1, <1>6, <2>1, <2>2 DEF Logged
    <2>4. /\ Chain(cut, s) /\ cut \in Seq(Events) /\ Len(cut) = Len(long) - n
          /\ \A k \in 1..(Len(long) - n) : cut[k] = long[k + n]
      BY <1>2, <1>3, <2>1, <2>2, ChainIsCut
    <2>5. Len(cut) = MaxEvents /\ \A k \in DOMAIN cut : k + n \in DOMAIN long
      BY <1>2, <1>4, <2>1, <2>4
    <2>6. \A k \in DOMAIN cut : cut[k] = long[k + n]
      BY <2>4
    <2> QED
      BY <1>2, <1>4, <2>3, <2>4, <2>5, <2>6 DEF Extends
  <1> QED
    BY <1>2, <1>4, <1>5, <1>6

-----------------------------------------------------------------------------
(* Writes to the document.                                                 *)

\* What a mutation does, and the request it does it for.
MutationOf(w, q, p, target, id, e) ==
  /\ q = proc[w].request /\ p = q.project /\ target = proc[w].target
  /\ id = CASE q.op \in {"set", "add"} -> Len(rec) + 1
            [] q.op = "move" -> target
            [] OTHER -> q.ref
  /\ e = [project |-> p, old |-> rev[p], new |-> rev[p] + 1, record |-> id]

LEMMA AtMutation ==
  ASSUME StateInv, NEW w \in Writers, NEW q, NEW p, NEW target, NEW id, NEW e,
         MutationOf(w, q, p, target, id, e), Mutate(w)
  PROVE  /\ q \in Requests /\ q \in Mutations /\ p \in Projects /\ target \in {None} \union DOMAIN rec
         /\ p \notin archived /\ q.ref \in alive \union {None} /\ q.ref \in Nat
         /\ q.op = "move" => target \in DOMAIN rec /\ q.status \in Statuses
         /\ q.op = "set" => q.kind \in {"milestone", "objective"}
         /\ q.op = "add" => q.kind \in Kinds
         /\ q.op = "refer" => q.ref \in alive /\ q.ref \in Memories
         /\ q.op \in {"set", "add"} => Len(rec) < MaxRecords
         /\ id \in Nat /\ e \in Events /\ e.project = p /\ e.old = rev[p] /\ e.new = rev[p] + 1
         /\ e.record = id
         /\ rev[p] \in Nat /\ rev[p] + 1 \in 0..MaxRevision
         /\ q.identity # None =>
              q.identity \in Identities /\ schema = 2 /\ receipts[q.identity] = NoReceipt
  <1>1. /\ proc[w].at = "entered" /\ Fresh(w) /\ Legal(w) /\ rev[p] + 1 <= MaxRevision
        /\ q = proc[w].request /\ p = q.project /\ target = proc[w].target
    BY DEF Mutate, MutationOf
  <1>2. /\ proc[w] # Idle /\ q \in Requests /\ target \in {None} \union DOMAIN rec
        /\ q.op = "move" => target # None
        /\ q.ref # None => q.ref \in alive
        /\ p \notin archived
    BY <1>1, IdleIsTyped DEF StateInv, CallsFit, CallFits
  <1>3. /\ q \in Mutations /\ p \in Projects /\ q.ref \in Memories \union {None} /\ q.ref \in Nat
        /\ q.identity \in Identities \union {None} /\ q.op \in {"init", "set", "add", "move", "refer"}
        /\ q.status \in Statuses \union {"none"}
    <2>1. q \in Mutations
      BY <1>2, RequestsAssumption
    <2>2. /\ p \in Projects /\ q.ref \in Memories \union {None}
          /\ q.identity \in Identities \union {None} /\ q.op \in {"init", "set", "add", "move", "refer"}
          /\ q.status \in Statuses \union {"none"}
      BY <1>1, <2>1 DEF Mutations
    <2>3. None \in Nat
      BY NamesAreApart
    <2> QED
      BY <2>1, <2>2, <2>3, NamesAreApart
  <1>4. /\ q.op = "set" => q.kind \in {"milestone", "objective"}
        /\ q.op = "add" => q.kind \in Kinds
        /\ q.op = "refer" => q.ref # None
        /\ q.op = "move" => q.status # "none"
    BY <1>2, RequestsAssumption
  <1>5. q.op \in {"set", "add"} => Len(rec) < MaxRecords
    BY <1>1 DEF Legal
  <1>6. /\ rev[p] \in 0..MaxRevision /\ Len(rec) \in Nat /\ DOMAIN rec \subseteq Nat
        /\ MaxRevision \in Nat
    BY <1>3, NamesAreApart DEF StateInv, FileFits, FileTypes
  <1>7. id \in Nat
    <2>1. target \in Nat
      BY <1>2, <1>6, NamesAreApart
    <2> QED
      BY <1>3, <1>6, <2>1 DEF MutationOf
  <1>8. e \in Events /\ e.project = p /\ e.old = rev[p] /\ e.new = rev[p] + 1 /\ e.record = id
    BY <1>3, <1>6, <1>7 DEF MutationOf, Events
  <1>9. q.identity # None => q.identity \in Identities /\ schema = 2 /\ receipts[q.identity] = NoReceipt
    BY <1>1, <1>3 DEF Fresh, Known
  <1>10. rev[p] \in Nat /\ rev[p] + 1 \in 0..MaxRevision
    BY <1>1, <1>6
  <1> QED
    BY <1>2, <1>3, <1>4, <1>5, <1>7, <1>8, <1>9, <1>10

LEMMA MutationIsTyped ==
  ASSUME StateInv, NEW w \in Writers, NEW q, NEW p, NEW target, NEW id, NEW e,
         MutationOf(w, q, p, target, id, e), Mutate(w)
  PROVE  /\ FileTypes' /\ Chain(events', rev')
         /\ rev' = [rev EXCEPT ![p] = rev[p] + 1]
         /\ \A k \in DOMAIN events' : events'[k] = e \/ \E j \in DOMAIN events : events'[k] = events[j]
         /\ Len(rec) <= Len(rec') /\ DOMAIN rec \subseteq DOMAIN rec'
         /\ IF q.identity = None THEN UNCHANGED <<receipts, effects>>
            ELSE /\ receipts' = [receipts EXCEPT ![q.identity] = Receipt(q, id, rev[p])]
                 /\ effects' = [effects EXCEPT ![q.identity] = @ + 1]
         /\ UNCHANGED <<schema, archived, alive>>
         /\ refs' \in [Projects -> SUBSET Memories] /\ \A x \in Projects : refs'[x] \ refs[x] \subseteq alive
         /\ \A i \in DOMAIN rec' \ DOMAIN rec : rec'[i].ref = q.ref
  <1> DEFINE record == [kind |-> q.kind, status |-> First(q.kind), project |-> p, ref |-> q.ref]
  <1>1. /\ rev' = [rev EXCEPT ![p] = rev[p] + 1]
        /\ rec' = CASE q.op \in {"set", "add"} -> Append(rec, record)
                    [] q.op = "move" -> [rec EXCEPT ![id].status = q.status]
                    [] OTHER -> rec
        /\ current' = IF q.op = "set" THEN [current EXCEPT ![p][q.kind] = Len(rec) + 1] ELSE current
        /\ refs' = IF q.op = "refer" THEN [refs EXCEPT ![p] = @ \union {q.ref}] ELSE refs
        /\ events' = Logged(events, e)
        /\ IF q.identity = None THEN UNCHANGED <<receipts, effects>>
           ELSE /\ receipts' = [receipts EXCEPT ![q.identity] = Receipt(q, id, rev[p])]
                /\ effects' = [effects EXCEPT ![q.identity] = @ + 1]
        /\ UNCHANGED <<schema, archived, alive>>
    BY DEF Mutate, MutationOf
  <1>2. /\ q \in Requests /\ q \in Mutations /\ p \in Projects
        /\ q.op = "move" => target \in DOMAIN rec /\ q.status \in Statuses
        /\ q.op = "set" => q.kind \in {"milestone", "objective"}
        /\ q.op = "add" => q.kind \in Kinds
        /\ q.op = "refer" => q.ref \in alive /\ q.ref \in Memories
        /\ q.op \in {"set", "add"} => Len(rec) < MaxRecords
        /\ id \in Nat /\ e \in Events /\ e.project = p /\ e.old = rev[p] /\ e.new = rev[p] + 1
        /\ rev[p] \in Nat /\ rev[p] + 1 \in 0..MaxRevision
        /\ q.identity # None => q.identity \in Identities
        /\ q.ref \in Memories \union {None}
    BY AtMutation DEF Mutations, StateInv, CallsFit
  <1>3. /\ FileTypes /\ Chain(events, rev) /\ rev \in [Projects -> Nat]
        /\ MaxRecords \in Nat /\ Len(rec) \in Nat /\ Len(rec) <= MaxRecords
    BY NamesAreApart DEF StateInv, FileFits, FileTypes
  <1>4. /\ events' \in Seq(Events) /\ Len(events') <= MaxEvents /\ Chain(events', rev')
        /\ \A k \in DOMAIN events' : events'[k] = e \/ \E j \in DOMAIN events : events'[k] = events[j]
    <2>1. PICK log \in Seq(Events) : log = events /\ Len(log) <= MaxEvents
      BY <1>3 DEF FileTypes
    <2>2. Event(e, p, rev, rev') /\ Chain(log, rev) /\ events' = Logged(log, e)
      BY <1>1, <1>2, <1>3, <2>1 DEF Event
    <2>3. Extends(events', log, e, rev')
      BY <2>1, <2>2, LogGrows
    <2> QED
      BY <2>1, <2>3 DEF Extends
  <1>5. rev' \in [Projects -> 0..MaxRevision]
    BY <1>1, <1>2, <1>3 DEF FileTypes
  <1>6. /\ rec' \in Seq(Records) /\ Len(rec) <= Len(rec') /\ Len(rec') <= MaxRecords
        /\ q.op = "set" => Len(rec') = Len(rec) + 1
        /\ DOMAIN rec \subseteq DOMAIN rec'
        /\ \A i \in DOMAIN rec' \ DOMAIN rec : rec'[i].ref = q.ref
    <2>1. rec \in Seq(Records) /\ DOMAIN rec = 1..Len(rec)
      BY <1>3 DEF FileTypes
    <2>2. CASE q.op \in {"set", "add"}
      <3>1. record \in Records /\ record.ref = q.ref
        BY <1>2, <2>2 DEF Records, First, Kinds, Statuses
      <3>2. PICK r \in Records : r = record /\ r.ref = q.ref
        BY <3>1
      <3>3. rec' = Append(rec, r)
        BY <1>1, <2>2, <3>2
      <3>4. /\ rec' \in Seq(Records) /\ Len(rec') = Len(rec) + 1 /\ rec'[Len(rec) + 1] = r
        BY <2>1, <3>3, AppendProperties
      <3>5. /\ Len(rec) <= Len(rec') /\ Len(rec') <= MaxRecords /\ DOMAIN rec \subseteq DOMAIN rec'
            /\ \A i \in DOMAIN rec' \ DOMAIN rec : i = Len(rec) + 1
        BY <1>2, <1>3, <2>1, <2>2, <3>4
      <3> QED
        BY <3>2, <3>4, <3>5
    <2>3. CASE q.op = "move"
      <3>1. id = target /\ target \in DOMAIN rec /\ q.status \in Statuses
        BY <1>2, <2>3 DEF MutationOf
      <3>2. PICK old \in Records : old = rec[target]
        BY <2>1, <3>1
      <3>3. PICK r : r = [old EXCEPT !.status = q.status]
        OBVIOUS
      <3>4. r \in Records
        BY <3>1, <3>2, <3>3 DEF Records
      <3>5. rec' = [rec EXCEPT ![target] = r]
        BY <1>1, <2>3, <3>1, <3>2, <3>3
      <3>6. rec' \in Seq(Records) /\ Len(rec') = Len(rec)
        <4>1. target \in 1..Len(rec)
          BY <2>1, <3>1
        <4> QED
          BY <2>1, <3>4, <3>5, <4>1, ExceptSeq
      <3>7. DOMAIN rec' = DOMAIN rec
        BY <2>1, <3>6
      <3> QED
        BY <1>3, <2>3, <3>6, <3>7
    <2>4. CASE q.op \notin {"set", "add", "move"}
      <3>1. rec' = rec /\ q.op # "set"
        BY <1>1, <2>4
      <3>2. DOMAIN rec' \ DOMAIN rec = {}
        BY <3>1
      <3>3. Len(rec) <= Len(rec)
        BY <1>3
      <3> QED
        BY <1>3, <2>1, <3>1, <3>2, <3>3
    <2> QED
      BY <2>2, <2>3, <2>4
  <1>7. current' \in [Projects -> [milestone : 0..Len(rec'), objective : 0..Len(rec')]]
    <2>1. current \in [Projects -> [milestone : 0..Len(rec'), objective : 0..Len(rec')]]
      <3>1. /\ current \in [Projects -> [milestone : 0..Len(rec), objective : 0..Len(rec)]]
            /\ 0..Len(rec) \subseteq 0..Len(rec') /\ DOMAIN current = Projects
        BY <1>3, <1>6 DEF FileTypes
      <3>2. \A x \in Projects : current[x] \in [milestone : 0..Len(rec'), objective : 0..Len(rec')]
        <4>1. ASSUME NEW x \in Projects
              PROVE  current[x] \in [milestone : 0..Len(rec'), objective : 0..Len(rec')]
          <5>1. current[x] \in [milestone : 0..Len(rec), objective : 0..Len(rec)]
            BY <3>1
          <5> QED
            BY <3>1, <5>1
        <4> QED
          BY <4>1
      <3>3. current = [x \in Projects |-> current[x]]
        BY <3>1
      <3> QED
        BY <3>2, <3>3
    <2>2. CASE q.op = "set"
      <3>1. PICK v : v = [current[p] EXCEPT ![q.kind] = Len(rec) + 1]
        OBVIOUS
      <3>2. Len(rec) + 1 \in 0..Len(rec')
        BY <1>3, <1>6, <2>2
      <3>3. v \in [milestone : 0..Len(rec'), objective : 0..Len(rec')]
        <4>1. CASE q.kind = "milestone"
          BY <1>2, <2>1, <3>1, <3>2, <4>1
        <4>2. CASE q.kind = "objective"
          BY <1>2, <2>1, <3>1, <3>2, <4>2
        <4> QED
          BY <1>2, <2>2, <4>1, <4>2
      <3>4. current' = [current EXCEPT ![p] = v]
        BY <1>1, <2>2, <3>1
      <3> QED
        BY <1>2, <2>1, <3>3, <3>4
    <2>3. CASE q.op # "set"
      BY <1>1, <2>1, <2>3
    <2> QED
      BY <2>2, <2>3
  <1>8. refs' \in [Projects -> SUBSET Memories] /\ \A x \in Projects : refs'[x] \ refs[x] \subseteq alive
    <2>1. refs \in [Projects -> SUBSET Memories]
      BY <1>3 DEF FileTypes
    <2>2. CASE q.op = "refer"
      BY <1>1, <1>2, <2>1, <2>2
    <2>3. CASE q.op # "refer"
      BY <1>1, <2>1, <2>3
    <2> QED
      BY <2>2, <2>3
  <1>9. effects' \in [Identities -> Nat] /\ DOMAIN receipts' = Identities
    <2>1. effects \in [Identities -> Nat] /\ DOMAIN receipts = Identities
      BY <1>3 DEF FileTypes
    <2>2. CASE q.identity = None
      BY <1>1, <2>1, <2>2
    <2>3. CASE q.identity # None
      <3>1. /\ effects' = [effects EXCEPT ![q.identity] = effects[q.identity] + 1]
            /\ q.identity \in Identities /\ effects[q.identity] \in Nat
        BY <1>1, <1>2, <2>1, <2>3
      <3>2. effects' \in [Identities -> Nat]
        BY <2>1, <3>1
      <3>3. DOMAIN receipts' = Identities
        BY <1>1, <2>1, <2>3
      <3> QED
        BY <3>2, <3>3
    <2> QED
      BY <2>2, <2>3
  <1>10. FileTypes'
    BY <1>1, <1>3, <1>4, <1>5, <1>6, <1>7, <1>8, <1>9 DEF FileTypes
  <1> QED
    BY <1>1, <1>4, <1>6, <1>8, <1>10

\* The receipt of the operation is the only one of its revision, and the log
\* says of that revision what the receipt says.
LEMMA ReceiptsKeep ==
  ASSUME StateInv, NEW w \in Writers, NEW q, NEW p, NEW target, NEW id, NEW e,
         MutationOf(w, q, p, target, id, e), Mutate(w)
  PROVE  ReceiptsMatchLineage' /\ \A i \in Identities : ReceiptFits(i)'
  <1>1. /\ p \in Projects /\ rev[p] \in Nat /\ e.project = p /\ e.new = rev[p] + 1 /\ e.record = id
        /\ q.identity # None =>
             q.identity \in Identities /\ schema = 2 /\ receipts[q.identity] = NoReceipt
    BY AtMutation
  <1>2. /\ rev' = [rev EXCEPT ![p] = rev[p] + 1]
        /\ \A k \in DOMAIN events' : events'[k] = e \/ \E j \in DOMAIN events : events'[k] = events[j]
        /\ IF q.identity = None THEN UNCHANGED <<receipts, effects>>
           ELSE /\ receipts' = [receipts EXCEPT ![q.identity] = Receipt(q, id, rev[p])]
                /\ effects' = [effects EXCEPT ![q.identity] = @ + 1]
        /\ schema' = schema
    BY MutationIsTyped
  <1>3. /\ rev \in [Projects -> Nat] /\ DOMAIN receipts = Identities /\ effects \in [Identities -> Nat]
        /\ \A j \in DOMAIN events : events[j] \in Events
    <2>1. MaxRevision \in Nat
      BY NamesAreApart
    <2> QED
      BY <2>1 DEF StateInv, FileFits, FileTypes
  <1>4. \A x \in Projects : rev[x] \in Nat /\ rev'[x] = IF x = p THEN rev[p] + 1 ELSE rev[x]
    BY <1>1, <1>2, <1>3
  <1>5. \A i \in Identities :
          /\ effects[i] = IF receipts[i] = NoReceipt THEN 0 ELSE 1
          /\ schema = 1 => receipts[i] = NoReceipt
          /\ receipts[i] # NoReceipt => receipts[i].project \in Projects /\ receipts[i].after \in Nat
    BY DEF StateInv, FileFits, ReceiptFits
  <1>6. \A i \in Identities : receipts[i] # NoReceipt =>
          /\ receipts[i].after <= rev[receipts[i].project]
          /\ \A k \in DOMAIN events :
               events[k].project = receipts[i].project /\ events[k].new = receipts[i].after
                 => events[k].record = receipts[i].record
          /\ \A o \in Identities \ {i} : receipts[o] # NoReceipt =>
               receipts[o].project # receipts[i].project \/ receipts[o].after # receipts[i].after
    BY DEF StateInv, FileFits, ReceiptsMatchLineage
  <1>7. PICK new : new = Receipt(q, id, rev[p])
    OBVIOUS
  <1>8. /\ new.project = p /\ new.record = id /\ new.after = rev[p] + 1 /\ new # NoReceipt
        /\ new.after \in Nat
    <2>1. new.project = p /\ new.record = id /\ new.after = rev[p] + 1
      BY <1>7 DEF Receipt, MutationOf
    <2>2. NoReceipt.after = 0
      BY DEF NoReceipt
    <2> QED
      BY <1>1, <2>1, <2>2
  <1>9. \A i \in Identities :
          receipts'[i] = IF q.identity # None /\ i = q.identity THEN new ELSE receipts[i]
    <2>1. CASE q.identity = None
      BY <1>2, <2>1
    <2>2. CASE q.identity # None
      BY <1>2, <1>3, <1>7, <2>2
    <2> QED
      BY <2>1, <2>2
  <1>10. ASSUME NEW j \in DOMAIN events
         PROVE  events[j].project = p => events[j].new <= rev[p] /\ events[j].new \in Nat
    <2>1. Linked(events, rev, j, Later(events, j))
      BY DEF StateInv, FileFits, Chain
    <2>2. events[j].new <= rev[events[j].project]
      BY <2>1 DEF Linked
    <2>3. events[j].new \in Nat
      BY <1>3 DEF Events
    <2> QED
      BY <2>2, <2>3
  <1>11. ASSUME NEW i \in Identities, receipts'[i] # NoReceipt
         PROVE  /\ receipts'[i].after <= rev'[receipts'[i].project]
                /\ \A k \in DOMAIN events' :
                     events'[k].project = receipts'[i].project /\ events'[k].new = receipts'[i].after
                       => events'[k].record = receipts'[i].record
                /\ \A o \in Identities \ {i} : receipts'[o] # NoReceipt =>
                     receipts'[o].project # receipts'[i].project \/ receipts'[o].after # receipts'[i].after
    <2>1. CASE q.identity # None /\ i = q.identity
      <3>1. receipts'[i] = new
        BY <1>9, <2>1
      <3>2. new.after <= rev'[new.project]
        BY <1>1, <1>4, <1>8
      <3>3. \A k \in DOMAIN events' :
              events'[k].project = p /\ events'[k].new = rev[p] + 1 => events'[k].record = id
        BY <1>1, <1>2, <1>10
      <3>4. ASSUME NEW o \in Identities \ {i}, receipts'[o] # NoReceipt
            PROVE  receipts'[o].project # p \/ receipts'[o].after # rev[p] + 1
        <4>1. receipts'[o] = receipts[o] /\ receipts[o] # NoReceipt
          BY <1>9, <2>1, <3>4
        <4> QED
          BY <1>1, <1>5, <1>6, <4>1
      <3> QED
        BY <1>8, <3>1, <3>2, <3>3, <3>4
    <2>2. CASE ~(q.identity # None /\ i = q.identity)
      <3>1. /\ receipts'[i] = receipts[i] /\ receipts[i] # NoReceipt
            /\ receipts[i].project \in Projects /\ receipts[i].after \in Nat
            /\ receipts[i].after <= rev[receipts[i].project]
        BY <1>5, <1>6, <1>9, <1>11, <2>2
      <3>2. receipts[i].after <= rev'[receipts[i].project]
        BY <1>4, <3>1
      <3>3. receipts[i].project = p => receipts[i].after # rev[p] + 1
        BY <1>1, <3>1
      <3>4. ASSUME NEW k \in DOMAIN events',
                   events'[k].project = receipts[i].project, events'[k].new = receipts[i].after
            PROVE  events'[k].record = receipts[i].record
        <4>1. events'[k] # e
          BY <1>1, <3>3, <3>4
        <4>2. PICK j \in DOMAIN events : events'[k] = events[j]
          BY <1>2, <4>1
        <4> QED
          BY <1>6, <3>1, <3>4, <4>2
      <3>5. ASSUME NEW o \in Identities \ {i}, receipts'[o] # NoReceipt
            PROVE  receipts'[o].project # receipts[i].project \/ receipts'[o].after # receipts[i].after
        <4>1. CASE q.identity # None /\ o = q.identity
          BY <1>8, <1>9, <3>3, <4>1
        <4>2. CASE ~(q.identity # None /\ o = q.identity)
          BY <1>6, <1>9, <3>1, <3>5, <4>2
        <4> QED
          BY <4>1, <4>2
      <3> QED
        BY <3>1, <3>2, <3>4, <3>5
    <2> QED
      BY <2>1, <2>2
  <1>12. ReceiptsMatchLineage'
    BY <1>11 DEF ReceiptsMatchLineage
  <1>13. ASSUME NEW i \in Identities  PROVE ReceiptFits(i)'
    <2>1. CASE q.identity # None /\ i = q.identity
      <3>1. effects'[i] = effects[i] + 1 /\ effects[i] = 0 /\ schema = 2
        BY <1>1, <1>2, <1>3, <1>5, <2>1
      <3>2. receipts'[i] = new
        BY <1>9, <2>1
      <3> QED
        BY <1>1, <1>2, <1>8, <3>1, <3>2 DEF ReceiptFits
    <2>2. CASE ~(q.identity # None /\ i = q.identity)
      <3>1. effects'[i] = effects[i]
        BY <1>2, <1>3, <2>2
      <3>2. receipts'[i] = receipts[i]
        BY <1>9, <2>2
      <3> QED
        BY <1>2, <1>5, <3>1, <3>2 DEF ReceiptFits
    <2> QED
      BY <2>1, <2>2
  <1> QED
    BY <1>12, <1>13

LEMMA MutateKeeps ==
  ASSUME StateInv, NEW w \in Writers, Mutate(w)
  PROVE  StateInv'
  <1>1. PICK q, p, target, id, e : MutationOf(w, q, p, target, id, e)
    BY DEF MutationOf
  <1>2. /\ FileTypes' /\ Chain(events', rev') /\ DOMAIN rec \subseteq DOMAIN rec'
        /\ UNCHANGED <<schema, archived, alive>>
    BY <1>1, MutationIsTyped
  <1>3. ReceiptsMatchLineage' /\ \A i \in Identities : ReceiptFits(i)'
    BY <1>1, ReceiptsKeep
  <1>4. FileFits'
    BY <1>2, <1>3 DEF FileFits
  <1>5. Ends(w) /\ w \in Processes /\ CallsFit
    BY NamesAreApart DEF Mutate, StateInv
  <1>6. CallsFit'
    BY <1>2, <1>5, EndsKeeps
  <1> QED
    BY <1>4, <1>6 DEF StateInv

-----------------------------------------------------------------------------
(* The other steps.                                                        *)

\* The file as it was is as it was.
LEMMA QuietKeeps ==
  ASSUME FileFits, UNCHANGED <<document, effects>>
  PROVE  FileFits'
  <1>1. UNCHANGED <<rev, rec, current, refs, events, receipts, schema, effects>>
    BY DEF document
  <1>2. FileTypes'
    BY <1>1 DEF FileFits, FileTypes
  <1>3. Chain(events', rev')
    BY <1>1 DEF FileFits
  <1>4. ReceiptsMatchLineage'
    BY <1>1 DEF FileFits, ReceiptsMatchLineage
  <1>5. \A i \in Identities : ReceiptFits(i)'
    BY <1>1 DEF FileFits, ReceiptFits
  <1> QED
    BY <1>2, <1>3, <1>4, <1>5 DEF FileFits

\* The migration empties receipts there are none of.
LEMMA MigrationWritesKeeps ==
  ASSUME StateInv, MigrationWrites
  PROVE  StateInv'
  <1>1. /\ proc[Migrator].at = "locked" /\ schema' = 2 /\ receipts' = [i \in Identities |-> NoReceipt]
        /\ Ends(Migrator) /\ UNCHANGED <<rev, rec, current, refs, events, archived, alive, effects>>
    BY DEF MigrationWrites
  <1>2. schema = 1
    BY <1>1, IdleIsTyped DEF StateInv, CallsFit, LocksFit
  <1>3. \A i \in Identities : receipts[i] = NoReceipt /\ effects[i] = 0
    BY <1>2 DEF StateInv, FileFits, ReceiptFits
  <1>4. CallsFit'
    BY <1>1, NamesAreApart, EndsKeeps DEF StateInv
  <1>5. FileTypes'
    <2>1. DOMAIN receipts' = Identities /\ schema' \in {1, 2}
      BY <1>1
    <2> QED
      BY <1>1, <2>1 DEF StateInv, FileFits, FileTypes
  <1>8. Chain(events', rev')
    BY <1>1 DEF StateInv, FileFits
  <1>6. \A i \in Identities : receipts'[i] = NoReceipt /\ effects'[i] = 0
    BY <1>1, <1>3
  <1>7. ReceiptsMatchLineage' /\ \A i \in Identities : ReceiptFits(i)'
    BY <1>6 DEF ReceiptsMatchLineage, ReceiptFits
  <1> QED
    BY <1>4, <1>5, <1>7, <1>8 DEF StateInv, FileFits

LEMMA InitFits ==
  ASSUME Init
  PROVE  StateInv
  <1>1. /\ proc = [x \in Processes |-> Idle] /\ lock = [l \in Locks |-> None]
        /\ rev = [x \in Projects |-> 0] /\ rec = <<>> /\ events = <<>> /\ schema = 1
        /\ current = [x \in Projects |-> [milestone |-> None, objective |-> None]]
        /\ refs = [x \in Projects |-> {}] /\ archived = {} /\ alive = Memories
        /\ receipts = [i \in Identities |-> NoReceipt] /\ effects = [i \in Identities |-> 0]
    BY DEF Init
  <1>2. proc \in [Processes -> Calls] /\ lock \in [Locks -> Processes \union {None}]
    BY <1>1, IdleIsTyped
  <1>3. \A x \in Processes : proc[x] = Idle
    BY <1>1
  <1>4. \A w \in Writers : CallFits(w)
    BY <1>3, NamesAreApart DEF CallFits
  <1>5. \A l \in Locks : \A x \in Processes : lock[l] # x
    BY <1>1, NamesAreApart
  <1>6. LocksFit
    BY <1>1, <1>3, <1>5, NamesAreApart, LocksAreThree, IdleIsTyped DEF LocksFit, Guards
  <1>7. CallsFit
    BY <1>1, <1>2, <1>4, <1>6 DEF CallsFit
  <1>8. rec \in Seq(Records) /\ Len(rec) = 0 /\ events \in Seq(Events) /\ Len(events) = 0
        /\ DOMAIN events = {}
    BY <1>1
  <1>9. FileTypes
    BY <1>1, <1>8, NamesAreApart DEF FileTypes
  <1>10. Chain(events, rev)
    BY <1>8 DEF Chain
  <1>11. ReceiptsMatchLineage /\ \A i \in Identities : ReceiptFits(i)
    BY <1>1 DEF ReceiptsMatchLineage, ReceiptFits
  <1> QED
    BY <1>7, <1>9, <1>10, <1>11 DEF StateInv, FileFits

LEMMA StepKeeps ==
  ASSUME StateInv, [Next]_vars
  PROVE  StateInv'
  <1> USE DEF StateInv
  <1>1. ASSUME NEW w \in Writers, NEW q \in Requests, NEW target \in {None} \union DOMAIN rec,
               Begin(w, q, target)
        PROVE  StateInv'
    <2>1. UNCHANGED <<document, effects>>
      BY <1>1 DEF Begin
    <2> QED
      BY <1>1, <2>1, BeginKeeps, QuietKeeps DEF FileFits
  <1>2. ASSUME NEW w \in Writers, Guard(w)  PROVE StateInv'
    <2>1. UNCHANGED <<document, effects>>
      BY <1>2 DEF Guard
    <2> QED
      BY <1>2, <2>1, GuardKeeps, QuietKeeps
  <1>3. ASSUME NEW w \in Writers, Enter(w)  PROVE StateInv'
    <2>1. UNCHANGED <<document, effects>>
      BY <1>3 DEF Enter
    <2> QED
      BY <1>3, <2>1, EnterKeeps, QuietKeeps
  <1>4. ASSUME NEW w \in Processes, Fails(w) \/ (w \in Writers /\ Replay(w))  PROVE StateInv'
    <2>1. UNCHANGED <<document, archived, alive, effects>> /\ Ends(w)
      BY <1>4 DEF Fails, Replay
    <2>2. schema' = schema /\ rec' = rec
      BY <2>1 DEF document
    <2> QED
      BY <2>1, <2>2, EndsKeeps, QuietKeeps
  <1>5. ASSUME NEW w \in Writers, Mutate(w)  PROVE StateInv'
    BY <1>5, MutateKeeps
  <1>6. CASE (\E p \in Projects : Archive(p)) \/ (\E m \in Memories : Delete(m))
    <2>1. UNCHANGED <<document, effects>>
      BY <1>6 DEF Archive, Delete
    <2> QED
      BY <1>6, <2>1, OwnersKeep, QuietKeeps
  <1>7. CASE MigrationStarts \/ MigrationLocks
    BY <1>7, MigrationKeeps, QuietKeeps
  <1>8. CASE MigrationWrites
    BY <1>8, MigrationWritesKeeps
  <1>9. CASE UNCHANGED vars
    <2>1. UNCHANGED <<document, effects, archived, alive, lock, proc>>
      BY <1>9 DEF vars
    <2>2. CallsFit'
      BY <2>1 DEF CallsFit, CallFits, LocksFit, Guards, document
    <2> QED
      BY <2>1, <2>2, QuietKeeps
  <1> QED
    BY <1>1, <1>2, <1>3, <1>4, <1>5, <1>6, <1>7, <1>8, <1>9, NamesAreApart DEF Next, Call

\* Every step keeps the calls, their locks and the file in order: a lock is held
\* by who has come to the place for it, a checked fact holds for as long as its
\* lock is held (Guard, Enter), the log is a chain and the receipts fit it.
THEOREM StateInvariant == Spec => []StateInv
  <1>1. Init => StateInv
    BY InitFits
  <1>2. StateInv /\ [Next]_vars => StateInv'
    BY StepKeeps
  <1> QED
    BY <1>1, <1>2, PTL DEF Spec

\* What every reader of project-state.json relies on: its type, a bounded log
\* that is an unbroken chain of revisions, receipts that agree with it, and no
\* operation made twice (StateService._mutate, append_event).
THEOREM StateDocument == Spec => []DocumentIsSound
  <1>1. StateInv => DocumentIsSound
    <2> SUFFICES ASSUME StateInv  PROVE DocumentIsSound
      OBVIOUS
    <2>1. TypeOK
      BY DEF StateInv, FileFits, FileTypes, CallsFit, TypeOK
    <2>2. LineageIsUnbroken
      <3>1. ASSUME NEW i \in DOMAIN events
            PROVE  IF Later(events, i) = {} THEN events[i].new = rev[events[i].project]
                   ELSE \E j \in Later(events, i) : /\ events[j].old = events[i].new
                                                    /\ \A k \in Later(events, i) : j <= k
        <4>1. Linked(events, rev, i, Later(events, i))
          BY DEF StateInv, FileFits, Chain
        <4> QED
          BY <4>1 DEF Linked
      <3> QED
        BY <3>1, Zenon DEF LineageIsUnbroken, Later
    <2>3. OncePerIdentity
      <3>1. ASSUME NEW i \in Identities  PROVE effects[i] <= 1
        <4>1. effects[i] = 0 \/ effects[i] = 1
          BY DEF StateInv, FileFits, ReceiptFits
        <4> QED
          BY <4>1
      <3> QED
        BY <3>1 DEF OncePerIdentity
    <2> QED
      BY <2>1, <2>2, <2>3 DEF StateInv, FileFits, DocumentIsSound
  <1> QED
    BY <1>1, StateInvariant, PTL

\* While a lock is held some holder can go on: the memory's, the registry's and
\* the state's lock are only ever taken in that order, by the mutations
\* (_memory_reference_guard, _mutate) and by the migration.
THEOREM StateWaitsInOrder == Spec => []NoCircularWait
  <1>1. StateInv => NoCircularWait
    <2> SUFFICES ASSUME StateInv, NEW l \in Locks, lock[l] # None
                 PROVE  \E w \in Processes : /\ \E k \in Locks : lock[k] = w
                                             /\ \A k \in Wanted(w) : lock[k] = None
      BY DEF NoCircularWait
    <2>1. /\ lock \in [Locks -> Processes \union {None}] /\ LocksFit
          /\ \A w \in Writers : CallFits(w)
      BY DEF StateInv, CallsFit
    <2>2. Processes = Writers \union {Migrator}
      BY DEF Processes
    <2>3. CASE lock["state"] # None
      <3>1. lock["state"] = Migrator
        BY <2>1, <2>2, <2>3, LocksAreThree DEF LocksFit
      <3>2. proc[Migrator].at = "locked"
        BY <2>1, <3>1 DEF LocksFit
      <3>3. Wanted(Migrator) = {}
        BY <3>2 DEF Wanted
      <3> QED
        BY <2>2, <3>1, <3>3, LocksAreThree
    <2>4. CASE lock["state"] = None /\ lock["registry"] # None
      <3>1. PICK w \in Writers : lock["registry"] = w
        BY <2>1, <2>2, <2>4, LocksAreThree DEF LocksFit
      <3>2. proc[w].at = "entered"
        BY <2>1, <3>1 DEF LocksFit
      <3>3. Wanted(w) = {"state"}
        BY <3>2 DEF Wanted
      <3> QED
        BY <2>2, <2>4, <3>1, <3>3, LocksAreThree
    <2>5. CASE lock["state"] = None /\ lock["registry"] = None
      <3>1. lock["memory"] # None
        BY <2>5, LocksAreThree
      <3>2. CASE lock["memory"] = Migrator
        <4>1. proc[Migrator].at = "started"
          BY <2>1, <2>5, <3>2, NamesAreApart DEF LocksFit
        <4>2. \A k \in Wanted(Migrator) : lock[k] = None
          <5>1. Wanted(Migrator) = {"memory", "state"} \ {k \in Locks : lock[k] = Migrator}
            BY <4>1 DEF Wanted
          <5> QED
            BY <2>5, <3>2, <5>1, LocksAreThree
        <4> QED
          BY <2>2, <3>2, <4>2, LocksAreThree
      <3>3. CASE lock["memory"] # Migrator
        <4>1. PICK w \in Writers : lock["memory"] = w
          BY <2>1, <2>2, <3>1, <3>3, LocksAreThree
        <4>2. Guards(w) /\ proc[w].at # "entered"
          BY <2>1, <2>5, <4>1, NamesAreApart DEF LocksFit
        <4>3. proc[w].at = "guarded"
          BY <4>2 DEF Guards
        <4>4. Wanted(w) = {"registry"}
          BY <4>3 DEF Wanted
        <4> QED
          BY <2>2, <2>5, <4>1, <4>4, LocksAreThree
      <3> QED
        BY <3>2, <3>3
    <2> QED
      BY <2>3, <2>4, <2>5
  <1> QED
    BY <1>1, StateInvariant, PTL

\* What a mutation was checked against still holds when its file is replaced:
\* the project is not archived and the memory it refers to is there (_mutate
\* under the registry's lock, _memory_reference_guard under the memory's).
THEOREM StateChecksHold == Spec => ChecksHoldAtCommit
  <1> DEFINE Held == /\ \A p \in archived : rev'[p] = rev[p]
                     /\ \A p \in Projects : refs'[p] \ refs[p] \subseteq alive'
                     /\ \A r \in DOMAIN rec' \ DOMAIN rec : rec'[r].ref \in alive' \union {None}
  <1>1. StateInv /\ [Next]_vars => [Held]_vars
    <2> SUFFICES ASSUME StateInv, [Next]_vars  PROVE Held \/ UNCHANGED vars
      OBVIOUS
    <2>1. ASSUME NEW w \in Writers, Mutate(w)  PROVE Held
      <3>1. PICK q, p, target, id, e : MutationOf(w, q, p, target, id, e)
        BY DEF MutationOf
      <3>2. p \notin archived /\ q.ref \in alive \union {None} /\ archived \subseteq Projects
        BY <2>1, <3>1, AtMutation DEF StateInv, CallsFit
      <3>3. /\ rev' = [rev EXCEPT ![p] = rev[p] + 1] /\ alive' = alive
            /\ \A x \in Projects : refs'[x] \ refs[x] \subseteq alive
            /\ \A i \in DOMAIN rec' \ DOMAIN rec : rec'[i].ref = q.ref
        BY <2>1, <3>1, MutationIsTyped
      <3>4. DOMAIN rev = Projects
        BY DEF StateInv, FileFits, FileTypes
      <3>5. \A x \in archived : rev'[x] = rev[x]
        BY <3>2, <3>3, <3>4
      <3> QED
        BY <3>2, <3>3, <3>5
    <2>2. CASE UNCHANGED <<rev, refs, rec>>
      BY <2>2
    <2> QED
      BY <2>1, <2>2 DEF Next, Call, Begin, Guard, Enter, Replay, Fails, Archive, Delete, MigrationStarts,
                       MigrationLocks, MigrationWrites, document, vars
  <1> QED
    BY <1>1, StateInvariant, PTL DEF Spec, ChecksHoldAtCommit

=============================================================================

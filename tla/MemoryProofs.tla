----------------------------- MODULE MemoryProofs -----------------------------
(***************************************************************************)
(* What the canonical memory keeps, for every number of operations, every  *)
(* request and every write around the runtime: proofs about                *)
(* CanonicalMemory.                                                        *)
(***************************************************************************)
EXTENDS CanonicalMemory, SequenceTheorems, TLAPS

\* A later content n of the file, or one in the making: memories keep their
\* origin, their place and their claim, or lose it, and none comes back to life.
Follows(m, n) ==
  /\ Len(m) <= Len(n)
  /\ \A i \in DOMAIN m :
       /\ n[i].born = m[i].born /\ n[i].place = m[i].place
       /\ n[i].claim \in {m[i].claim, Absent}
       /\ n[i].status = "active" => m[i].status = "active"

\* What no write undoes.
Grows(m, n) ==
  /\ Len(n) >= Len(m)
  /\ \A i \in DOMAIN m :
       /\ n[i].born = m[i].born
       /\ m[i].status # "active" => n[i].status # "active"
       /\ m[i].place = "validated" => n[i].place # "gone"

\* The receipt or the log of one candidate is true of the memories m.
TrueOf(o, b, log, m) ==
  LET c == b[1]
      d == log[1] IN
  /\ d.id \in Kept(m)
  /\ d.action \in {"NEW", "SUPERSEDE_EXISTING"} => m[d.id].born = o
  /\ d.action \in {"SUPERSEDE_EXISTING", "RESOLVE_EXISTING"} =>
       c.target \in DOMAIN m /\ m[c.target].status # "active"

\* The transaction of the engine: nothing is applied yet, or the log tells
\* what was.
TxFits ==
  LET o == tx.by IN
  /\ o \in Callers /\ call[o] # NoCall
  /\ Len(tx.log) + Len(tx.rest) = Len(call[o].batch)
  /\ Len(tx.work) + Len(tx.rest) <= MaxMemories
  /\ tx.log = <<>> => tx.work = mem /\ tx.rest = call[o].batch
  /\ Follows(mem, tx.work)
  /\ \A i \in DOMAIN tx.work \ DOMAIN mem : tx.work[i].born = IF o \in Ops THEN o ELSE Absent
  /\ ~batched /\ Len(call[o].batch) = 1 => ClaimsOnce(tx.work)
  /\ o \in Ops =>
       /\ schema = 3 /\ receipts[o] = NoReceipt
       /\ Len(tx.work) <= Len(mem) + 1
       /\ tx.log # <<>> =>
            /\ tx.log[1].action \notin Undecided => TrueOf(o, call[o].batch, tx.log, tx.work)
            /\ Len(tx.work) > Len(mem) => tx.log[1].action \notin Undecided

FileFits ==
  /\ \A o \in Ops : receipts[o] # NoReceipt =>
       schema = 3 /\ o \in done /\ TrueOf(o, receipts[o].batch, receipts[o].log, mem)
  /\ \A o \in Ops \ lost : \A i \in DOMAIN mem : mem[i].born = o => receipts[o] # NoReceipt

ManagerFits ==
  manager # NotLoaded =>
    /\ manager.revision \in Nat /\ manager.revision <= version
    /\ manager.revision = version => manager.memories = mem

MemoryInv ==
  /\ MemoryTypeOK /\ FileFits /\ ManagerFits
  /\ OneEffectPerOperation /\ OneActiveClaim
  /\ \A c \in Callers : call[c] = NoCall \/ call[c].batch \in Requests[c]
  /\ IF tx.by = Absent THEN tx = NoTx ELSE TxFits

-----------------------------------------------------------------------------
(* Contents of the file.                                                   *)

LEMMA Names ==
  /\ Tool \notin Ops /\ Absent \notin Callers /\ Absent \notin Facts /\ Absent \notin Claims
  /\ Absent \notin Ops /\ MaxMemories \in Nat /\ MaxManual \in Nat
  BY NamesAssumption, MemoriesAssumption DEF Callers

LEMMA FollowsTransitive ==
  ASSUME NEW m \in Seq(Memories), NEW n \in Seq(Memories), NEW l \in Seq(Memories),
         Follows(m, n), Follows(n, l)
  PROVE  Follows(m, l)
  BY DEF Follows

LEMMA FollowsItself ==
  ASSUME NEW m \in Seq(Memories)
  PROVE  Follows(m, m)
  BY DEF Follows

\* What has to be shown of the record r that takes the place of a memory.
Edits(old, r) ==
  /\ r \in Memories
  /\ r.born = old.born /\ r.place = old.place /\ r.claim \in {old.claim, Absent}
  /\ r.status = "active" => old.status = "active"

Changes(m, n) == n \in Seq(Memories) /\ Len(n) = Len(m) /\ Follows(m, n)

LEMMA Edited ==
  ASSUME NEW m \in Seq(Memories), NEW i \in DOMAIN m, NEW r, Edits(m[i], r),
         NEW n, n = [m EXCEPT ![i] = r]
  PROVE  Changes(m, n) /\ \A j \in DOMAIN m : n[j] = IF j = i THEN r ELSE m[j]
  <1>1. i \in 1..Len(m)
    OBVIOUS
  <1>2. /\ n \in Seq(Memories) /\ Len(n) = Len(m)
        /\ \A j \in 1..Len(m) : n[j] = IF j = i THEN r ELSE m[j]
    BY <1>1, ExceptSeq DEF Edits
  <1> QED
    BY <1>2 DEF Follows, Edits, Changes

\* One memory is retired, or replaced by another: the ways the writers have.
Retires(m, i, n) ==
  /\ Changes(m, n)
  /\ n[i].status # "active"
  /\ \A j \in DOMAIN m : n[j].status = "active" => n[j] = m[j]

LEMMA Retired ==
  ASSUME NEW m \in Seq(Memories), NEW i \in DOMAIN m, NEW status \in Statuses \ {"active"},
         NEW n, n = [m EXCEPT ![i].status = status]
  PROVE  Retires(m, i, n)
  <1>1. PICK old \in Memories : old = m[i]
    OBVIOUS
  <1>2. PICK r : r = [old EXCEPT !.status = status]
    OBVIOUS
  <1>3. /\ r \in Memories /\ r.born = old.born /\ r.place = old.place
        /\ r.claim = old.claim /\ r.status = status
    BY <1>2 DEF Memories
  <1>4. n = [m EXCEPT ![i] = r]
    BY <1>1, <1>2
  <1>5. Edits(m[i], r)
    BY <1>1, <1>3 DEF Edits
  <1>6. Changes(m, n) /\ \A j \in DOMAIN m : n[j] = IF j = i THEN r ELSE m[j]
    BY <1>4, <1>5, Edited, Zenon
  <1> QED
    BY <1>3, <1>6 DEF Retires, Changes

LEMMA Replaced ==
  ASSUME NEW m \in Seq(Memories), NEW i \in DOMAIN m, NEW by \in Ids \union {Absent},
         NEW n, n = [m EXCEPT ![i].status = "superseded", ![i].by = by]
  PROVE  Retires(m, i, n)
  <1>1. PICK old \in Memories : old = m[i]
    OBVIOUS
  <1>2. PICK r : r = [old EXCEPT !.status = "superseded", !.by = by]
    OBVIOUS
  <1>3. /\ r \in Memories /\ r.born = old.born /\ r.place = old.place
        /\ r.claim = old.claim /\ r.status = "superseded"
    BY <1>2 DEF Memories, Statuses
  <1>4. n = [m EXCEPT ![i] = r]
    BY <1>1, <1>2
  <1>5. Edits(m[i], r)
    BY <1>1, <1>3 DEF Edits
  <1>6. Changes(m, n) /\ \A j \in DOMAIN m : n[j] = IF j = i THEN r ELSE m[j]
    BY <1>4, <1>5, Edited, Zenon
  <1> QED
    BY <1>3, <1>6 DEF Retires, Changes

LEMMA Reworded ==
  ASSUME NEW m \in Seq(Memories), NEW i \in DOMAIN m, NEW t \in Facts,
         NEW n, n = [m EXCEPT ![i].text = t]
  PROVE  Changes(m, n)
  <1>1. PICK old \in Memories : old = m[i]
    OBVIOUS
  <1>2. PICK r : r = [old EXCEPT !.text = t]
    OBVIOUS
  <1>3. /\ r \in Memories /\ r.born = old.born /\ r.place = old.place
        /\ r.claim = old.claim /\ r.status = old.status
    BY <1>2 DEF Memories
  <1>4. n = [m EXCEPT ![i] = r]
    BY <1>1, <1>2
  <1>5. Edits(m[i], r)
    BY <1>1, <1>3 DEF Edits
  <1> QED
    BY <1>4, <1>5, Edited, Zenon

LEMMA Appended ==
  ASSUME NEW m \in Seq(Memories), NEW r \in Memories
  PROVE  /\ Append(m, r) \in Seq(Memories) /\ Len(Append(m, r)) = Len(m) + 1
         /\ Append(m, r)[Len(m) + 1] = r /\ \A j \in DOMAIN m : Append(m, r)[j] = m[j]
         /\ Follows(m, Append(m, r))
  <1>1. PICK n : n = Append(m, r)
    OBVIOUS
  <1>2. /\ n \in Seq(Memories) /\ Len(n) = Len(m) + 1
        /\ n[Len(m) + 1] = r /\ \A j \in 1..Len(m) : n[j] = m[j]
    BY <1>1, AppendProperties
  <1>3. Follows(m, n)
    BY <1>2 DEF Follows
  <1> QED
    BY <1>1, <1>2, <1>3

LEMMA KeptFollows ==
  ASSUME NEW m \in Seq(Memories), NEW n \in Seq(Memories), Follows(m, n)
  PROVE  Kept(m) \subseteq Kept(n)
  BY DEF Follows, Kept

LEMMA TrueFollows ==
  ASSUME NEW m \in Seq(Memories), NEW n \in Seq(Memories), Follows(m, n),
         NEW o, NEW b, NEW log, TrueOf(o, b, log, m)
  PROVE  TrueOf(o, b, log, n)
  <1>1. log[1].id \in Kept(m) /\ log[1].id \in DOMAIN m /\ log[1].id \in Kept(n)
    BY KeptFollows DEF TrueOf, Kept
  <1>2. DOMAIN m \subseteq DOMAIN n
    BY DEF Follows
  <1> QED
    BY <1>1, <1>2 DEF TrueOf, Follows

\* Claims stay single while memories without a claim come, and the others follow.
LEMMA ClaimsFollow ==
  ASSUME NEW m \in Seq(Memories), NEW n \in Seq(Memories), Follows(m, n), ClaimsOnce(m),
         \A i \in DOMAIN n \ DOMAIN m : n[i].claim = Absent
  PROVE  ClaimsOnce(n)
  <1>1. ASSUME NEW k \in Claims, NEW i \in Holders(n, k)  PROVE i \in Holders(m, k)
    <2>1. i \in DOMAIN n /\ n[i].claim = k /\ k # Absent /\ n[i].status = "active"
          /\ n[i].place = "validated"
      BY <1>1 DEF Holders, Kept
    <2>2. i \in DOMAIN m
      BY <2>1
    <2>3. m[i].claim = k /\ m[i].status = "active" /\ m[i].place = "validated"
      BY <2>1, <2>2 DEF Follows
    <2> QED
      BY <2>1, <2>2, <2>3 DEF Holders, Kept
  <1> QED
    BY <1>1 DEF ClaimsOnce

-----------------------------------------------------------------------------
(* Steps that leave the file alone.                                        *)

LEMMA NoTxIsTyped ==
  NoTx \in [by : Callers \union {Absent}, rest : Seq(Candidates), work : Seq(Memories),
            seen : SUBSET Facts, log : Seq(Decisions)] /\ NoTx.by = Absent
  BY EmptySeq DEF NoTx

LEMMA NoCallIsTyped ==
  NoCall \in [batch : Seq(Candidates), open : BOOLEAN, expected : Int] /\ NoCall.batch = <<>>
  BY EmptySeq DEF NoCall, Absent

LEMMA InTransaction ==
  ASSUME MemoryInv
  PROVE  /\ tx = NoTx <=> tx.by = Absent
         /\ tx # NoTx => TxFits /\ call[tx.by] # NoCall
  BY NoTxIsTyped DEF MemoryInv, TxFits

\* The caller of a transaction stays what it is while others call and end.
LEMMA QuietKeeps ==
  ASSUME MemoryInv, UNCHANGED <<file, past>>, refused' \in BOOLEAN, project' \in BOOLEAN,
         call' \in [Callers -> [batch : Seq(Candidates), open : BOOLEAN, expected : Int]],
         \A c \in Callers : call'[c] = NoCall \/ call'[c].batch \in Requests[c],
         tx' = NoTx \/ (tx' = tx /\ call'[tx.by] = call[tx.by]),
         manual' \in 0..MaxManual,
         \/ manager' = manager
         \/ manager' = NotLoaded
         \/ manager' = [memories |-> mem, revision |-> version]
  PROVE  MemoryInv'
  <1> USE DEF file, past
  <1>1. tx' \in [by : Callers \union {Absent}, rest : Seq(Candidates), work : Seq(Memories),
                seen : SUBSET Facts, log : Seq(Decisions)]
    BY NoTxIsTyped DEF MemoryInv, MemoryTypeOK
  <1>2. manager' \in [memories : Seq(Memories), revision : Int] /\ ManagerFits'
    <2>0. version \in Nat /\ mem \in Seq(Memories) /\ manager \in [memories : Seq(Memories), revision : Int]
          /\ ManagerFits
      BY DEF MemoryInv, MemoryTypeOK
    <2>1. CASE manager' = manager
      BY <2>0, <2>1 DEF ManagerFits, NotLoaded
    <2>2. CASE manager' = NotLoaded
      <3>1. NotLoaded \in [memories : Seq(Memories), revision : Int]
        BY EmptySeq DEF NotLoaded
      <3> QED
        BY <2>2, <3>1 DEF ManagerFits
    <2>3. CASE manager' = [memories |-> mem, revision |-> version]
      BY <2>0, <2>3 DEF ManagerFits
    <2> QED
      BY <2>1, <2>2, <2>3
  <1>3. MemoryTypeOK'
    BY <1>1, <1>2 DEF MemoryInv, MemoryTypeOK
  <1>4. IF tx'.by = Absent THEN tx' = NoTx ELSE TxFits'
    <2>1. CASE tx' = NoTx
      BY <2>1, NoTxIsTyped
    <2>2. CASE tx' = tx /\ tx # NoTx /\ call'[tx.by] = call[tx.by]
      BY <2>2, InTransaction DEF TxFits
    <2> QED
      BY <2>1, <2>2
  <1>5. FileFits' /\ OneEffectPerOperation' /\ OneActiveClaim'
    BY DEF MemoryInv, FileFits, OneEffectPerOperation, OneActiveClaim
  <1> QED
    BY <1>2, <1>3, <1>4, <1>5 DEF MemoryInv

LEMMA CallsKeep ==
  ASSUME MemoryInv, NEW c \in Callers,
         \/ \E b \in Requests[c] : Process(c, b)
         \/ ReplaysReceipt(c) \/ Refuse(c) \/ Unavailable(c) \/ Dies(c)
  PROVE  MemoryInv'
  <1>0. call \in [Callers -> [batch : Seq(Candidates), open : BOOLEAN, expected : Int]]
        /\ version \in Nat /\ project \in BOOLEAN /\ manual \in 0..MaxManual /\ MaxManual \in Nat
        /\ \A d \in Callers : call[d] = NoCall \/ call[d].batch \in Requests[d]
    BY Names DEF MemoryInv, MemoryTypeOK
  <1>1. ASSUME NEW v \in [batch : Seq(Candidates), open : BOOLEAN, expected : Int],
               v = NoCall \/ v.batch \in Requests[c], call' = [call EXCEPT ![c] = v],
               tx' = NoTx \/ (tx' = tx /\ tx.by # c),
               UNCHANGED <<file, past, project, manager>>, manual' \in 0..MaxManual,
               refused' \in BOOLEAN
        PROVE  MemoryInv'
    <2>1. call' \in [Callers -> [batch : Seq(Candidates), open : BOOLEAN, expected : Int]]
          /\ \A d \in Callers : call'[d] = IF d = c THEN v ELSE call[d]
      BY <1>0, <1>1
    <2>2. tx' = NoTx \/ (tx' = tx /\ call'[tx.by] = call[tx.by])
      <3>1. tx = NoTx \/ tx.by \in Callers
        BY InTransaction DEF TxFits
      <3> QED
        BY <1>1, <2>1, <3>1
    <2> QED
      BY <1>0, <1>1, <2>1, <2>2, QuietKeeps
  <1>2. NoCall \in [batch : Seq(Candidates), open : BOOLEAN, expected : Int]
    BY NoCallIsTyped
  <1>3. ASSUME NEW b \in Requests[c], Process(c, b)  PROVE MemoryInv'
    <2>1. PICK v : v = [batch |-> b, open |-> project,
                        expected |-> IF c \in Desk THEN version ELSE AnyRevision]
      OBVIOUS
    <2>2. b \in Seq(Candidates) /\ (IF c \in Desk THEN version ELSE AnyRevision) \in Int
      BY <1>0, RequestsAssumption DEF AnyRevision
    <2>3. v \in [batch : Seq(Candidates), open : BOOLEAN, expected : Int] /\ v.batch \in Requests[c]
      BY <1>0, <2>1, <2>2
    <2>4. tx' = tx /\ (tx = NoTx \/ tx.by # c)
      BY <1>3, InTransaction DEF Process
    <2>5. manual' \in 0..MaxManual
      BY <1>0, <1>3 DEF Process
    <2>6. call' = [call EXCEPT ![c] = v] /\ UNCHANGED <<file, past, project, manager>> /\ refused' = FALSE
      BY <1>3, <2>1 DEF Process, Silent
    <2> QED
      BY <1>1, <2>3, <2>4, <2>5, <2>6
  <1>4. CASE ReplaysReceipt(c) \/ Refuse(c) \/ Unavailable(c)
    <2>1. tx' = NoTx /\ manual' = manual
      BY <1>4 DEF ReplaysReceipt, Refuse, Unavailable, AtStore
    <2>2. call' = [call EXCEPT ![c] = NoCall] /\ UNCHANGED <<file, past, project, manager>>
          /\ refused' \in BOOLEAN
      BY <1>4 DEF ReplaysReceipt, Refuse, Unavailable, Ends, Silent
    <2> QED
      BY <1>0, <1>1, <1>2, <2>1, <2>2
  <1>5. CASE Dies(c)
    BY <1>0, <1>1, <1>2, <1>5 DEF Dies, Ends, Silent
  <1> QED
    BY <1>3, <1>4, <1>5

LEMMA BystandersKeep ==
  ASSUME MemoryInv, ManagerLoads \/ ManagerConflicts \/ SetProject \/ UNCHANGED memoryVars
  PROVE  MemoryInv'
  <1>0. /\ call \in [Callers -> [batch : Seq(Candidates), open : BOOLEAN, expected : Int]]
        /\ project \in BOOLEAN /\ manual \in 0..MaxManual /\ MaxManual \in Nat
        /\ refused \in BOOLEAN
        /\ \A d \in Callers : call[d] = NoCall \/ call[d].batch \in Requests[d]
    BY Names DEF MemoryInv, MemoryTypeOK
  <1>1. /\ UNCHANGED <<file, past, call, tx>> /\ refused' \in BOOLEAN /\ project' \in BOOLEAN
        /\ manual' \in 0..MaxManual
    <2>1. CASE ManagerLoads
      <3>1. manual < MaxManual /\ manual' = manual + 1
        BY <2>1 DEF ManagerLoads
      <3>2. manual' \in 0..MaxManual
        BY <1>0, <3>1
      <3>3. UNCHANGED <<file, past, call, tx, project>> /\ refused' = FALSE
        BY <2>1 DEF ManagerLoads, Silent
      <3> QED
        BY <1>0, <3>2, <3>3, Zenon
    <2>2. CASE ManagerConflicts
      BY <1>0, <2>2 DEF ManagerConflicts, Silent
    <2>3. CASE SetProject
      BY <1>0, <2>3, Zenon DEF SetProject, Silent
    <2>4. CASE UNCHANGED memoryVars
      BY <1>0, <2>4 DEF memoryVars, memoryHistory
    <2> QED
      BY <2>1, <2>2, <2>3, <2>4
  <1>2. \/ manager' = manager \/ manager' = NotLoaded
        \/ manager' = [memories |-> mem, revision |-> version]
    BY DEF ManagerLoads, ManagerConflicts, SetProject, memoryVars
  <1> QED
    BY <1>0, <1>1, <1>2, QuietKeeps

-----------------------------------------------------------------------------
(* Writers around the runtime.                                             *)

\* A write with a new revision, outside of a transaction, that follows what is
\* there and adds memories without origin and claim.
LEMMA WritesKeep ==
  ASSUME MemoryInv, tx = NoTx, NEW m \in Seq(Memories), Writes(m), Len(m) <= MaxMemories,
         Follows(mem, m),
         \A i \in DOMAIN m \ DOMAIN mem : m[i].claim = Absent /\ m[i].born = Absent,
         UNCHANGED <<schema, receipts>>, manual' \in 0..MaxManual,
         manager' \in {manager, NotLoaded}
  PROVE  MemoryInv' /\ Grows(mem, mem')
  <1>0. /\ mem \in Seq(Memories) /\ version \in Nat /\ MemoryTypeOK /\ ManagerFits /\ FileFits
        /\ OneEffectPerOperation /\ OneActiveClaim
    BY DEF MemoryInv, MemoryTypeOK
  <1>1. /\ mem' = m /\ version' = version + 1 /\ UNCHANGED <<call, tx, project, past>>
        /\ refused' = FALSE
    BY DEF Writes, Silent
  <1>2. NotLoaded \in [memories : Seq(Memories), revision : Int]
    BY EmptySeq DEF NotLoaded
  <1>3. MemoryTypeOK'
    <2>1. manager' \in [memories : Seq(Memories), revision : Int]
      BY <1>0, <1>2 DEF MemoryTypeOK
    <2>2. mem' \in Seq(Memories) /\ Len(mem') <= MaxMemories /\ version' \in Nat
      BY <1>0, <1>1
    <2>3. refused' \in BOOLEAN
      BY <1>1
    <2> QED
      BY <1>0, <1>1, <2>1, <2>2, <2>3, Zenon DEF MemoryTypeOK, past
  <1>4. ManagerFits'
    BY <1>0, <1>1 DEF ManagerFits
  <1>5. FileFits'
    <2>1. ASSUME NEW o \in Ops, receipts[o] # NoReceipt
          PROVE  schema = 3 /\ o \in done /\ TrueOf(o, receipts[o].batch, receipts[o].log, m)
      BY <1>0, <2>1, TrueFollows DEF FileFits
    <2>2. ASSUME NEW o \in Ops \ lost, NEW i \in DOMAIN m, m[i].born = o
          PROVE  receipts[o] # NoReceipt
      <3>1. i \in DOMAIN mem
        BY <2>2, Names
      <3>2. mem[i].born = o
        BY <2>2, <3>1 DEF Follows
      <3> QED
        BY <1>0, <3>1, <3>2 DEF FileFits
    <2> QED
      BY <1>1, <2>1, <2>2 DEF FileFits, past
  <1>6. OneEffectPerOperation'
    <2>1. ASSUME NEW o \in Ops \ lost, NEW i \in DOMAIN m, NEW j \in DOMAIN m,
                 m[i].born = o, m[j].born = o
          PROVE  i = j
      <3>1. i \in DOMAIN mem /\ j \in DOMAIN mem
        BY <2>1, Names
      <3>2. mem[i].born = o /\ mem[j].born = o
        BY <2>1, <3>1 DEF Follows
      <3> QED
        BY <1>0, <3>1, <3>2 DEF OneEffectPerOperation
    <2> QED
      BY <1>1, <2>1 DEF OneEffectPerOperation, past
  <1>7. OneActiveClaim'
    BY <1>0, <1>1, ClaimsFollow DEF OneActiveClaim, past
  <1>8. tx' = NoTx /\ tx'.by = Absent
    BY <1>1, NoTxIsTyped
  <1>9. Grows(mem, mem')
    BY <1>0, <1>1 DEF Follows, Grows
  <1> QED
    BY <1>1, <1>3, <1>4, <1>5, <1>6, <1>7, <1>8, <1>9 DEF MemoryInv

LEMMA ActiveIsHere ==
  ASSUME MemoryInv, NEW i, Active(i)
  PROVE  i \in DOMAIN mem /\ mem \in Seq(Memories) /\ Len(mem) <= MaxMemories /\ mem[i] \in Memories
  BY DEF MemoryInv, MemoryTypeOK, Active, Kept

LEMMA PlainIsTyped ==
  ASSUME NEW t \in Facts, NEW ok \in BOOLEAN
  PROVE  /\ Plain(t, ok) \in Memories /\ Plain(t, ok).claim = Absent /\ Plain(t, ok).born = Absent
         /\ \A place \in Places :
              /\ [Plain(t, ok) EXCEPT !.place = place] \in Memories
              /\ [Plain(t, ok) EXCEPT !.place = place].claim = Absent
              /\ [Plain(t, ok) EXCEPT !.place = place].born = Absent
  BY DEF Plain, Memories, Statuses, Places

\* The file has room for one more memory; the writers without an identity.
LEMMA ApiKeeps ==
  ASSUME MemoryInv,
         \/ \E t \in Facts, ok \in BOOLEAN : ApiAdd(t, ok)
         \/ \E i \in DOMAIN mem : \/ \E t \in Facts : ApiEdit(i, t)
                                  \/ \E status \in {"resolved", "deleted"} : ApiRetire(i, status)
                                  \/ \E k \in DOMAIN mem : ApiSupersede(i, k)
  PROVE  MemoryInv' /\ Grows(mem, mem')
  <1>0. mem \in Seq(Memories) /\ Len(mem) <= MaxMemories /\ MaxMemories \in Nat
        /\ manual \in 0..MaxManual /\ MaxManual \in Nat
    BY Names DEF MemoryInv, MemoryTypeOK
  <1>1. ASSUME Around  PROVE UNCHANGED <<schema, receipts, manager>> /\ manual' \in 0..MaxManual
    BY <1>0, <1>1 DEF Around
  <1>2. ASSUME NEW t \in Facts, NEW ok \in BOOLEAN, ApiAdd(t, ok)  PROVE MemoryInv' /\ Grows(mem, mem')
    <2>1. PICK r \in Memories : r = Plain(t, ok) /\ r.claim = Absent /\ r.born = Absent
      BY PlainIsTyped
    <2>2. PICK m : m = Append(mem, r)
      OBVIOUS
    <2>3. /\ m \in Seq(Memories) /\ Len(m) = Len(mem) + 1 /\ m[Len(mem) + 1] = r
          /\ Follows(mem, m)
      BY <1>0, <2>2, Appended
    <2>4. \A i \in DOMAIN m \ DOMAIN mem : i = Len(mem) + 1
      BY <1>0, <2>3
    <2>5. Writes(m) /\ tx = NoTx /\ Len(m) <= MaxMemories /\ Around
      BY <1>0, <1>2, <2>1, <2>2, <2>3 DEF ApiAdd, Writes
    <2> QED
      BY <1>1, <2>1, <2>3, <2>4, <2>5, WritesKeep
  <1>3. ASSUME NEW i \in DOMAIN mem, NEW m \in Seq(Memories), Writes(m), Around, Len(m) = Len(mem),
               Follows(mem, m)
        PROVE  MemoryInv' /\ Grows(mem, mem')
    <2>1. DOMAIN m \ DOMAIN mem = {} /\ Len(m) <= MaxMemories
      BY <1>0, <1>3
    <2>2. tx = NoTx
      BY <1>3 DEF Writes
    <2> QED
      BY <1>1, <1>3, <2>1, <2>2, WritesKeep
  <1>4. ASSUME NEW i \in DOMAIN mem, NEW t \in Facts, ApiEdit(i, t)  PROVE MemoryInv' /\ Grows(mem, mem')
    <2>1. PICK m : m = [mem EXCEPT ![i].text = t]
      OBVIOUS
    <2>2. Changes(mem, m)
      BY <1>0, <2>1, Reworded
    <2> QED
      BY <1>3, <1>4, <2>1, <2>2 DEF ApiEdit, Changes
  <1>5. ASSUME NEW i \in DOMAIN mem, NEW status \in {"resolved", "deleted"}, ApiRetire(i, status)
        PROVE  MemoryInv' /\ Grows(mem, mem')
    <2>1. PICK m : m = [mem EXCEPT ![i].status = status]
      OBVIOUS
    <2>2. status \in Statuses \ {"active"}
      BY DEF Statuses
    <2>3. Retires(mem, i, m)
      BY <1>0, <2>1, <2>2, Retired
    <2> QED
      BY <1>3, <1>5, <2>1, <2>3 DEF ApiRetire, Retires, Changes
  <1>6. ASSUME NEW i \in DOMAIN mem, NEW k \in DOMAIN mem, ApiSupersede(i, k)  PROVE MemoryInv' /\ Grows(mem, mem')
    <2>1. PICK m : m = [mem EXCEPT ![i].status = "superseded", ![i].by = k]
      OBVIOUS
    <2>2. k \in Ids \union {Absent}
      BY <1>0 DEF Ids
    <2>3. Retires(mem, i, m)
      BY <1>0, <2>1, <2>2, Replaced
    <2> QED
      BY <1>3, <1>6, <2>1, <2>3 DEF ApiSupersede, Retires, Changes
  <1> QED
    BY <1>2, <1>4, <1>5, <1>6

LEMMA ManagerKeeps ==
  ASSUME MemoryInv, NEW i \in DOMAIN mem,
         ManagerResolves(i) \/ \E k \in DOMAIN mem : ManagerSupersedes(i, k)
  PROVE  MemoryInv' /\ Grows(mem, mem')
  <1>0. mem \in Seq(Memories) /\ Len(mem) <= MaxMemories /\ MaxMemories \in Nat
        /\ manual \in 0..MaxManual /\ ManagerFits
    BY Names DEF MemoryInv, MemoryTypeOK
  <1>1. manager.memories = mem
    BY <1>0 DEF ManagerResolves, ManagerSupersedes, ManagerSaves, ManagerFits
  <1>2. ASSUME NEW m \in Seq(Memories), ManagerSaves(m), Len(m) = Len(mem), Follows(mem, m)
        PROVE  MemoryInv' /\ Grows(mem, mem')
    <2>1. DOMAIN m \ DOMAIN mem = {} /\ Len(m) <= MaxMemories
      BY <1>0, <1>2
    <2>2. /\ tx = NoTx /\ Writes(m) /\ manual' \in 0..MaxManual /\ manager' = NotLoaded
          /\ UNCHANGED <<schema, receipts>>
      BY <1>0, <1>2 DEF ManagerSaves, Writes
    <2> QED
      BY <1>2, <2>1, <2>2, WritesKeep
  <1>3. CASE ManagerResolves(i)
    <2>1. PICK m : m = [mem EXCEPT ![i].status = "resolved"]
      OBVIOUS
    <2>2. "resolved" \in Statuses \ {"active"}
      BY DEF Statuses
    <2>3. Retires(mem, i, m)
      BY <1>0, <2>1, <2>2, Retired
    <2> QED
      BY <1>1, <1>2, <1>3, <2>1, <2>3 DEF ManagerResolves, Retires, Changes
  <1>4. ASSUME NEW k \in DOMAIN mem, ManagerSupersedes(i, k)  PROVE MemoryInv' /\ Grows(mem, mem')
    <2>1. PICK m : m = [mem EXCEPT ![i].status = "superseded", ![i].by = k]
      OBVIOUS
    <2>2. k \in Ids \union {Absent}
      BY <1>0 DEF Ids
    <2>3. Retires(mem, i, m)
      BY <1>0, <2>1, <2>2, Replaced
    <2> QED
      BY <1>1, <1>2, <1>4, <2>1, <2>3 DEF ManagerSupersedes, Retires, Changes
  <1> QED
    BY <1>3, <1>4

LEMMA NoReceiptIsTyped ==
  NoReceipt \in [batch : Seq(Candidates), log : Seq(Decisions)] /\ NoReceipt.batch = <<>>
  BY EmptySeq DEF NoReceipt

\* What a run of the validator makes of the memories there were.
LEMMA MergedKeeps ==
  ASSUME NEW m \in Seq(Memories), NEW i, NEW ok \in BOOLEAN
  PROVE  /\ Merged(m, i, ok) \in Seq(Memories) /\ Len(Merged(m, i, ok)) = Len(m)
         /\ \A j \in DOMAIN m :
              /\ Merged(m, i, ok)[j].claim = Absent /\ Merged(m, i, ok)[j].born = m[j].born
              /\ Merged(m, i, ok)[j].status = m[j].status
              /\ m[j].place = "validated" => Merged(m, i, ok)[j].place # "gone"
  <1>2. PICK n : n = Merged(m, i, ok)
    OBVIOUS
  <1>3. DOMAIN m = 1..Len(m) /\ DOMAIN n = 1..Len(m)
    <2>1. DOMAIN n = DOMAIN m
      BY <1>2, Zenon DEF Merged
    <2> QED
      BY <2>1
  <1>4. ASSUME NEW j \in DOMAIN m
        PROVE  /\ n[j] \in Memories /\ n[j].claim = Absent /\ n[j].born = m[j].born
               /\ n[j].status = m[j].status
               /\ m[j].place = "validated" => n[j].place # "gone"
    <2>1. PICK old : old = m[j]
      OBVIOUS
    <2>2. PICK good : good = IF j = i THEN ok ELSE old.approved
      OBVIOUS
    <2>3. good \in BOOLEAN
      <3>1. old \in Memories
        BY <2>1
      <3>2. old.approved \in BOOLEAN
        BY <3>1 DEF Memories
      <3> QED
        BY <2>2, <3>2, Zenon
    <2>4. PICK place : place = IF ~(old.place = "validated" \/ j = i) THEN "gone"
                               ELSE IF good THEN "validated" ELSE "rejected"
      OBVIOUS
    <2>5. place \in Places /\ (old.place = "validated" => place # "gone")
      BY <2>4 DEF Places
    <2>6. PICK r : r = [old EXCEPT !.claim = Absent, !.approved = good, !.place = place]
      OBVIOUS
    <2>7. n[j] = r
      BY <1>2, <2>1, <2>2, <2>4, <2>6 DEF Merged
    <2>8. /\ r \in Memories /\ r.claim = Absent /\ r.born = old.born
          /\ r.status = old.status /\ r.place = place
      <3>1. old \in Memories /\ place \in Places
        BY <2>1, <2>5
      <3> QED
        BY <2>3, <2>6, <3>1 DEF Memories
    <2> QED
      BY <2>1, <2>5, <2>7, <2>8, Zenon
  <1>5. n \in Seq(Memories) /\ Len(n) = Len(m)
    <2>1. n = [j \in DOMAIN m |-> n[j]]
      BY <1>2, Zenon DEF Merged
    <2>2. n \in [1..Len(m) -> Memories]
      BY <1>3, <1>4, <2>1, Zenon
    <2> QED
      BY <1>3, <2>2, LenProperties, SeqDef
  <1> QED
    BY <1>2, <1>4, <1>5

\* The document of a run has no receipts and no claims; memories keep their origin.
LEMMA ValidateKeeps ==
  ASSUME MemoryInv, NEW m \in Seq(Memories), Validate(m), Len(m) <= MaxMemories, Grows(mem, m),
         \A i \in DOMAIN m : m[i].claim = Absent,
         \A i \in DOMAIN m : m[i].born = IF i \in DOMAIN mem THEN mem[i].born ELSE Absent
  PROVE  MemoryInv' /\ Grows(mem, mem')
  <1>0. /\ mem \in Seq(Memories) /\ version \in Nat /\ manual \in 0..MaxManual /\ MaxManual \in Nat
        /\ MemoryTypeOK /\ ManagerFits /\ FileFits /\ OneEffectPerOperation
    BY Names DEF MemoryInv, MemoryTypeOK
  <1>1. /\ mem' = m /\ version' = version + 1 /\ schema' = 2 /\ tx = NoTx
        /\ receipts' = [o \in Ops |-> NoReceipt]
        /\ lost' = lost \union {o \in Ops : receipts[o] # NoReceipt}
        /\ UNCHANGED <<call, tx, project, manager, done, batched>>
        /\ refused' = FALSE /\ manual < MaxManual /\ manual' = manual + 1
    BY DEF Validate
  <1>2. MemoryTypeOK'
    <2>1. version' \in Nat /\ manual' \in 0..MaxManual /\ schema' \in {2, 3}
      BY <1>0, <1>1
    <2>2. receipts' \in [Ops -> [batch : Seq(Candidates), log : Seq(Decisions)]]
      BY <1>1, NoReceiptIsTyped
    <2>3. lost' \subseteq done /\ done \subseteq Ops
      BY <1>0, <1>1 DEF MemoryTypeOK, FileFits
    <2>4. mem' \in Seq(Memories) /\ Len(mem') <= MaxMemories /\ refused' \in BOOLEAN
      BY <1>1
    <2> QED
      BY <1>0, <1>1, <2>1, <2>2, <2>3, <2>4, Zenon DEF MemoryTypeOK
  <1>3. ManagerFits'
    BY <1>0, <1>1 DEF ManagerFits
  <1>4. \A o \in Ops : receipts'[o] = NoReceipt
    BY <1>1
  <1>5. ASSUME NEW o \in Ops \ lost', NEW i \in DOMAIN m, m[i].born = o  PROVE FALSE
    <2>1. o \in Ops \ lost /\ receipts[o] = NoReceipt /\ o # Absent
      BY <1>1, <1>5, Names
    <2>2. i \in DOMAIN mem /\ mem[i].born = o
      BY <1>5, <2>1
    <2> QED
      BY <1>0, <2>1, <2>2 DEF FileFits
  <1>6. FileFits' /\ OneEffectPerOperation'
    BY <1>1, <1>4, <1>5 DEF FileFits, OneEffectPerOperation
  <1>7. OneActiveClaim'
    <2>1. \A k \in Claims : Holders(m, k) = {}
      BY DEF Holders, Kept
    <2> QED
      BY <1>1, <2>1 DEF OneActiveClaim, ClaimsOnce
  <1>8. tx' = NoTx /\ tx'.by = Absent
    BY <1>1, NoTxIsTyped
  <1>9. Grows(mem, mem')
    BY <1>1
  <1> QED
    BY <1>1, <1>2, <1>3, <1>6, <1>7, <1>8, <1>9 DEF MemoryInv

LEMMA ValidatorKeeps ==
  ASSUME MemoryInv,
         \/ ValidateNothing
         \/ \E t \in Facts, ok \in BOOLEAN : ValidateNew(t, ok)
         \/ \E i \in DOMAIN mem, ok \in BOOLEAN : ValidateKnown(i, ok)
  PROVE  MemoryInv' /\ Grows(mem, mem')
  <1>0. mem \in Seq(Memories) /\ Len(mem) <= MaxMemories /\ MaxMemories \in Nat
    BY Names DEF MemoryInv, MemoryTypeOK
  <1>1. ASSUME NEW i, NEW ok \in BOOLEAN, Validate(Merged(mem, i, ok))  PROVE MemoryInv' /\ Grows(mem, mem')
    <2>1. PICK m : m = Merged(mem, i, ok)
      OBVIOUS
    <2>2. /\ m \in Seq(Memories) /\ Len(m) = Len(mem)
          /\ \A j \in DOMAIN mem :
               /\ m[j].claim = Absent /\ m[j].born = mem[j].born /\ m[j].status = mem[j].status
               /\ mem[j].place = "validated" => m[j].place # "gone"
      <3>1. /\ Merged(mem, i, ok) \in Seq(Memories) /\ Len(Merged(mem, i, ok)) = Len(mem)
            /\ \A j \in DOMAIN mem :
                 /\ Merged(mem, i, ok)[j].claim = Absent /\ Merged(mem, i, ok)[j].born = mem[j].born
                 /\ Merged(mem, i, ok)[j].status = mem[j].status
                 /\ mem[j].place = "validated" => Merged(mem, i, ok)[j].place # "gone"
        BY <1>0, MergedKeeps, Zenon
      <3> QED
        BY <2>1, <3>1, Zenon
    <2>3. DOMAIN m = DOMAIN mem /\ Len(m) <= MaxMemories /\ Grows(mem, m)
      BY <1>0, <2>2 DEF Grows
    <2> QED
      BY <1>1, <2>1, <2>2, <2>3, ValidateKeeps
  <1>2. CASE ValidateNothing
    BY <1>1, <1>2 DEF ValidateNothing
  <1>3. ASSUME NEW i \in DOMAIN mem, NEW ok \in BOOLEAN, ValidateKnown(i, ok)  PROVE MemoryInv' /\ Grows(mem, mem')
    BY <1>1, <1>3 DEF ValidateKnown
  <1>4. ASSUME NEW t \in Facts, NEW ok \in BOOLEAN, ValidateNew(t, ok)  PROVE MemoryInv' /\ Grows(mem, mem')
    <2>1. PICK n : n = Merged(mem, Absent, FALSE)
      OBVIOUS
    <2>2. /\ n \in Seq(Memories) /\ Len(n) = Len(mem)
          /\ \A j \in DOMAIN mem :
               /\ n[j].claim = Absent /\ n[j].born = mem[j].born /\ n[j].status = mem[j].status
               /\ mem[j].place = "validated" => n[j].place # "gone"
      <3>1. /\ Merged(mem, Absent, FALSE) \in Seq(Memories) /\ Len(Merged(mem, Absent, FALSE)) = Len(mem)
            /\ \A j \in DOMAIN mem :
                 /\ Merged(mem, Absent, FALSE)[j].claim = Absent /\ Merged(mem, Absent, FALSE)[j].born = mem[j].born
                 /\ Merged(mem, Absent, FALSE)[j].status = mem[j].status
                 /\ mem[j].place = "validated" => Merged(mem, Absent, FALSE)[j].place # "gone"
        BY <1>0, MergedKeeps, Zenon
      <3> QED
        BY <2>1, <3>1, Zenon
    <2>3. PICK place \in Places : place = IF ok THEN "validated" ELSE "rejected"
      BY DEF Places
    <2>4. PICK r : r = [Plain(t, ok) EXCEPT !.place = place]
      OBVIOUS
    <2>5. r \in Memories /\ r.claim = Absent /\ r.born = Absent
      BY <2>4, PlainIsTyped
    <2>6. PICK m : m = Append(n, r)
      OBVIOUS
    <2>7. /\ m \in Seq(Memories) /\ Len(m) = Len(mem) + 1
          /\ m[Len(mem) + 1] = r /\ \A j \in DOMAIN n : m[j] = n[j]
      BY <2>2, <2>5, <2>6, Appended
    <2>8. Validate(m) /\ Len(mem) < MaxMemories
      BY <1>4, <2>1, <2>3, <2>4, <2>6 DEF ValidateNew
    <2>9. /\ Len(mem) <= Len(m) /\ Len(m) <= MaxMemories /\ DOMAIN n = DOMAIN mem
          /\ \A j \in DOMAIN m : j \in DOMAIN mem \/ (j = Len(mem) + 1 /\ j \notin DOMAIN mem)
      BY <1>0, <2>2, <2>7, <2>8
    <2>10. \A j \in DOMAIN m :
             m[j].claim = Absent /\ m[j].born = IF j \in DOMAIN mem THEN mem[j].born ELSE Absent
      BY <2>2, <2>5, <2>7, <2>9
    <2>11. Grows(mem, m)
      BY <2>2, <2>7, <2>9 DEF Grows
    <2> QED
      BY <2>7, <2>8, <2>9, <2>10, <2>11, ValidateKeeps
  <1> QED
    BY <1>2, <1>3, <1>4

\* A document of schema 2 has no receipts to discard.
LEMMA MigrateKeeps ==
  ASSUME MemoryInv, Migrate
  PROVE  MemoryInv' /\ receipts' = receipts
  <1>1. /\ tx = NoTx /\ schema = 2 /\ schema' = 3 /\ receipts' = [o \in Ops |-> NoReceipt]
        /\ UNCHANGED <<mem, version, call, tx, project, manager, manual, past>> /\ refused' = FALSE
    BY DEF Migrate, Silent
  <1>2. receipts' = receipts
    <2>1. receipts = [o \in Ops |-> receipts[o]]
      BY DEF MemoryInv, MemoryTypeOK
    <2>2. \A o \in Ops : receipts[o] = NoReceipt
      BY <1>1 DEF MemoryInv, FileFits
    <2> QED
      BY <1>1, <2>1, <2>2
  <1>3. MemoryTypeOK'
    <2>1. schema' \in {2, 3} /\ refused' \in BOOLEAN
      BY <1>1
    <2> QED
      BY <1>1, <1>2, <2>1, Zenon DEF MemoryInv, MemoryTypeOK, past
  <1>4. FileFits' /\ OneEffectPerOperation' /\ OneActiveClaim' /\ ManagerFits'
    <2>1. \A o \in Ops : receipts'[o] = NoReceipt
      BY <1>1
    <2> QED
      BY <1>1, <1>2, <2>1 DEF MemoryInv, FileFits, OneEffectPerOperation, OneActiveClaim, ManagerFits, past
  <1>5. tx' = NoTx /\ tx'.by = Absent
    BY <1>1, NoTxIsTyped
  <1> QED
    BY <1>1, <1>2, <1>3, <1>4, <1>5 DEF MemoryInv

-----------------------------------------------------------------------------
(* The transaction of the engine.                                          *)

LEMMA ReloadKeeps ==
  ASSUME MemoryInv, NEW c \in Callers, Reload(c)
  PROVE  MemoryInv'
  <1>0. /\ mem \in Seq(Memories) /\ MemoryTypeOK /\ MaxMemories \in Nat
        /\ call[c] # NoCall /\ call[c].batch \in Seq(Candidates)
    BY Names DEF MemoryInv, MemoryTypeOK, Reload, AtStore
  <1>1. PICK t : t = [by |-> c, rest |-> call[c].batch, work |-> mem,
                      seen |-> {mem[i].text : i \in Kept(mem)}, log |-> <<>>]
    OBVIOUS
  <1>2. /\ tx' = t /\ UNCHANGED <<file, call, project, manager, manual, past>> /\ refused' = FALSE
        /\ Admitted(c) /\ Len(mem) + Len(call[c].batch) <= MaxMemories
    BY <1>1 DEF Reload, Silent
  <1>3. {mem[i].text : i \in Kept(mem)} \subseteq Facts
    <2>1. \A i \in Kept(mem) : mem[i] \in Memories
      BY <1>0 DEF Kept
    <2> QED
      BY <2>1 DEF Memories
  <1>4. /\ t.by = c /\ t.rest = call[c].batch /\ t.work = mem /\ t.log = <<>>
        /\ t \in [by : Callers \union {Absent}, rest : Seq(Candidates), work : Seq(Memories),
                  seen : SUBSET Facts, log : Seq(Decisions)]
    BY <1>0, <1>1, <1>3, EmptySeq
  <1>5. MemoryTypeOK'
    BY <1>0, <1>2, <1>4, Zenon DEF MemoryTypeOK, file, past
  <1>6. TxFits'
    <2>1. /\ Len(t.log) = 0 /\ Len(t.rest) \in Nat /\ Len(t.log) + Len(t.rest) = Len(call[c].batch)
          /\ Len(t.work) + Len(t.rest) <= MaxMemories /\ Follows(mem, t.work)
          /\ DOMAIN t.work \ DOMAIN mem = {} /\ Len(t.work) <= Len(mem) + 1
      BY <1>0, <1>2, <1>4, FollowsItself
    <2>2. ~batched => ClaimsOnce(t.work)
      BY <1>4 DEF MemoryInv, OneActiveClaim
    <2>3. c \in Ops => schema = 3 /\ receipts[c] = NoReceipt
      BY <1>2 DEF Admitted, Known
    <2> QED
      BY <1>0, <1>2, <1>4, <2>1, <2>2, <2>3 DEF TxFits, file, past
  <1>7. tx'.by # Absent
    BY <1>2, <1>4, Names
  <1> QED
    BY <1>2, <1>5, <1>6, <1>7
       DEF MemoryInv, FileFits, ManagerFits, OneEffectPerOperation, OneActiveClaim, file, past

\* The candidate a transaction is at, and what a call with one candidate sees.
LEMMA JustOne ==
  ASSUME NEW n \in Nat, n # 0, ~(n > 1)
  PROVE  n = 1
  OBVIOUS

LEMMA OneLeft ==
  ASSUME NEW a \in Nat, NEW b \in Nat, b >= 1, a + b = 1
  PROVE  a = 0 /\ b = 1
  OBVIOUS

LEMMA RoomLeft ==
  ASSUME NEW a \in Nat, NEW b \in Nat, NEW max \in Nat, b >= 1, a + b <= max
  PROVE  a + 1 <= max
  OBVIOUS

\* One taken from the rest, one more in the log, at most one more memory.
LEMMA OneTaken ==
  ASSUME NEW log \in Nat, NEW rest \in Nat, NEW work \in Nat, NEW max \in Nat, NEW made \in Nat,
         work + rest <= max, made <= work + 1
  PROVE  (log + 1) + (rest - 1) = log + rest /\ made + (rest - 1) <= max
  OBVIOUS

LEMMA AtCandidate ==
  ASSUME MemoryInv, tx # NoTx, tx.rest # <<>>
  PROVE  LET o == tx.by  b == call[tx.by].batch IN
         /\ o \in Callers /\ Head(tx.rest) \in Candidates /\ tx.work \in Seq(Memories)
         /\ mem \in Seq(Memories) /\ Follows(mem, tx.work) /\ tx.log \in Seq(Decisions)
         /\ b \in Seq(Candidates) /\ Len(mem) <= MaxMemories /\ tx.seen \subseteq Facts
         /\ Len(tx.work) + 1 \in Ids /\ DOMAIN tx.work \subseteq Ids
         /\ o \in Ops => Len(b) = 1
         /\ Len(b) = 1 =>
              /\ tx.log = <<>> /\ tx.work = mem /\ Head(tx.rest) = b[1] /\ Len(tx.rest) = 1
              /\ ~batched => ClaimsOnce(mem)
  <1>0. /\ MemoryTypeOK /\ TxFits /\ tx.by \in Callers /\ MaxMemories \in Nat
        /\ call[tx.by].batch \in Requests[tx.by]
    BY InTransaction, Names DEF MemoryInv, TxFits
  <1>1. /\ tx.rest \in Seq(Candidates) /\ tx.work \in Seq(Memories) /\ tx.log \in Seq(Decisions)
        /\ mem \in Seq(Memories) /\ Len(mem) <= MaxMemories /\ tx.seen \subseteq Facts
        /\ call[tx.by].batch \in Seq(Candidates)
    BY <1>0 DEF MemoryTypeOK
  <1>2. Head(tx.rest) \in Candidates /\ Len(tx.rest) \in Nat /\ Len(tx.rest) >= 1
    BY <1>1, HeadTailProperties, EmptySeq
  <1>a. /\ Len(tx.log) + Len(tx.rest) = Len(call[tx.by].batch)
        /\ Len(tx.work) + Len(tx.rest) <= MaxMemories
    BY <1>0, Zenon DEF TxFits
  <1>3. Len(tx.work) + 1 \in Ids /\ DOMAIN tx.work \subseteq Ids
    <2>1. Len(tx.work) \in Nat /\ DOMAIN tx.work = 1..Len(tx.work)
      BY <1>1
    <2>2. Len(tx.work) + 1 <= MaxMemories
      BY <1>0, <1>2, <1>a, <2>1, RoomLeft, Zenon
    <2> QED
      BY <1>0, <2>1, <2>2 DEF Ids
  <1>4. tx.by \in Ops => Len(call[tx.by].batch) = 1
    BY <1>0, OneAtATime
  <1>5. ASSUME Len(call[tx.by].batch) = 1
        PROVE  /\ tx.log = <<>> /\ tx.work = mem /\ Head(tx.rest) = call[tx.by].batch[1]
               /\ Len(tx.rest) = 1 /\ (~batched => ClaimsOnce(mem))
    <2>1. Len(tx.log) = 0 /\ Len(tx.rest) = 1
      <3>1. Len(tx.log) \in Nat
        BY <1>1
      <3>2. Len(tx.log) + Len(tx.rest) = 1
        BY <1>5, <1>a
      <3> QED
        BY <1>2, <3>1, <3>2, OneLeft, Zenon
    <2>2. tx.log = <<>>
      BY <1>1, <2>1, EmptySeq
    <2>3. tx.work = mem /\ tx.rest = call[tx.by].batch
      BY <1>0, <2>2 DEF TxFits
    <2>4. Head(tx.rest) = call[tx.by].batch[1]
      BY <1>1, <2>3
    <2>5. ~batched => ClaimsOnce(mem)
      BY DEF MemoryInv, OneActiveClaim
    <2> QED
      BY <2>1, <2>2, <2>3, <2>4, <2>5
  <1> QED
    BY <1>0, <1>1, <1>2, <1>3, <1>4, <1>5 DEF TxFits

\* One candidate is decided: what has to be shown of the memories it makes.
LEMMA TakesKeeps ==
  ASSUME MemoryInv, tx # NoTx, tx.rest # <<>>,
         NEW d \in Decisions, NEW work \in Seq(Memories), NEW seen \in SUBSET Facts,
         Takes(d, work, seen), UNCHANGED <<file, call, project, manager, manual, past>>,
         refused' = FALSE,
         Follows(tx.work, work), Len(work) <= Len(tx.work) + 1,
         \A i \in DOMAIN work \ DOMAIN tx.work :
           work[i].born = IF tx.by \in Ops THEN tx.by ELSE Absent,
         Len(call[tx.by].batch) = 1 =>
           /\ ~batched => ClaimsOnce(work)
           /\ tx.by \in Ops /\ d.action \notin Undecided =>
                TrueOf(tx.by, call[tx.by].batch, <<d>>, work)
           /\ Len(work) > Len(mem) => d.action \notin Undecided
  PROVE  MemoryInv'
  <1>0. /\ MemoryTypeOK /\ TxFits /\ tx.by \in Callers /\ MaxMemories \in Nat
        /\ tx.work \in Seq(Memories) /\ tx.log \in Seq(Decisions) /\ mem \in Seq(Memories)
        /\ tx.rest \in Seq(Candidates) /\ call[tx.by].batch \in Seq(Candidates)
        /\ tx \in [by : Callers \union {Absent}, rest : Seq(Candidates), work : Seq(Memories),
                   seen : SUBSET Facts, log : Seq(Decisions)]
    BY InTransaction, Names DEF MemoryInv, MemoryTypeOK, TxFits
  <1>1. PICK rest : rest = Tail(tx.rest)
    OBVIOUS
  <1>2. rest \in Seq(Candidates) /\ Len(rest) = Len(tx.rest) - 1 /\ Len(tx.rest) \in Nat \ {0}
    BY <1>0, <1>1, HeadTailProperties, EmptySeq
  <1>3. PICK log : log = Append(tx.log, d)
    OBVIOUS
  <1>4. log \in Seq(Decisions) /\ Len(log) = Len(tx.log) + 1 /\ log # <<>>
    <2>1. log \in Seq(Decisions) /\ Len(log) = Len(tx.log) + 1
      BY <1>0, <1>3, AppendProperties
    <2>2. Len(tx.log) \in Nat /\ Len(<<>>) = 0
      BY <1>0
    <2> QED
      BY <2>1, <2>2
  <1>5. PICK t : t = [tx EXCEPT !.rest = rest, !.work = work, !.seen = seen, !.log = log]
    OBVIOUS
  <1>6. tx' = t
    BY <1>1, <1>3, <1>5 DEF Takes
  <1>7. /\ t.by = tx.by /\ t.rest = rest /\ t.work = work /\ t.log = log
        /\ t \in [by : Callers \union {Absent}, rest : Seq(Candidates), work : Seq(Memories),
                  seen : SUBSET Facts, log : Seq(Decisions)]
    BY <1>0, <1>2, <1>4, <1>5
  <1>8. MemoryTypeOK'
    BY <1>0, <1>6, <1>7, Zenon DEF MemoryTypeOK, file, past
  <1>9. TxFits'
    <2>1. call[tx.by] # NoCall
      BY <1>0 DEF TxFits
    <2>2. /\ Len(log) + Len(rest) = Len(call[tx.by].batch) /\ Len(work) + Len(rest) <= MaxMemories
      <3>1. /\ Len(tx.log) + Len(tx.rest) = Len(call[tx.by].batch)
            /\ Len(tx.work) + Len(tx.rest) <= MaxMemories
        BY <1>0, Zenon DEF TxFits
      <3> QED
        <4>1. /\ Len(tx.log) \in Nat /\ Len(tx.work) \in Nat /\ Len(work) \in Nat /\ Len(rest) \in Nat
              /\ Len(call[tx.by].batch) \in Nat
          BY <1>0, <1>2
        <4>2. Len(work) <= Len(tx.work) + 1 /\ MaxMemories \in Nat /\ Len(tx.rest) \in Nat
          BY <1>0, <1>2
        <4>3. /\ Len(rest) = Len(tx.rest) - 1 /\ Len(log) = Len(tx.log) + 1
          BY <1>2, <1>4
        <4>4. /\ (Len(tx.log) + 1) + (Len(tx.rest) - 1) = Len(tx.log) + Len(tx.rest)
              /\ Len(work) + (Len(tx.rest) - 1) <= MaxMemories
          BY <3>1, <4>1, <4>2, OneTaken, Zenon
        <4> QED
          BY <3>1, <4>3, <4>4, Zenon
    <2>3. Follows(mem, work)
      BY <1>0, FollowsTransitive DEF TxFits
    <2>4. \A i \in DOMAIN work \ DOMAIN mem : work[i].born = IF tx.by \in Ops THEN tx.by ELSE Absent
      <3>1. ASSUME NEW i \in DOMAIN work \ DOMAIN mem, i \in DOMAIN tx.work
            PROVE  work[i].born = IF tx.by \in Ops THEN tx.by ELSE Absent
        BY <1>0, <3>1 DEF TxFits, Follows
      <3> QED
        BY <3>1
    <2>5. ASSUME tx.by \in Ops
          PROVE  /\ schema = 3 /\ receipts[tx.by] = NoReceipt /\ Len(work) <= Len(mem) + 1
                 /\ log[1].action \notin Undecided => TrueOf(tx.by, call[tx.by].batch, log, work)
                 /\ Len(work) > Len(mem) => log[1].action \notin Undecided
      <3>1. Len(call[tx.by].batch) = 1 /\ tx.log = <<>> /\ tx.work = mem
        BY <2>5, AtCandidate
      <3>2. log = <<d>> /\ log[1] = d
        BY <1>3, <3>1
      <3> QED
        BY <1>0, <2>5, <3>1, <3>2 DEF TxFits
    <2>6. ~batched /\ Len(call[tx.by].batch) = 1 => ClaimsOnce(work)
      OBVIOUS
    <2> QED
      BY <1>0, <1>4, <1>6, <1>7, <2>1, <2>2, <2>3, <2>4, <2>5, <2>6 DEF TxFits, file, past
  <1>10. tx'.by # Absent
    BY <1>0, <1>6, <1>7, Names
  <1> QED
    BY <1>8, <1>9, <1>10
       DEF MemoryInv, FileFits, ManagerFits, OneEffectPerOperation, OneActiveClaim, file, past

\* The record a candidate becomes.
LEMMA RecordIsTyped ==
  ASSUME NEW c \in Candidates, NEW o \in Callers
  PROVE  /\ Record(c, o) \in Memories /\ Record(c, o).claim = c.claim
         /\ Record(c, o).place = "validated"
         /\ Record(c, o).born = IF o \in Ops THEN o ELSE Absent
  BY DEF Candidates, Record, Memories, Statuses, Places

\* A new holder of a claim: those of before are not active any more.
LEMMA ClaimIsTaken ==
  ASSUME NEW m \in Seq(Memories), NEW n \in Seq(Memories), NEW r \in Memories,
         Follows(m, n), Len(n) = Len(m), ClaimsOnce(m),
         \A i \in Holders(m, r.claim) : n[i].status # "active"
  PROVE  ClaimsOnce(Append(n, r))
  <1>1. PICK l : l = Append(n, r)
    OBVIOUS
  <1>2. /\ l \in Seq(Memories) /\ Len(l) = Len(m) + 1
        /\ l[Len(m) + 1] = r /\ \A j \in DOMAIN n : l[j] = n[j]
    BY <1>1, Appended
  <1>3. DOMAIN n = DOMAIN m /\ \A i \in DOMAIN l : i \in DOMAIN m \/ i = Len(m) + 1
    BY <1>2
  <1>4. ASSUME NEW k \in Claims, NEW i \in Holders(l, k), i \in DOMAIN m
        PROVE  i \in Holders(m, k) /\ n[i].status = "active"
    <2>1. l[i].claim = k /\ l[i].status = "active" /\ l[i].place = "validated" /\ k # Absent /\ l[i] = n[i]
      BY <1>2, <1>3, <1>4 DEF Holders, Kept
    <2>2. m[i].claim = k /\ m[i].status = "active" /\ m[i].place = "validated"
      BY <1>4, <2>1 DEF Follows
    <2> QED
      BY <1>4, <2>1, <2>2 DEF Holders, Kept
  <1>5. ASSUME NEW k \in Claims, NEW i \in Holders(l, k), NEW j \in Holders(l, k)  PROVE i = j
    <2>1. i \in DOMAIN l /\ j \in DOMAIN l /\ l[i].claim = k /\ l[j].claim = k
      BY DEF Holders, Kept
    <2>2. CASE i \in DOMAIN m /\ j \in DOMAIN m
      BY <1>4, <2>2 DEF ClaimsOnce
    <2>3. CASE i = Len(m) + 1 /\ j \in DOMAIN m
      BY <1>2, <1>4, <2>1, <2>3
    <2>4. CASE j = Len(m) + 1 /\ i \in DOMAIN m
      BY <1>2, <1>4, <2>1, <2>4
    <2> QED
      BY <1>3, <2>1, <2>2, <2>3, <2>4
  <1> QED
    BY <1>1, <1>5 DEF ClaimsOnce

\* Memories that follow without additions hold their claims as they did.
LEMMA ClaimsKept ==
  ASSUME NEW m \in Seq(Memories), NEW n, Changes(m, n), ClaimsOnce(m)
  PROVE  ClaimsOnce(n)
  <1>1. n \in Seq(Memories) /\ Follows(m, n) /\ DOMAIN n \ DOMAIN m = {}
    BY DEF Changes
  <1> QED
    BY <1>1, ClaimsFollow

LEMMA Untouched ==
  UNCHANGED <<file, call, project, manager, manual>> /\ Silent
    => UNCHANGED <<file, call, project, manager, manual, past>> /\ refused' = FALSE
  BY DEF Silent

\* A decision without an effect.
LEMMA PassesKeep ==
  ASSUME MemoryInv, tx # NoTx, tx.rest # <<>>,
         NEW d \in Decisions, d.action \in Undecided \union {"DUPLICATE", "CONFIRM_EXISTING"},
         Takes(d, tx.work, tx.seen),
         Len(call[tx.by].batch) = 1 /\ d.action \notin Undecided => d.id \in Kept(mem),
         UNCHANGED <<file, call, project, manager, manual>>, Silent
  PROVE  MemoryInv'
  <1>1. /\ tx.work \in Seq(Memories) /\ mem \in Seq(Memories) /\ tx.seen \in SUBSET Facts
        /\ Len(call[tx.by].batch) = 1 => tx.work = mem /\ (~batched => ClaimsOnce(mem))
    BY AtCandidate
  <1>2. /\ Follows(tx.work, tx.work) /\ Len(tx.work) <= Len(tx.work) + 1
        /\ DOMAIN tx.work \ DOMAIN tx.work = {}
    BY <1>1, FollowsItself
  <1>3. ASSUME Len(call[tx.by].batch) = 1
        PROVE  /\ ~batched => ClaimsOnce(tx.work)
               /\ d.action \notin Undecided => TrueOf(tx.by, call[tx.by].batch, <<d>>, tx.work)
               /\ ~(Len(tx.work) > Len(mem))
    <2>1. <<d>>[1] = d
      OBVIOUS
    <2>2. tx.work = mem /\ (~batched => ClaimsOnce(mem)) /\ ~(Len(mem) > Len(mem))
      BY <1>1, <1>3
    <2>3. ASSUME d.action \notin Undecided  PROVE TrueOf(tx.by, call[tx.by].batch, <<d>>, mem)
      BY <1>3, <2>1, <2>3 DEF TrueOf
    <2> QED
      BY <2>2, <2>3
  <1>4. UNCHANGED <<file, call, project, manager, manual, past>> /\ refused' = FALSE
    BY Untouched
  <1> QED
    BY <1>1, <1>2, <1>3, <1>4, TakesKeeps

LEMMA PassKeeps ==
  ASSUME MemoryInv, tx # NoTx, tx.rest # <<>>, Pass(Head(tx.rest)),
         UNCHANGED <<file, call, project, manager, manual>>, Silent
  PROVE  MemoryInv'
  <1>1. PICK c \in Candidates : c = Head(tx.rest)
    BY AtCandidate
  <1>2. mem \in Seq(Memories) /\ DOMAIN mem \subseteq Ids
    <2>1. mem \in Seq(Memories) /\ DOMAIN tx.work \subseteq Ids /\ Follows(mem, tx.work)
          /\ tx.work \in Seq(Memories)
      BY AtCandidate
    <2>2. DOMAIN mem \subseteq DOMAIN tx.work
      BY <2>1 DEF Follows
    <2> QED
      BY <2>1, <2>2
  <1>3. PICK d \in Evaluate(c, mem, tx.by) :
          /\ d.action \in Undecided \union {"DUPLICATE", "CONFIRM_EXISTING"}
          /\ Takes(d, tx.work, tx.seen)
    BY <1>1 DEF Pass
  <1>4. d \in Decisions /\ (d.action \notin Undecided => d.id \in Kept(mem))
    <2>1. CASE c.action = "NEW"
      <3>1. d \in NewDecisions(c, mem)
        BY <1>3, <2>1 DEF Evaluate
      <3>2. CASE \E i \in Saying(mem, c.text) : d = Decision("DUPLICATE", i)
        BY <1>2, <3>2 DEF Decision, Decisions, Saying, Kept
      <3>3. CASE \E i \in Holders(mem, c.claim) : d = Decision("CONFLICT", i)
        BY <1>2, <3>3 DEF Decision, Decisions, Undecided, Holders, Kept
      <3>4. CASE d = Decision("NEW", Absent)
        BY <1>3, <3>4 DEF Decision, Undecided
      <3> QED
        BY <3>1, <3>2, <3>3, <3>4 DEF NewDecisions
    <2>2. CASE c.action # "NEW"
      <3>1. d = LifecycleDecision(c, mem, tx.by)
        BY <1>3, <2>2 DEF Evaluate
      <3>2. CASE c.target \notin Kept(mem) \/ mem[c.target].status = "deleted"
        BY <3>1, <3>2 DEF LifecycleDecision, Decision, Decisions, Undecided
      <3>3. ASSUME c.target \in Kept(mem), mem[c.target].status # "deleted"
            PROVE  d \in Decisions /\ (d.action \notin Undecided => d.id \in Kept(mem))
        <4>1. c.target \in Ids
          BY <1>2, <3>3 DEF Kept
        <4>2. \/ d = Decision("CONFIRM_EXISTING", c.target)
              \/ d = Decision("REVIEW_REQUIRED", c.target)
              \/ d = Decision("RESOLVE_EXISTING", c.target)
              \/ d = Decision("CONFLICT", Absent)
              \/ d = Decision("SUPERSEDE_EXISTING", c.target)
          BY <3>1, <3>3 DEF LifecycleDecision
        <4> QED
          BY <3>3, <4>1, <4>2 DEF Decision, Decisions, Undecided, Actions
      <3> QED
        BY <3>2, <3>3
    <2> QED
      BY <2>1, <2>2
  <1> QED
    BY <1>3, <1>4, PassesKeep

LEMMA NewKeeps ==
  ASSUME MemoryInv, tx # NoTx, tx.rest # <<>>, ApplyNew(Head(tx.rest)),
         UNCHANGED <<file, call, project, manager, manual>>, Silent
  PROVE  MemoryInv'
  <1>1. PICK c \in Candidates : c = Head(tx.rest)
    BY AtCandidate
  <1>2. /\ tx.by \in Callers /\ tx.work \in Seq(Memories) /\ mem \in Seq(Memories)
        /\ tx.seen \subseteq Facts /\ Len(tx.work) + 1 \in Ids /\ DOMAIN tx.work \subseteq Ids
        /\ Len(call[tx.by].batch) = 1 =>
             tx.log = <<>> /\ tx.work = mem /\ (~batched => ClaimsOnce(mem))
    BY AtCandidate
  <1>3. CASE Takes(Decision("NEW", NewId(tx.work)), Append(tx.work, Record(c, tx.by)),
                   tx.seen \union {c.text})
    <2>1. PICK d : d = Decision("NEW", NewId(tx.work))
      OBVIOUS
    <2>2. d \in Decisions /\ d.action = "NEW" /\ d.id = Len(tx.work) + 1
      BY <1>2, <2>1 DEF Decision, Decisions, NewId, Actions
    <2>3. PICK r \in Memories : /\ r = Record(c, tx.by) /\ r.claim = c.claim /\ r.place = "validated"
                                /\ r.born = IF tx.by \in Ops THEN tx.by ELSE Absent
      BY <1>2, RecordIsTyped
    <2>4. PICK work : work = Append(tx.work, r)
      OBVIOUS
    <2>5. /\ work \in Seq(Memories) /\ Len(work) = Len(tx.work) + 1
          /\ work[Len(tx.work) + 1] = r /\ Follows(tx.work, work)
      BY <1>2, <2>4, Appended
    <2>6. \A i \in DOMAIN work \ DOMAIN tx.work :
            work[i].born = IF tx.by \in Ops THEN tx.by ELSE Absent
      <3>1. \A i \in DOMAIN work \ DOMAIN tx.work : i = Len(tx.work) + 1
        BY <1>2, <2>5
      <3> QED
        BY <2>3, <2>5, <3>1
    <2>7. ASSUME Len(call[tx.by].batch) = 1
          PROVE  /\ ~batched => ClaimsOnce(work)
                 /\ tx.by \in Ops => TrueOf(tx.by, call[tx.by].batch, <<d>>, work)
      <3>1. Holders(mem, c.claim) = {}
        BY <1>1 DEF ApplyNew, Evaluate, NewDecisions, LifecycleDecision, Decision, Saying
      <3>2. ~batched => ClaimsOnce(work)
        <4>1. ClaimsOnce(mem) => ClaimsOnce(Append(mem, r))
          BY <1>2, <2>3, <3>1, FollowsItself, ClaimIsTaken
        <4> QED
          BY <1>2, <2>4, <2>7, <4>1
      <3>3. d.id \in Kept(work)
        BY <1>2, <2>2, <2>3, <2>5 DEF Kept
      <3>4. ASSUME tx.by \in Ops  PROVE work[d.id].born = tx.by
        BY <2>2, <2>3, <2>5, <3>4
      <3> QED
        <4>1. <<d>>[1] = d
          OBVIOUS
        <4> QED
          BY <2>2, <3>2, <3>3, <3>4, <4>1 DEF TrueOf
    <2>8. d.action \notin Undecided /\ tx.seen \union {c.text} \in SUBSET Facts
      BY <1>2, <2>2 DEF Undecided, Candidates
    <2>9. /\ Takes(d, work, tx.seen \union {c.text}) /\ Len(work) <= Len(tx.work) + 1
          /\ UNCHANGED <<file, call, project, manager, manual, past>> /\ refused' = FALSE
      BY <1>2, <1>3, <2>1, <2>3, <2>4, <2>5, Untouched
    <2> QED
      BY <2>2, <2>5, <2>6, <2>7, <2>8, <2>9, TakesKeeps
  <1>4. ASSUME NEW i \in Saying(tx.work, c.text), Takes(Decision("DUPLICATE", i), tx.work, tx.seen)
        PROVE  MemoryInv'
    <2>1. PICK d : d = Decision("DUPLICATE", i)
      OBVIOUS
    <2>2. i \in DOMAIN tx.work /\ i \in Kept(tx.work)
      BY <1>4 DEF Saying, Kept
    <2>3. d \in Decisions /\ d.action = "DUPLICATE" /\ d.id = i
      BY <1>2, <2>1, <2>2 DEF Decision, Decisions
    <2>4. Len(call[tx.by].batch) = 1 => d.id \in Kept(mem)
      BY <1>2, <2>2, <2>3
    <2> QED
      BY <1>4, <2>1, <2>3, <2>4, PassesKeep
  <1> QED
    BY <1>1, <1>3, <1>4 DEF ApplyNew

\* A retirement in the transaction: the target is among the validated
\* memories of the file, hence among those of the transaction.
LEMMA TargetIsThere ==
  ASSUME MemoryInv, tx # NoTx, tx.rest # <<>>, NEW c, c = Head(tx.rest),
         Decision("SUPERSEDE_EXISTING", c.target) \in Evaluate(c, mem, tx.by)
           \/ Decision("RESOLVE_EXISTING", c.target) \in Evaluate(c, mem, tx.by)
  PROVE  /\ c.target \in Kept(mem) /\ c.target \in DOMAIN mem /\ c.target \in DOMAIN tx.work
         /\ Decision("SUPERSEDE_EXISTING", c.target) \in Evaluate(c, mem, tx.by) =>
              Holders(mem, c.claim) \ {c.target} = {}
  <1>1. mem \in Seq(Memories) /\ tx.work \in Seq(Memories) /\ Follows(mem, tx.work) /\ c \in Candidates
    BY AtCandidate
  <1>2. c.action # "NEW" /\ LifecycleDecision(c, mem, tx.by).action \in {"SUPERSEDE_EXISTING", "RESOLVE_EXISTING"}
    BY DEF Evaluate, NewDecisions, Decision
  <1>3. c.target \in Kept(mem)
    BY <1>2 DEF LifecycleDecision, Decision
  <1>4. ASSUME Decision("SUPERSEDE_EXISTING", c.target) \in Evaluate(c, mem, tx.by)
        PROVE  Holders(mem, c.claim) \ {c.target} = {}
    <2>1. LifecycleDecision(c, mem, tx.by) = Decision("SUPERSEDE_EXISTING", c.target)
      BY <1>2, <1>4 DEF Evaluate
    <2>2. c.action \in Actions
      BY <1>1 DEF Candidates
    <2> QED
      BY <1>2, <2>1, <2>2 DEF LifecycleDecision, Decision, Actions
  <1> QED
    BY <1>1, <1>3, <1>4 DEF Kept, Follows

LEMMA ResolveKeeps ==
  ASSUME MemoryInv, tx # NoTx, tx.rest # <<>>, ApplyResolve(Head(tx.rest)),
         UNCHANGED <<file, call, project, manager, manual>>, Silent
  PROVE  MemoryInv'
  <1>1. PICK c \in Candidates : c = Head(tx.rest)
    BY AtCandidate
  <1>2. /\ tx.by \in Callers /\ tx.work \in Seq(Memories) /\ mem \in Seq(Memories)
        /\ tx.seen \in SUBSET Facts /\ DOMAIN tx.work \subseteq Ids
        /\ Len(call[tx.by].batch) = 1 =>
             c = call[tx.by].batch[1] /\ tx.work = mem /\ (~batched => ClaimsOnce(mem))
    BY <1>1, AtCandidate
  <1>3. c.target \in Kept(mem) /\ c.target \in DOMAIN mem /\ c.target \in DOMAIN tx.work
    BY <1>1, TargetIsThere DEF ApplyResolve
  <1>4. PICK d : d = Decision("RESOLVE_EXISTING", c.target)
    OBVIOUS
  <1>5. d \in Decisions /\ d.action = "RESOLVE_EXISTING" /\ d.id = c.target
    BY <1>2, <1>3, <1>4 DEF Decision, Decisions, Actions
  <1>6. PICK work : work = [tx.work EXCEPT ![c.target].status = "resolved"]
    OBVIOUS
  <1>7. Takes(d, work, tx.seen)
    BY <1>1, <1>4, <1>6 DEF ApplyResolve
  <1>8. Retires(tx.work, c.target, work)
    <2>1. "resolved" \in Statuses \ {"active"}
      BY DEF Statuses
    <2> QED
      BY <1>2, <1>3, <1>6, <2>1, Retired
  <1>9. work \in Seq(Memories) /\ Len(work) = Len(tx.work) /\ Follows(tx.work, work) /\ Changes(tx.work, work)
    BY <1>8 DEF Retires, Changes
  <1>10. ASSUME Len(call[tx.by].batch) = 1
         PROVE  /\ ~batched => ClaimsOnce(work)
                /\ TrueOf(tx.by, call[tx.by].batch, <<d>>, work)
    <2>1. <<d>>[1] = d /\ tx.work = mem /\ c = call[tx.by].batch[1]
      BY <1>2, <1>10
    <2>2. ~batched => ClaimsOnce(work)
      BY <1>2, <1>9, <1>10, <2>1, ClaimsKept
    <2>3. c.target \in Kept(work) /\ c.target \in DOMAIN work /\ work[c.target].status # "active"
      BY <1>2, <1>3, <1>8, <1>9, <2>1, KeptFollows DEF Retires
    <2> QED
      BY <1>5, <2>1, <2>2, <2>3 DEF TrueOf
  <1>11. /\ d.action \notin Undecided /\ Len(work) <= Len(tx.work) + 1
         /\ DOMAIN work \ DOMAIN tx.work = {}
         /\ UNCHANGED <<file, call, project, manager, manual, past>> /\ refused' = FALSE
    BY <1>2, <1>5, <1>9, Untouched DEF Undecided
  <1> QED
    BY <1>2, <1>5, <1>7, <1>9, <1>10, <1>11, TakesKeeps

LEMMA SupersedeKeeps ==
  ASSUME MemoryInv, tx # NoTx, tx.rest # <<>>, ApplySupersede(Head(tx.rest)),
         UNCHANGED <<file, call, project, manager, manual>>, Silent
  PROVE  MemoryInv'
  <1>1. PICK c \in Candidates : c = Head(tx.rest)
    BY AtCandidate
  <1>2. /\ tx.by \in Callers /\ tx.work \in Seq(Memories) /\ mem \in Seq(Memories)
        /\ tx.seen \in SUBSET Facts /\ DOMAIN tx.work \subseteq Ids /\ Len(tx.work) + 1 \in Ids
        /\ Len(call[tx.by].batch) = 1 =>
             c = call[tx.by].batch[1] /\ tx.work = mem /\ (~batched => ClaimsOnce(mem))
    BY <1>1, AtCandidate
  <1>3. /\ c.target \in Kept(mem) /\ c.target \in DOMAIN mem /\ c.target \in DOMAIN tx.work
        /\ Holders(mem, c.claim) \ {c.target} = {}
    BY <1>1, TargetIsThere DEF ApplySupersede
  <1>4. PICK d : d = Decision("SUPERSEDE_EXISTING", NewId(tx.work))
    OBVIOUS
  <1>5. d \in Decisions /\ d.action = "SUPERSEDE_EXISTING" /\ d.id = Len(tx.work) + 1
    BY <1>2, <1>4 DEF Decision, Decisions, Actions, NewId
  <1>6. PICK base : base = [tx.work EXCEPT ![c.target].status = "superseded",
                                           ![c.target].by = NewId(tx.work)]
    OBVIOUS
  <1>7. PICK r \in Memories : /\ r = Record(c, tx.by) /\ r.claim = c.claim /\ r.place = "validated"
                              /\ r.born = IF tx.by \in Ops THEN tx.by ELSE Absent
    BY <1>2, RecordIsTyped
  <1>8. PICK work : work = Append(base, r)
    OBVIOUS
  <1>9. Takes(d, work, tx.seen)
    BY <1>1, <1>4, <1>6, <1>7, <1>8 DEF ApplySupersede
  <1>10. Retires(tx.work, c.target, base)
    <2>1. NewId(tx.work) \in Ids \union {Absent}
      BY <1>2 DEF NewId
    <2> QED
      BY <1>2, <1>3, <1>6, <2>1, Replaced
  <1>11. base \in Seq(Memories) /\ Len(base) = Len(tx.work) /\ Follows(tx.work, base)
    BY <1>10 DEF Retires, Changes
  <1>12. /\ work \in Seq(Memories) /\ Len(work) = Len(tx.work) + 1 /\ Follows(base, work)
         /\ work[Len(tx.work) + 1] = r /\ \A j \in DOMAIN base : work[j] = base[j]
    BY <1>8, <1>11, Appended
  <1>13. Follows(tx.work, work) /\ Len(work) <= Len(tx.work) + 1
         /\ \A i \in DOMAIN work \ DOMAIN tx.work : i = Len(tx.work) + 1
    BY <1>2, <1>11, <1>12, FollowsTransitive
  <1>14. \A i \in DOMAIN work \ DOMAIN tx.work :
           work[i].born = IF tx.by \in Ops THEN tx.by ELSE Absent
    BY <1>7, <1>12, <1>13
  <1>15. ASSUME Len(call[tx.by].batch) = 1
         PROVE  /\ ~batched => ClaimsOnce(work)
                /\ tx.by \in Ops => TrueOf(tx.by, call[tx.by].batch, <<d>>, work)
    <2>1. <<d>>[1] = d /\ tx.work = mem /\ c = call[tx.by].batch[1]
      BY <1>2, <1>15
    <2>2. ~batched => ClaimsOnce(work)
      <3>1. \A i \in Holders(mem, r.claim) : base[i].status # "active"
        BY <1>3, <1>7, <1>10 DEF Retires
      <3>2. ClaimsOnce(mem) => ClaimsOnce(Append(base, r))
        BY <1>2, <1>11, <2>1, <3>1, ClaimIsTaken
      <3> QED
        BY <1>2, <1>8, <1>15, <3>2
    <2>3. d.id \in Kept(work)
      BY <1>5, <1>2, <1>7, <1>12 DEF Kept
    <2>4. c.target \in DOMAIN work /\ work[c.target].status # "active"
      <3>1. c.target \in DOMAIN base /\ base[c.target].status # "active"
        BY <1>2, <1>3, <1>10, <1>11 DEF Retires
      <3>2. DOMAIN base \subseteq DOMAIN work
        BY <1>2, <1>11, <1>12
      <3> QED
        BY <1>12, <3>1, <3>2
    <2>5. tx.by \in Ops => work[d.id].born = tx.by
      BY <1>5, <1>7, <1>12
    <2> QED
      BY <1>5, <2>1, <2>2, <2>3, <2>4, <2>5 DEF TrueOf
  <1>16. /\ d.action \notin Undecided
         /\ UNCHANGED <<file, call, project, manager, manual, past>> /\ refused' = FALSE
    BY <1>5, Untouched DEF Undecided
  <1> QED
    BY <1>2, <1>5, <1>9, <1>12, <1>13, <1>14, <1>15, <1>16, TakesKeeps

LEMMA ApplyKeeps ==
  ASSUME MemoryInv, Apply
  PROVE  MemoryInv'
  BY NewKeeps, SupersedeKeeps, ResolveKeeps, PassKeeps DEF Apply

\* The file is replaced: the effect and its receipt come together.
LEMMA PersistKeeps ==
  ASSUME MemoryInv, Persist
  PROVE  MemoryInv'
  <1> DEFINE o == tx.by
             leaves == o \in Ops /\ \A i \in DOMAIN tx.log : tx.log[i].action \notin Undecided
             receipt == [batch |-> call[o].batch, log |-> tx.log]
  <1>0. /\ tx # NoTx /\ tx.rest = <<>> /\ mem' = tx.work
        /\ receipts' = IF leaves THEN [receipts EXCEPT ![o] = receipt] ELSE receipts
        /\ version' = IF leaves \/ tx.work # mem THEN version + 1 ELSE version
        /\ done' = IF leaves THEN done \union {o} ELSE done
        /\ batched' = (batched \/ Len(tx.log) > 1)
        /\ call' = [call EXCEPT ![o] = NoCall] /\ refused' = FALSE /\ tx' = NoTx
        /\ UNCHANGED <<schema, project, manager, manual, lost>>
    BY DEF Persist, Ends
  <1>1. /\ MemoryTypeOK /\ FileFits /\ ManagerFits /\ OneEffectPerOperation /\ TxFits
        /\ o \in Callers /\ MaxMemories \in Nat /\ call[o].batch \in Requests[o]
    BY <1>0, InTransaction, Names DEF MemoryInv, TxFits
  <1>2. /\ tx.work \in Seq(Memories) /\ tx.log \in Seq(Decisions) /\ mem \in Seq(Memories)
        /\ call[o].batch \in Seq(Candidates) /\ call[o].batch # <<>> /\ version \in Nat
        /\ done \subseteq Ops /\ lost \subseteq done /\ batched \in BOOLEAN
        /\ receipts \in [Ops -> [batch : Seq(Candidates), log : Seq(Decisions)]]
        /\ call \in [Callers -> [batch : Seq(Candidates), open : BOOLEAN, expected : Int]]
    BY <1>1, RequestsAssumption DEF MemoryTypeOK
  <1>3. /\ Len(tx.log) + Len(tx.rest) = Len(call[o].batch)
        /\ Len(tx.work) + Len(tx.rest) <= MaxMemories
        /\ Follows(mem, tx.work)
    BY <1>1, Zenon DEF TxFits
  <1>4. Len(tx.log) = Len(call[o].batch) /\ Len(tx.work) <= MaxMemories
    <2>1. Len(tx.rest) = 0
      BY <1>0
    <2>2. Len(tx.log) \in Nat /\ Len(tx.work) \in Nat
      BY <1>2
    <2>3. Len(tx.log) + 0 = Len(call[o].batch) /\ Len(tx.work) + 0 <= MaxMemories
      BY <1>3, <2>1, Zenon
    <2> QED
      BY <2>2, <2>3
  <1>5. receipt \in [batch : Seq(Candidates), log : Seq(Decisions)] /\ receipt # NoReceipt
        /\ receipt.batch = call[o].batch /\ receipt.log = tx.log
    BY <1>2, NoReceiptIsTyped
  <1>6. o \in Ops =>
          /\ Len(call[o].batch) = 1 /\ Len(tx.log) = 1
          /\ schema = 3 /\ receipts[o] = NoReceipt /\ Len(tx.work) <= Len(mem) + 1
          /\ tx.log[1].action \notin Undecided => TrueOf(o, call[o].batch, tx.log, tx.work)
          /\ Len(tx.work) > Len(mem) => tx.log[1].action \notin Undecided
    <2>1. ASSUME o \in Ops  PROVE Len(tx.log) = 1 /\ Len(call[o].batch) = 1 /\ tx.log # <<>>
      BY <1>1, <1>2, <1>4, <2>1, OneAtATime
    <2> QED
      BY <1>1, <2>1, Zenon DEF TxFits
  <1>7. ASSUME o \in Ops  PROVE leaves <=> tx.log[1].action \notin Undecided
    <2>1. DOMAIN tx.log = {1}
      BY <1>2, <1>6, <1>7
    <2> QED
      BY <1>7, <2>1
  <1> HIDE DEF leaves, receipt
  <1>8. ASSUME NEW p \in Ops
        PROVE  receipts'[p] = IF leaves /\ p = o THEN receipt ELSE receipts[p]
    BY <1>0, <1>2
  <1>9. leaves => o \in Ops
    BY DEF leaves
  <1>10. MemoryTypeOK'
    <2>1. mem' \in Seq(Memories) /\ Len(mem') <= MaxMemories /\ version' \in Nat
      BY <1>0, <1>2, <1>4
    <2>2. receipts' \in [Ops -> [batch : Seq(Candidates), log : Seq(Decisions)]]
      BY <1>0, <1>2, <1>5
    <2>3. call' \in [Callers -> [batch : Seq(Candidates), open : BOOLEAN, expected : Int]]
      BY <1>0, <1>2, NoCallIsTyped
    <2>4. done' \subseteq Ops /\ lost' \subseteq done' /\ batched' \in BOOLEAN /\ refused' \in BOOLEAN
      BY <1>0, <1>2, <1>9
    <2>5. tx' \in [by : Callers \union {Absent}, rest : Seq(Candidates), work : Seq(Memories),
                   seen : SUBSET Facts, log : Seq(Decisions)]
      BY <1>0, NoTxIsTyped
    <2>6. UNCHANGED <<schema, project, manager, manual>>
      BY <1>0
    <2> QED
      BY <1>1, <2>1, <2>2, <2>3, <2>4, <2>5, <2>6, Zenon DEF MemoryTypeOK
  <1>11. ManagerFits'
    <2>1. (version' = version /\ mem' = mem) \/ version' = version + 1
      BY <1>0
    <2> QED
      BY <1>0, <1>1, <1>2, <2>1 DEF ManagerFits
  <1>12. FileFits'
    <2>1. ASSUME NEW p \in Ops, receipts'[p] # NoReceipt
          PROVE  schema' = 3 /\ p \in done' /\ TrueOf(p, receipts'[p].batch, receipts'[p].log, mem')
      <3>1. CASE leaves /\ p = o
        BY <1>0, <1>5, <1>6, <1>7, <1>8, <3>1
      <3>2. CASE ~(leaves /\ p = o)
        <4>1. receipts'[p] = receipts[p] /\ receipts[p] # NoReceipt
          BY <1>8, <2>1, <3>2
        <4>2. schema = 3 /\ p \in done /\ TrueOf(p, receipts[p].batch, receipts[p].log, mem)
          BY <1>1, <4>1 DEF FileFits
        <4> QED
          BY <1>0, <1>2, <1>3, <4>1, <4>2, TrueFollows
      <3> QED
        BY <3>1, <3>2
    <2>2. ASSUME NEW p \in Ops \ lost', NEW i \in DOMAIN mem', mem'[i].born = p
          PROVE  receipts'[p] # NoReceipt
      <3>1. CASE i \in DOMAIN mem
        <4>1. mem[i].born = p
          BY <1>0, <1>3, <2>2, <3>1 DEF Follows
        <4>2. receipts[p] # NoReceipt
          BY <1>0, <1>1, <2>2, <3>1, <4>1 DEF FileFits
        <4> QED
          BY <1>5, <1>8, <4>2
      <3>2. CASE i \notin DOMAIN mem
        <4>1. i \in DOMAIN tx.work \ DOMAIN mem /\ tx.work[i].born = p
          BY <1>0, <2>2, <3>2
        <4>2. p = o /\ o \in Ops
          <5>1. tx.work[i].born = IF o \in Ops THEN o ELSE Absent
            BY <1>1, <4>1, Zenon DEF TxFits
          <5> QED
            BY <2>2, <4>1, <5>1, Names
        <4>3. Len(tx.work) > Len(mem)
          BY <1>2, <4>1
        <4> QED
          BY <1>5, <1>6, <1>7, <1>8, <4>2, <4>3
      <3> QED
        BY <3>1, <3>2
    <2> QED
      BY <2>1, <2>2 DEF FileFits
  <1>13. OneEffectPerOperation'
    <2>1. ASSUME NEW p \in Ops \ lost, NEW i \in DOMAIN tx.work, tx.work[i].born = p,
                 i \notin DOMAIN mem
          PROVE  /\ i = Len(mem) + 1
                 /\ \A j \in DOMAIN tx.work : tx.work[j].born = p => j \notin DOMAIN mem
      <3>1. p = o /\ o \in Ops
        <4>1. tx.work[i].born = IF o \in Ops THEN o ELSE Absent
          BY <1>1, <2>1, Zenon DEF TxFits
        <4> QED
          BY <2>1, <4>1, Names
      <3>2. i = Len(mem) + 1
        BY <1>2, <1>6, <2>1, <3>1
      <3>3. \A j \in DOMAIN mem : tx.work[j].born # p
        BY <1>1, <1>3, <1>6, <2>1, <3>1 DEF FileFits, Follows
      <3> QED
        BY <3>2, <3>3
    <2>2. ASSUME NEW p \in Ops \ lost, NEW i \in DOMAIN tx.work, NEW j \in DOMAIN tx.work,
                 tx.work[i].born = p, tx.work[j].born = p
          PROVE  i = j
      <3>1. CASE i \in DOMAIN mem /\ j \in DOMAIN mem
        <4>1. mem[i].born = p /\ mem[j].born = p
          BY <1>3, <2>2, <3>1 DEF Follows
        <4> QED
          BY <1>1, <2>2, <3>1, <4>1 DEF OneEffectPerOperation
      <3>2. CASE i \notin DOMAIN mem \/ j \notin DOMAIN mem
        BY <2>1, <2>2, <3>2
      <3> QED
        BY <3>1, <3>2
    <2> QED
      BY <1>0, <2>2 DEF OneEffectPerOperation
  <1>14. OneActiveClaim'
    <2>1. ASSUME ~batched'  PROVE ClaimsOnce(tx.work)
      <3>1. ~batched /\ ~(Len(tx.log) > 1)
        BY <1>0, <2>1, Zenon
      <3>2. Len(call[o].batch) = 1
        <4>1. Len(call[o].batch) \in Nat /\ Len(call[o].batch) # 0
          BY <1>2, EmptySeq
        <4>2. ~(Len(call[o].batch) > 1)
          BY <1>4, <3>1, Zenon
        <4> QED
          BY <4>1, <4>2, JustOne, Zenon
      <3> QED
        BY <1>1, <3>1, <3>2, Zenon DEF TxFits
    <2> QED
      BY <1>0, <2>1 DEF OneActiveClaim
  <1>15. \A c \in Callers : call'[c] = NoCall \/ call'[c].batch \in Requests[c]
    BY <1>0, <1>2 DEF MemoryInv
  <1>16. tx' = NoTx /\ tx'.by = Absent
    BY <1>0, NoTxIsTyped
  <1> QED
    BY <1>10, <1>11, <1>12, <1>13, <1>14, <1>15, <1>16 DEF MemoryInv

-----------------------------------------------------------------------------
(* The specification.                                                      *)

LEMMA MemoryInitially == MemoryInit => MemoryInv
  <1> SUFFICES ASSUME MemoryInit  PROVE MemoryInv
    OBVIOUS
  <1>0. /\ mem \in Seeds /\ schema = 3 /\ version = 0 /\ receipts = [o \in Ops |-> NoReceipt]
        /\ call = [c \in Callers |-> NoCall] /\ tx = NoTx
        /\ project = TRUE /\ manager = NotLoaded /\ manual = 0 /\ refused = FALSE
        /\ done = {} /\ lost = {} /\ batched = FALSE
    BY DEF MemoryInit
  <1>1. /\ mem \in Seq(Memories) /\ Len(mem) <= MaxMemories /\ ClaimsOnce(mem)
        /\ \A i \in DOMAIN mem : mem[i].born = Absent
    BY <1>0, SeedsAssumption
  <1>2. MemoryTypeOK
    <2>1. 0 \in 0..MaxManual /\ 0 \in Nat /\ 3 \in {2, 3}
      BY Names
    <2>2. NotLoaded \in [memories : Seq(Memories), revision : Int]
      BY EmptySeq DEF NotLoaded
    <2>3. receipts \in [Ops -> [batch : Seq(Candidates), log : Seq(Decisions)]]
          /\ call \in [Callers -> [batch : Seq(Candidates), open : BOOLEAN, expected : Int]]
      BY <1>0, NoReceiptIsTyped, NoCallIsTyped
    <2> QED
      BY <1>0, <1>1, <2>1, <2>2, <2>3, NoTxIsTyped DEF MemoryTypeOK
  <1>3. \A o \in Ops : receipts[o] = NoReceipt /\ \A i \in DOMAIN mem : mem[i].born # o
    BY <1>0, <1>1, Names
  <1>4. FileFits /\ OneEffectPerOperation
    BY <1>3 DEF FileFits, OneEffectPerOperation
  <1>5. OneActiveClaim /\ ManagerFits
    BY <1>0, <1>1 DEF OneActiveClaim, ManagerFits
  <1>6. tx.by = Absent /\ \A c \in Callers : call[c] = NoCall
    BY <1>0, NoTxIsTyped
  <1> QED
    BY <1>0, <1>2, <1>4, <1>5, <1>6 DEF MemoryInv

LEMMA MemorySteps == MemoryInv /\ [MemoryNext]_memoryVars => MemoryInv'
  <1> SUFFICES ASSUME MemoryInv, [MemoryNext]_memoryVars  PROVE MemoryInv'
    OBVIOUS
  <1>1. ASSUME NEW c \in Callers, Engine(c)  PROVE MemoryInv'
    BY <1>1, CallsKeep, ReloadKeeps DEF Engine
  <1>2. CASE Apply
    BY <1>2, ApplyKeeps
  <1>3. CASE Persist
    BY <1>3, PersistKeeps
  <1>4. CASE Others
    BY <1>4, ApiKeeps, ManagerKeeps, ValidatorKeeps, MigrateKeeps, BystandersKeep DEF Others
  <1>5. CASE UNCHANGED memoryVars
    BY <1>5, BystandersKeep
  <1> QED
    BY <1>1, <1>2, <1>3, <1>4, <1>5 DEF MemoryNext

\* In every state of the canonical memory: receipts are true of the file, a
\* transaction's log tells what it applied, a manager that may save holds what
\* the file holds, and claim keys are held once unless a batch was committed.
THEOREM MemoryInvariant == MemorySpec => []MemoryInv
  BY MemoryInitially, MemorySteps, PTL DEF MemorySpec

\* Memories on the same topic do not stay active together, whatever people
\* write around the engine, until a call commits several candidates at once.
THEOREM MemoryClaims == MemorySpec => []OneActiveClaim
  <1>1. MemoryInv => OneActiveClaim
    BY DEF MemoryInv
  <1> QED
    BY <1>1, MemoryInvariant, PTL

\* An operation makes one memory, as long as its receipt is not taken away, and
\* a receipt is true of the file.
THEOREM MemoryReceipts == MemorySpec => []ReceiptsAreSound
  <1>1. MemoryInv => ReceiptsAreSound
    BY DEF MemoryInv, ReceiptsAreSound, FileFits, TrueOf, ReceiptIsTrue
  <1> QED
    BY <1>1, MemoryInvariant, PTL

\* No write undoes another's: whoever writes, no memory disappears, changes its
\* origin or comes back to life.
THEOREM MemoryNoLostWrite == MemorySpec => NoLostWrite
  <1>1. ASSUME MemoryInv, MemoryNext  PROVE Grows(mem, mem')
    <2>0. mem \in Seq(Memories)
      BY <1>1 DEF MemoryInv, MemoryTypeOK
    <2>1. CASE mem' = mem
      BY <2>0, <2>1 DEF Grows
    <2>2. CASE Persist
      <3>1. Follows(mem, tx.work) /\ tx.work \in Seq(Memories) /\ mem' = tx.work
        BY <1>1, <2>2, InTransaction DEF Persist, TxFits, MemoryInv, MemoryTypeOK
      <3> QED
        BY <2>0, <3>1 DEF Follows, Grows
    <2>3. CASE \E t \in Facts, ok \in BOOLEAN : ApiAdd(t, ok) \/ ValidateNew(t, ok)
      BY <1>1, <2>3, ApiKeeps, ValidatorKeeps
    <2>4. CASE \E i \in DOMAIN mem :
                 \/ \E t \in Facts \ {mem[i].text} : ApiEdit(i, t)
                 \/ \E status \in {"resolved", "deleted"} : ApiRetire(i, status)
                 \/ \E k \in DOMAIN mem : ApiSupersede(i, k) \/ ManagerSupersedes(i, k)
                 \/ \E ok \in BOOLEAN : ValidateKnown(i, ok)
                 \/ ManagerResolves(i)
      BY <1>1, <2>4, ApiKeeps, ManagerKeeps, ValidatorKeeps
    <2>5. CASE ValidateNothing
      BY <1>1, <2>5, ValidatorKeeps
    <2>6. CASE ManagerLoads \/ ManagerConflicts \/ Migrate \/ SetProject \/ Apply
      <3>1. mem' = mem
        BY <2>6 DEF ManagerLoads, ManagerConflicts, Migrate, SetProject, Apply, file
      <3> QED
        BY <2>1, <3>1
    <2>7. ASSUME NEW c \in Callers, Engine(c)  PROVE mem' = mem
      BY <2>7 DEF Engine, Process, ReplaysReceipt, Refuse, Unavailable, Dies, Reload, file
    <2> QED
      BY <1>1, <2>1, <2>2, <2>3, <2>4, <2>5, <2>6, <2>7 DEF MemoryNext, Others
  <1>2. MemoryInv /\ [MemoryNext]_memoryVars =>
          [/\ Len(mem') >= Len(mem)
           /\ \A i \in DOMAIN mem :
                /\ mem'[i].born = mem[i].born
                /\ mem[i].status # "active" => mem'[i].status # "active"
                /\ mem[i].place = "validated" => mem'[i].place # "gone"]_memoryVars
    BY <1>1 DEF Grows
  <1> QED
    BY <1>2, MemoryInvariant, PTL DEF MemorySpec, NoLostWrite

\* A committed operation that is called again with the same request is never
\* turned down: not for a newer revision, not for a project closed since.
THEOREM MemoryConfirms == MemorySpec => CommittedIsConfirmed
  <1>1. ASSUME MemoryInv, MemoryNext, NEW o \in Ops,
               call[o] # NoCall, call'[o] = NoCall, schema = 3,
               receipts[o] # NoReceipt, receipts[o].batch = call[o].batch
        PROVE  ~refused'
    <2>1. ASSUME NEW c \in Callers, Refuse(c)  PROVE FALSE
      <3>1. call' = [call EXCEPT ![c] = NoCall] /\ ~Replayed(c)
        BY <2>1 DEF Refuse, Ends
      <3>2. c = o
        BY <1>1, <3>1 DEF MemoryInv, MemoryTypeOK
      <3> QED
        BY <1>1, <3>1, <3>2 DEF Replayed, Known
    <2>2. ASSUME NEW c \in Callers, Engine(c)  PROVE ~refused'
      BY <2>1, <2>2 DEF Engine, Process, ReplaysReceipt, Unavailable, Dies, Reload, Silent
    <2>3. CASE Apply \/ Persist
      BY <2>3 DEF Apply, Persist, Silent
    <2>4. CASE Others
      <3>1. ASSUME NEW m, Writes(m) \/ Validate(m)  PROVE ~refused'
        BY <3>1 DEF Writes, Validate, Silent
      <3>2. CASE ManagerLoads \/ ManagerConflicts \/ Migrate \/ SetProject
        BY <3>2 DEF ManagerLoads, ManagerConflicts, Migrate, SetProject, Silent
      <3> QED
        BY <2>4, <3>1, <3>2
           DEF Others, ApiAdd, ApiEdit, ApiRetire, ApiSupersede, ManagerSaves, ManagerResolves,
               ManagerSupersedes, ValidateNothing, ValidateKnown, ValidateNew
    <2> QED
      BY <1>1, <2>2, <2>3, <2>4 DEF MemoryNext
  <1>2. MemoryInv /\ [MemoryNext]_memoryVars =>
          [\A o \in Ops :
             /\ call[o] # NoCall /\ call'[o] = NoCall /\ schema = 3
             /\ receipts[o] # NoReceipt /\ receipts[o].batch = call[o].batch
             => ~refused']_memoryVars
    BY <1>1
  <1> QED
    BY <1>2, MemoryInvariant, PTL DEF MemorySpec, CommittedIsConfirmed

=============================================================================

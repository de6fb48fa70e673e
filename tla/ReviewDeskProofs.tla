--------------------------- MODULE ReviewDeskProofs ---------------------------
(***************************************************************************)
(* What ReviewDesk keeps true for any number of proposals and groups, any  *)
(* order of files and ranks, any edits, crashes and switches.              *)
(***************************************************************************)
EXTENDS ReviewDesk, TLAPS

USE DEF files, store, gates, bounds, history

LEMMA Parameters ==
  /\ Items \subseteq Nat \ {0} /\ None \notin Items
  /\ None \notin Edits /\ Recent \subseteq Items
  /\ MaxWrites \in Nat /\ MaxCrashes \in Nat /\ MaxSwitches \in Nat
  BY ItemsAssumption, RecentAssumption, EditsAssumption, BoundsAssumption DEF None

LEMMA FreeDesk ==
  /\ Free.step = "free" /\ Free.primary = None /\ Free.status = "absent" /\ Free.todo = {}
  BY DEF Free

\* The group of a pending proposal contains what leads it, and only pending
\* proposals with the same content.
LEMMA GroupFacts ==
  ASSUME NEW i \in Items, NEW p \in Items, Leads(p, i)
  PROVE  /\ p \in Group(i) /\ p \in Pending /\ Content[p] = Content[i]
         /\ Group(p) = Group(i)
         /\ Group(i) \subseteq Pending /\ \A k \in Group(i) : Content[k] = Content[i]
  BY DEF Leads, Group, Pending

-----------------------------------------------------------------------------
(* Type correctness.                                                       *)

LEMMA TypeInit == Init => TypeOK
  BY Parameters DEF Init, TypeOK, Free, Terminal

LEMMA TypeStep == TypeOK /\ [Next]_vars => TypeOK'
  <1> SUFFICES ASSUME TypeOK, [Next]_vars  PROVE TypeOK'
    OBVIOUS
  <1> USE Parameters DEF Terminal
  <1>1. CASE Write
    BY <1>1 DEF Write, TypeOK
  <1>2. CASE Switch
    <2>1. mode' \in BOOLEAN /\ scope' \in BOOLEAN
      BY <1>2, Zenon DEF Switch, TypeOK
    <2> QED
      BY <1>2, <2>1 DEF Switch, TypeOK
  <1>3. CASE Crash
    BY <1>3 DEF Crash, TypeOK, Free
  <1>4. ASSUME NEW i \in Items, Add(i) \/ Expire(i) \/ Reoffer(i)  PROVE TypeOK'
    <2>1. item' \in [Items -> Terminal \union {"absent", "pending"}]
      BY <1>4 DEF Add, Expire, Reoffer, Terminal, TypeOK
    <2>2. /\ intent' \in [Items -> Wishes \union {NoIntent}]
          /\ lead' \in [Items -> Items \union {None}] /\ reoffered' \subseteq Items
      BY <1>4 DEF Add, Expire, Reoffer, TypeOK
    <2>3. UNCHANGED <<oplog, revision, mode, scope, desk, writes, crashes, switches,
                      decision, covered, strays>>
      BY <1>4 DEF Add, Expire, Reoffer
    <2> QED
      BY <2>1, <2>2, <2>3 DEF TypeOK
  <1>5. ASSUME NEW i \in Items, Reject(i) \/ Sweep(i)  PROVE TypeOK'
    <2>1. PICK p \in Items :
            /\ Decide("decided", p, "REJECTED", {}) \/ Decide("sweeping", p, "REJECTED", Group(p))
            /\ UNCHANGED <<files, store, gates, bounds, history>>
      BY <1>5 DEF Reject, Sweep
    <2> QED
      BY <2>1 DEF Decide, Group, Pending, TypeOK
  <1>6. ASSUME NEW i \in Items, NEW w \in Wishes, Accept(i, w)  PROVE TypeOK'
    <2>1. PICK p \in Items : /\ intent' = [intent EXCEPT ![p] = w]
                             /\ Decide("applying", p, "ACCEPTED", {})
      BY <1>6 DEF Accept
    <2> QED
      BY <1>6, <2>1 DEF Accept, Decide, TypeOK
  <1>7. ASSUME NEW i \in Items, OutOfScope(i) \/ Stale(i) \/ NotYet(i)  PROVE TypeOK'
    <2>1. Withdraw(i)
      BY <1>7 DEF OutOfScope, Stale, NotYet
    <2> QED
      BY <2>1 DEF Withdraw, TypeOK, Free
  <1>8. ASSUME NEW i \in Items, Failed(i)  PROVE TypeOK'
    BY <1>8 DEF Failed, TypeOK, Free
  <1>9. ASSUME NEW i \in Items, Effect(i)  PROVE TypeOK'
    <2>1. intent[i].edit \in Edits \union {None}
      BY DEF TypeOK, Wishes, NoIntent
    <2> QED
      BY <1>9, <2>1 DEF Effect, Group, Pending, TypeOK
  <1>10. ASSUME NEW i \in Items, Replay(i)  PROVE TypeOK'
    BY <1>10 DEF Replay, TypeOK
  <1>11. ASSUME NEW i \in Items, CloseFile(i)  PROVE TypeOK'
    <2>1. intent[i].edit \in Edits \union {None}
      BY DEF TypeOK, Wishes, NoIntent
    <2>2. desk.status \in Terminal \union {"absent"} /\ desk.primary \in Items \union {None}
      BY DEF TypeOK
    <2>3. desk' \in [step : {"free", "applying", "decided", "closing", "sweeping"},
                     primary : Items \union {None}, status : Terminal \union {"absent"},
                     todo : SUBSET Items]
      BY <1>11 DEF CloseFile, LeftAfter, TypeOK, Free
    <2> QED
      BY <1>11, <2>1, <2>2, <2>3 DEF CloseFile, TypeOK
  <1>12. CASE UNCHANGED vars
    BY <1>12 DEF vars, TypeOK
  <1>14. ASSUME NEW p \in Items, FindGroup(p)  PROVE TypeOK'
    <2>1. PICK q \in Items : /\ Decide("closing", q, desk.status, Group(p))
                             /\ strays' \in {strays, strays \union {q}}
      BY <1>14 DEF FindGroup
    <2> QED
      BY <1>14, <2>1 DEF FindGroup, Decide, Group, Pending, TypeOK
  <1>13. \A e \in Edits, r \in 0 .. revision : [edit |-> e, expected |-> r] \in Wishes
    BY DEF Wishes, TypeOK
  <1> QED
    BY <1>1, <1>2, <1>3, <1>4, <1>5, <1>6, <1>7, <1>8, <1>9, <1>10, <1>11, <1>12, <1>13,
       <1>14
       DEF Next

-----------------------------------------------------------------------------
(* The lock: DeskInv, and AcceptedAsApplied with it.                       *)

LEMMA FreeKeepsDesk == desk' = Free => DeskInv'
  BY FreeDesk DEF DeskInv

\* Files that are accepted stay as they are, receipts grow, and so do the strays
\* but for what was accepted already.
LEMMA AcceptedKept ==
  ASSUME TypeOK, AcceptedAsApplied,
         \A i \in Items : item'[i] = "ACCEPTED" =>
           item[i] = "ACCEPTED" /\ lead'[i] = lead[i] /\ decision'[i] = decision[i],
         \A i \in Items : oplog[i] # None => oplog'[i] = oplog[i],
         strays \subseteq strays'
  PROVE  AcceptedAsApplied'
  <1> SUFFICES ASSUME NEW i \in Items, item'[i] = "ACCEPTED",
                      NEW p, p = IF lead'[i] = None THEN i ELSE lead'[i]
               PROVE  /\ Content[p] = Content[i]
                      /\ \E k \in Items : Content[k] = Content[p] /\ oplog'[k] # None
                      /\ p \notin strays' =>
                           oplog'[p] # None /\ (lead'[i] = None => oplog'[i] = decision'[i])
    BY DEF AcceptedAsApplied, GroupApplied
  <1>1. item[i] = "ACCEPTED" /\ lead'[i] = lead[i] /\ decision'[i] = decision[i]
    OBVIOUS
  <1>2. p \in Items /\ p = IF lead[i] = None THEN i ELSE lead[i]
    BY <1>1 DEF TypeOK
  <1>3. /\ Content[p] = Content[i]
        /\ \E k \in Items : Content[k] = Content[p] /\ oplog[k] # None
        /\ p \notin strays =>
             oplog[p] # None /\ (lead[i] = None => oplog[i] = decision[i])
    BY <1>1, <1>2 DEF AcceptedAsApplied, GroupApplied
  <1>4. \E k \in Items : Content[k] = Content[p] /\ oplog'[k] # None
    BY <1>3
  <1>5. p \notin strays' => oplog'[p] # None /\ (lead[i] = None => oplog'[i] = decision[i])
    BY <1>2, <1>3
  <1> QED
    BY <1>1, <1>3, <1>4, <1>5

LEMMA StepInv == TypeOK /\ DeskInv /\ AcceptedAsApplied /\ [Next]_vars => DeskInv' /\ AcceptedAsApplied'
  <1> SUFFICES ASSUME TypeOK, DeskInv, AcceptedAsApplied, [Next]_vars
               PROVE  DeskInv' /\ AcceptedAsApplied'
    OBVIOUS
  <1> USE Parameters, FreeDesk
  <1>1. CASE UNCHANGED <<item, intent, lead, oplog, desk, decision, strays>>
    <2>1. Pending' = Pending
      BY <1>1 DEF Pending
    <2>2. DeskInv'
      BY <1>1, <2>1 DEF DeskInv, GroupApplied
    <2> QED
      BY <1>1, <2>2, AcceptedKept
  <1>2. CASE Write \/ Switch \/ UNCHANGED vars
    BY <1>1, <1>2 DEF Write, Switch, vars
  <1>3. CASE Crash
    BY <1>3, FreeKeepsDesk, AcceptedKept DEF Crash
  <1>4. ASSUME NEW i \in Items, Add(i) \/ Expire(i)  PROVE DeskInv' /\ AcceptedAsApplied'
    <2>1. desk' = Free /\ UNCHANGED <<lead, oplog, decision, strays>>
      BY <1>4 DEF Add, Expire
    <2>2. \A k \in Items : item'[k] = "ACCEPTED" => item[k] = "ACCEPTED"
      BY <1>4 DEF Add, Expire, TypeOK
    <2> QED
      BY <2>1, <2>2, FreeKeepsDesk, AcceptedKept
  <1>5. ASSUME NEW i \in Items, Reoffer(i)  PROVE DeskInv' /\ AcceptedAsApplied'
    <2>1. /\ UNCHANGED <<intent, oplog, desk, decision, strays>> /\ item[i] = "EXPIRED"
          /\ item' = [item EXCEPT ![i] = "pending"] /\ lead' = [lead EXCEPT ![i] = None]
      BY <1>5 DEF Reoffer
    <2>2. Pending \subseteq Pending'
      BY <2>1 DEF Pending, TypeOK
    <2>3. DeskInv'
      BY <2>1, <2>2 DEF DeskInv, GroupApplied
    <2>4. \A k \in Items : item'[k] = "ACCEPTED" => item[k] = "ACCEPTED" /\ lead'[k] = lead[k]
      BY <2>1 DEF TypeOK
    <2> QED
      BY <2>1, <2>3, <2>4, AcceptedKept
  <1>6. ASSUME NEW i \in Items, Reject(i) \/ Sweep(i)  PROVE DeskInv' /\ AcceptedAsApplied'
    <2>1. PICK p \in Items :
            /\ Leads(p, i) /\ UNCHANGED <<item, lead, oplog, decision, strays>>
            /\ \/ Decide("decided", p, "REJECTED", {})
               \/ Decide("sweeping", p, "REJECTED", Group(p))
      BY <1>6 DEF Reject, Sweep
    <2>2. /\ p \in Pending /\ Group(p) \subseteq Pending /\ p \in Group(p)
          /\ \A k \in Group(p) : Content[k] = Content[p]
      BY <2>1, GroupFacts
    <2>3. Pending' = Pending
      BY <2>1 DEF Pending
    <2>4. DeskInv'
      BY <2>1, <2>2, <2>3 DEF Decide, DeskInv
    <2> QED
      BY <2>1, <2>4, AcceptedKept
  <1>7. ASSUME NEW i \in Items, NEW w \in Wishes, Accept(i, w)
        PROVE  DeskInv' /\ AcceptedAsApplied'
    <2>1. PICK p \in Items : /\ Leads(p, i) /\ UNCHANGED <<item, lead, oplog, decision, strays>>
                             /\ intent' = [intent EXCEPT ![p] = w]
                             /\ Decide("applying", p, "ACCEPTED", {})
      BY <1>7 DEF Accept
    <2>2. w # NoIntent
      BY DEF Wishes, NoIntent
    <2>3. intent'[p] # NoIntent /\ p \in Pending'
      BY <2>1, <2>2, GroupFacts DEF TypeOK, Pending
    <2>4. DeskInv'
      BY <2>1, <2>3 DEF Decide, DeskInv
    <2> QED
      BY <2>1, <2>4, AcceptedKept
  <1>8. ASSUME NEW i \in Items, OutOfScope(i) \/ Stale(i) \/ NotYet(i) \/ Failed(i)
        PROVE  DeskInv' /\ AcceptedAsApplied'
    <2>1. desk' = Free /\ UNCHANGED <<item, lead, oplog, decision, strays>>
      BY <1>8 DEF OutOfScope, Stale, NotYet, Withdraw, Failed
    <2> QED
      BY <2>1, FreeKeepsDesk, AcceptedKept
  <1>9. ASSUME NEW i \in Items, Effect(i) \/ Replay(i)
        PROVE  DeskInv' /\ AcceptedAsApplied'
    <2>1. /\ desk.step = "applying" /\ desk.primary = i /\ UNCHANGED <<files, decision, strays>>
          /\ desk' = [desk EXCEPT !.step = "decided"]
          /\ \A k \in Items \ {i} : oplog'[k] = oplog[k]
          /\ oplog'[i] = intent[i].edit
          /\ oplog[i] # None => oplog'[i] = oplog[i]
      BY <1>9 DEF Effect, Replay, Applying, SameRequest, TypeOK
    <2>2. intent[i] \in Wishes /\ i \in Pending /\ desk.status = "ACCEPTED"
      BY <2>1 DEF DeskInv, TypeOK
    <2>3. intent[i].edit # None
      BY <2>2 DEF Wishes
    <2>4. /\ desk'.step = "decided" /\ desk'.primary = i /\ desk'.status = "ACCEPTED"
          /\ Pending' = Pending
      BY <2>1, <2>2 DEF TypeOK, Pending
    <2>5. DeskInv'
      BY <2>1, <2>2, <2>3, <2>4 DEF DeskInv
    <2> QED
      BY <2>1, <2>5, AcceptedKept
  <1>10. ASSUME NEW p \in Items, FindGroup(p)  PROVE DeskInv' /\ AcceptedAsApplied'
    <2>1. PICK q \in Items :
            /\ Leads(q, p) /\ Decide("closing", q, desk.status, Group(p))
            /\ strays' = IF q # p /\ desk.status = "ACCEPTED" THEN strays \union {q} ELSE strays
      BY <1>10 DEF FindGroup
    <2>2. /\ desk.step = "decided" /\ desk.primary = p
          /\ UNCHANGED <<item, intent, lead, oplog, decision>>
      BY <1>10 DEF FindGroup
    <2>3. /\ q \in Group(p) /\ Content[q] = Content[p] /\ Group(p) \subseteq Pending
          /\ \A k \in Group(p) : Content[k] = Content[p]
      BY <2>1, GroupFacts
    <2>4. /\ desk'.step = "closing" /\ desk'.primary = q /\ desk'.status = desk.status
          /\ desk'.todo = Group(p) /\ Pending' = Pending
      BY <2>1, <2>2 DEF Decide, Pending
    <2>5. desk.status \in {"ACCEPTED", "REJECTED"}
      BY <2>2 DEF DeskInv
    <2>6. CASE desk.status = "ACCEPTED"
      <3>1. oplog[p] = intent[p].edit /\ oplog[p] # None
        BY <2>2, <2>6 DEF DeskInv
      <3>2. GroupApplied(q)'
        BY <2>2, <2>3, <3>1 DEF GroupApplied
      <3>3. q \notin strays' => q = p
        BY <2>1, <2>6
      <3> QED
        BY <2>1, <2>2, <2>3, <2>4, <2>6, <3>1, <3>2, <3>3, AcceptedKept DEF DeskInv
    <2>7. CASE desk.status = "REJECTED"
      <3>1. DeskInv'
        BY <2>3, <2>4, <2>7 DEF DeskInv
      <3> QED
        BY <2>1, <2>2, <3>1, AcceptedKept
    <2> QED
      BY <2>5, <2>6, <2>7
  <1>11. ASSUME NEW i \in Items, CloseFile(i)  PROVE DeskInv' /\ AcceptedAsApplied'
    <2> DEFINE p == desk.primary
    <2>1. /\ desk.step \in {"closing", "sweeping"} /\ i \in desk.todo
          /\ item' = [item EXCEPT ![i] = desk.status]
          /\ lead' = [lead EXCEPT ![i] = IF i = p THEN None ELSE p]
          /\ intent' = [intent EXCEPT ![i] = NoIntent]
          /\ UNCHANGED <<oplog, strays>>
          /\ \/ i # p /\ decision' = decision
             \/ desk.status # "ACCEPTED" /\ decision' = decision
             \/ /\ i = p /\ desk.status = "ACCEPTED"
                /\ decision' = [decision EXCEPT ![i] = intent[i].edit]
      BY <1>11 DEF CloseFile
    <2>2. p \in Items /\ desk.todo \subseteq Pending /\ Content[i] = Content[p]
      BY <2>1 DEF DeskInv
    <2>3. desk.status = "ACCEPTED" =>
            /\ desk.step = "closing" /\ GroupApplied(p)
            /\ p \notin strays => oplog[p] # None /\ (i = p => oplog[i] = intent[i].edit)
      BY <2>1 DEF DeskInv
    <2>4. AcceptedAsApplied'
      <3> SUFFICES ASSUME NEW k \in Items, item'[k] = "ACCEPTED"
                   PROVE  LET q == IF lead'[k] = None THEN k ELSE lead'[k] IN
                          /\ Content[q] = Content[k]
                          /\ GroupApplied(q)
                          /\ q \notin strays =>
                               oplog[q] # None /\ (lead'[k] = None => oplog[k] = decision'[k])
        BY <2>1 DEF AcceptedAsApplied, GroupApplied
      <3>1. CASE k # i
        <4>1. item[k] = "ACCEPTED" /\ lead'[k] = lead[k] /\ decision'[k] = decision[k]
          BY <2>1, <3>1 DEF TypeOK
        <4> QED
          BY <4>1 DEF AcceptedAsApplied
      <3>2. CASE k = i
        <4>1. desk.status = "ACCEPTED"
          BY <2>1, <3>2 DEF TypeOK
        <4>2. CASE i = p
          <5>1. lead'[i] = None /\ decision'[i] = intent[i].edit
            BY <2>1, <4>1, <4>2 DEF TypeOK
          <5> QED
            BY <2>3, <3>2, <4>1, <4>2, <5>1
        <4>3. CASE i # p
          <5>1. lead'[i] = p /\ p # None
            BY <2>1, <2>2, <4>3 DEF TypeOK
          <5> QED
            BY <2>2, <2>3, <3>2, <4>1, <5>1
        <4> QED
          BY <4>2, <4>3
      <3> QED
        BY <3>1, <3>2
    <2>5. DeskInv'
      <3>1. CASE LeftAfter(i) = {}
        BY <1>11, <3>1, FreeKeepsDesk DEF CloseFile
      <3>2. CASE LeftAfter(i) # {}
        <4>1. desk' = [desk EXCEPT !.todo = desk.todo \ {i}] /\ desk.todo \ {i} # {}
          BY <1>11, <3>2 DEF CloseFile, LeftAfter
        <4>2. /\ desk'.todo = desk.todo \ {i} /\ desk'.primary = p
              /\ desk'.step = desk.step /\ desk'.status = desk.status
          BY <4>1 DEF TypeOK
        <4>3. \A k \in desk.todo \ {i} : k \in Pending'
          BY <2>1, <2>2 DEF Pending, TypeOK
        <4>4. p # i => intent'[p] = intent[p]
          BY <2>1, <2>2 DEF TypeOK
        <4>5. UNCHANGED oplog
          BY <2>1
        <4> QED
          BY <2>1, <4>1, <4>2, <4>3, <4>4, <4>5 DEF DeskInv, GroupApplied
      <3> QED
        BY <3>1, <3>2
    <2> QED
      BY <2>4, <2>5
  <1>13. \A e \in Edits, r \in 0 .. revision : [edit |-> e, expected |-> r] \in Wishes
    BY DEF Wishes, TypeOK
  <1> QED
    BY <1>2, <1>3, <1>4, <1>5, <1>6, <1>7, <1>8, <1>9, <1>10, <1>11, <1>13 DEF Next

LEMMA InitInv == Init => DeskInv /\ AcceptedAsApplied
  BY FreeDesk DEF Init, DeskInv, AcceptedAsApplied

\* While a call holds the index lock, what it decides and has still to close is
\* pending, and what it closes as accepted has its effect in the canonical store.
THEOREM DeskInvariant == Spec => [](TypeOK /\ DeskInv /\ AcceptedAsApplied)
  <1>1. Init => TypeOK /\ DeskInv /\ AcceptedAsApplied
    BY TypeInit, InitInv
  <1>2. TypeOK /\ DeskInv /\ AcceptedAsApplied /\ [Next]_vars
          => (TypeOK /\ DeskInv /\ AcceptedAsApplied)'
    BY TypeStep, StepInv
  <1> QED
    BY <1>1, <1>2, PTL DEF Spec

\* What is marked accepted is what was applied, whatever crashed or was switched.
THEOREM DeskAcceptsWhatItApplied == Spec => []AcceptedAsApplied
  BY DeskInvariant, PTL

\* What a person decided is never decided again, whatever expires, is brought back
\* by a backfill in the middle of a decision, or crashes; and what has expired is
\* decided only after it was offered again.
THEOREM DeskDecidesOnce == Spec => DecisionIsFinal
  <1>1. TypeOK /\ DeskInv /\ [Next]_vars =>
          [\A i \in Items :
             /\ item[i] \in {"ACCEPTED", "REJECTED"} => item'[i] = item[i]
             /\ item[i] = "EXPIRED" => item'[i] \in {"EXPIRED", "pending"}]_vars
    <2> SUFFICES ASSUME TypeOK, DeskInv, Next, NEW i \in Items
                 PROVE  /\ item[i] \in {"ACCEPTED", "REJECTED"} => item'[i] = item[i]
                        /\ item[i] = "EXPIRED" => item'[i] \in {"EXPIRED", "pending"}
      OBVIOUS
    <2> USE FreeDesk
    <2>1. CASE item'[i] = item[i]
      BY <2>1
    <2>2. ASSUME NEW k \in Items, Add(k) \/ Expire(k)  PROVE item'[i] = item[i] \/ item[i] \in {"absent", "pending"}
      BY <2>2 DEF Add, Expire, TypeOK
    <2>3. ASSUME NEW k \in Items, Reoffer(k)
          PROVE  item'[i] = item[i] \/ (item[i] = "EXPIRED" /\ item'[i] = "pending")
      BY <2>3 DEF Reoffer, TypeOK
    <2>4. ASSUME NEW k \in Items, CloseFile(k)  PROVE item'[i] = item[i] \/ item[i] = "pending"
      <3>1. /\ desk.step \in {"closing", "sweeping"} /\ k \in desk.todo
            /\ item' = [item EXCEPT ![k] = desk.status]
        BY <2>4 DEF CloseFile
      <3>2. item[k] = "pending"
        BY <3>1 DEF DeskInv, Pending
      <3> QED
        BY <3>1, <3>2 DEF TypeOK
    <2> QED
      BY <2>1, <2>2, <2>3, <2>4
         DEF Next, Write, Switch, Crash, Reject, Sweep, Accept, OutOfScope, Stale,
             NotYet, Failed, Withdraw, Effect, Replay, FindGroup
  <1> QED
    BY <1>1, DeskInvariant, PTL DEF Spec, DecisionIsFinal

\* Every variable of ReviewDesk keeps its type for every value of the constants.
THEOREM DeskTypes == Spec => []TypeOK
  BY TypeInit, TypeStep, PTL DEF Spec

-----------------------------------------------------------------------------
(* Without changes of mode and scope: the intent outlives the effect.      *)

SteadyInv ==
  /\ switches = 0
  /\ \A i \in Items : oplog[i] # None => allowed
  /\ \A i \in Items : item[i] = "absent" => oplog[i] = None
  /\ IntentOutlivesEffect

LEMMA SteadyStep ==
  ASSUME switches' = 0, TypeOK, DeskInv, SteadyInv, [Next]_vars
  PROVE  SteadyInv'
  <1> USE Parameters, FreeDesk DEF allowed
  <1> DEFINE Kept(k) == item[k] = "pending" /\ oplog[k] # None => intent[k].edit = oplog[k]
  <1>0. \A k \in Items \ reoffered : Kept(k)
    BY DEF SteadyInv, IntentOutlivesEffect
  <1>1. ~Switch
    BY DEF Switch, SteadyInv, TypeOK
  <1>2. UNCHANGED <<mode, scope, switches>>
    BY <1>1 DEF Next, Write, Crash, Add, Expire, Reoffer, Reject, Sweep, Accept, OutOfScope,
                Stale, NotYet, Failed, Withdraw, Effect, Replay, FindGroup, CloseFile, vars
  <1>3. CASE UNCHANGED <<item, intent, oplog, reoffered>>
    BY <1>2, <1>3 DEF SteadyInv, IntentOutlivesEffect
  <1>4. ASSUME NEW i \in Items, Add(i) \/ Expire(i) \/ Reoffer(i)  PROVE SteadyInv'
    <2>1. /\ UNCHANGED oplog
          /\ \A k \in Items \ {i} : item'[k] = item[k] /\ intent'[k] = intent[k]
          /\ \A k \in Items \ {i} : k \in reoffered' <=> k \in reoffered
      BY <1>4 DEF Add, Expire, Reoffer, TypeOK
    <2>2. /\ item'[i] # "absent"
          /\ item'[i] = "pending" => oplog[i] = None \/ i \in reoffered'
      BY <1>4 DEF Add, Expire, Reoffer, TypeOK, SteadyInv
    <2>3. \A k \in Items \ reoffered' : Kept(k)'
      BY <1>0, <2>1, <2>2
    <2> QED
      BY <1>2, <2>1, <2>2, <2>3 DEF SteadyInv, IntentOutlivesEffect
  <1>5. ASSUME NEW i \in Items, NEW w \in Wishes, Accept(i, w)  PROVE SteadyInv'
    <2>1. PICK p \in Items : /\ Leads(p, i) /\ intent[p] \in {NoIntent, w}
                             /\ intent' = [intent EXCEPT ![p] = w]
                             /\ UNCHANGED <<item, oplog, reoffered>>
      BY <1>5 DEF Accept
    <2>2. oplog[p] \in Edits \union {None} /\ NoIntent.edit = None /\ item[p] = "pending"
      BY <2>1 DEF TypeOK, NoIntent, Leads, Group, Pending
    <2>3. p \notin reoffered /\ oplog[p] # None => intent[p] = w
      BY <1>0, <2>1, <2>2
    <2>4. \A k \in Items : intent'[k] = IF k = p THEN w ELSE intent[k]
      BY <2>1 DEF TypeOK
    <2>5. \A k \in Items \ reoffered' : Kept(k)'
      BY <1>0, <2>1, <2>2, <2>3, <2>4
    <2> QED
      BY <1>2, <2>1, <2>5 DEF SteadyInv, IntentOutlivesEffect
  <1>6. ASSUME NEW p \in Items, OutOfScope(p) \/ Stale(p) \/ NotYet(p)  PROVE SteadyInv'
    <2>1. oplog[p] = None /\ Withdraw(p)
      BY <1>6 DEF OutOfScope, Stale, NotYet, SteadyInv
    <2>2. \A k \in Items \ {p} : intent'[k] = intent[k]
      BY <2>1 DEF Withdraw, TypeOK
    <2> QED
      BY <1>2, <2>1, <2>2 DEF Withdraw, SteadyInv, IntentOutlivesEffect
  <1>7. ASSUME NEW p \in Items, Effect(p)  PROVE SteadyInv'
    <2>1. /\ desk.step = "applying" /\ desk.primary = p /\ allowed
          /\ UNCHANGED <<item, intent, reoffered>>
          /\ oplog' = [oplog EXCEPT ![p] = intent[p].edit]
      BY <1>7 DEF Effect, Applying
    <2>2. item[p] = "pending"
      BY <2>1 DEF DeskInv, Pending
    <2>3. \A k \in Items : oplog'[k] = IF k = p THEN intent[p].edit ELSE oplog[k]
      BY <2>1 DEF TypeOK
    <2>4. \A k \in Items \ reoffered' : Kept(k)'
      BY <1>0, <2>1, <2>3
    <2> QED
      BY <1>2, <2>1, <2>2, <2>3, <2>4 DEF SteadyInv, IntentOutlivesEffect
  <1>8. ASSUME NEW i \in Items, CloseFile(i)  PROVE SteadyInv'
    <2>1. /\ desk.step \in {"closing", "sweeping"} /\ i \in desk.todo /\ UNCHANGED oplog
          /\ item' = [item EXCEPT ![i] = desk.status]
          /\ intent' = [intent EXCEPT ![i] = NoIntent]
          /\ reoffered' = reoffered \ {i}
      BY <1>8 DEF CloseFile
    <2>2. desk.status \in {"ACCEPTED", "REJECTED"}
      BY <2>1 DEF DeskInv
    <2>3. item'[i] = desk.status /\ \A k \in Items \ {i} : item'[k] = item[k] /\ intent'[k] = intent[k]
      BY <2>1 DEF TypeOK
    <2>4. \A k \in Items \ reoffered' : Kept(k)'
      BY <1>0, <2>1, <2>2, <2>3
    <2> QED
      BY <1>2, <2>1, <2>2, <2>3, <2>4 DEF SteadyInv, IntentOutlivesEffect
  <1>9. \A e \in Edits, r \in 0 .. revision : [edit |-> e, expected |-> r] \in Wishes
    BY DEF Wishes, TypeOK
  <1> QED
    BY <1>1, <1>3, <1>4, <1>5, <1>6, <1>7, <1>8, <1>9
       DEF Next, Write, Crash, Reject, Sweep, Failed, Replay, FindGroup, vars

LEMMA SwitchesGrow == TypeOK /\ [Next]_vars /\ switches' = 0 => switches = 0
  BY BoundsAssumption
     DEF TypeOK, Next, Write, Switch, Crash, Add, Expire, Reoffer, Reject, Sweep, Accept,
         OutOfScope, Stale, NotYet, Failed, Withdraw, Effect, Replay, FindGroup, CloseFile, vars

\* While mode and scope stay what they are, a proposal whose effect was made keeps
\* its intent until it is decided or expires: a crash loses no acceptance.
THEOREM DeskKeepsIntent == Spec => []IntentOutlivesEffect
  <1>1. Init => (switches = 0 => SteadyInv)
    BY DEF Init, SteadyInv, IntentOutlivesEffect
  <1>2. TypeOK /\ DeskInv /\ (switches = 0 => SteadyInv) /\ [Next]_vars
          => (switches = 0 => SteadyInv)'
    BY SteadyStep, SwitchesGrow
  <1>3. (switches = 0 => SteadyInv) => IntentOutlivesEffect
    BY DEF SteadyInv, IntentOutlivesEffect
  <1> QED
    BY <1>1, <1>2, <1>3, DeskInvariant, PTL DEF Spec

-----------------------------------------------------------------------------
(* Without crashes: one effect for a group, none for what is refused.      *)

\* Its effect was made, or that of a proposal of its group.
Flagged(i) == oplog[i] # None \/ i \in covered

CalmInv ==
  /\ crashes = 0
  /\ \A i \in Items : item[i] \in {"absent", "EXPIRED"} => ~Flagged(i)
  /\ \A i \in Pending : Flagged(i) =>
       /\ desk.status = "ACCEPTED"
       /\ \/ desk.step = "decided" /\ Content[i] = Content[desk.primary]
          \/ desk.step = "closing" /\ i \in desk.todo
  /\ RefusedIsNotApplied
  /\ OneEffect

LEMMA CalmStep ==
  ASSUME crashes' = 0, TypeOK, DeskInv, CalmInv, [Next]_vars
  PROVE  CalmInv'
  <1> USE Parameters, FreeDesk
  <1>1. ~Crash
    BY DEF Crash, CalmInv, TypeOK
  <1>2. crashes' = 0
    OBVIOUS
  <1>3. CASE UNCHANGED <<item, oplog, covered, desk>>
    BY <1>3 DEF CalmInv, RefusedIsNotApplied, OneEffect, Pending, Flagged
  <1>4. ASSUME UNCHANGED <<item, oplog, covered>>, desk.step \notin {"decided", "closing"}
        PROVE  CalmInv'
    <2>1. \A i \in Pending : ~Flagged(i)
      BY <1>4 DEF CalmInv
    <2> QED
      BY <1>4, <2>1 DEF CalmInv, RefusedIsNotApplied, OneEffect, Pending, Flagged
  <1>5. ASSUME NEW i \in Items, Reject(i) \/ Sweep(i) \/ \E w \in Wishes : Accept(i, w)
        PROVE  CalmInv'
    <2>1. UNCHANGED <<item, oplog, covered>> /\ desk = Free
      BY <1>5 DEF Reject, Sweep, Accept
    <2> QED
      BY <1>4, <2>1
  <1>6. ASSUME NEW i \in Items, OutOfScope(i) \/ Stale(i) \/ NotYet(i) \/ Failed(i)
        PROVE  CalmInv'
    <2>1. UNCHANGED <<item, oplog, covered>> /\ desk.step = "applying"
      BY <1>6 DEF OutOfScope, Stale, NotYet, Failed, Withdraw, Applying
    <2> QED
      BY <1>4, <2>1
  <1>7. ASSUME NEW i \in Items, Add(i) \/ Expire(i) \/ Reoffer(i)  PROVE CalmInv'
    <2>1. UNCHANGED <<oplog, covered, desk>> /\ \A k \in Items \ {i} : item'[k] = item[k]
      BY <1>7 DEF Add, Expire, Reoffer, TypeOK
    <2>2. item'[i] \in {"pending", "EXPIRED"}
      BY <1>7 DEF Add, Expire, Reoffer, TypeOK
    <2>3. item[i] \in {"absent", "EXPIRED"} => ~Flagged(i)
      BY DEF CalmInv
    <2>4. Expire(i) => ~Flagged(i)
      BY DEF Expire, Pending, CalmInv
    <2>5. ~Flagged(i)
      BY <1>7, <2>3, <2>4 DEF Add, Reoffer
    <2> QED
      BY <1>2, <2>1, <2>2, <2>5 DEF CalmInv, RefusedIsNotApplied, OneEffect, Pending, Flagged
  <1>8. ASSUME NEW p \in Items, Replay(p)  PROVE FALSE
    <2>1. desk.step = "applying" /\ desk.primary = p /\ oplog[p] = intent[p].edit
      BY <1>8 DEF Replay, Applying, SameRequest
    <2>2. p \in Pending /\ intent[p] \in Wishes
      BY <2>1 DEF DeskInv, TypeOK
    <2>3. oplog[p] # None
      BY <2>1, <2>2 DEF Wishes
    <2> QED
      BY <2>1, <2>2, <2>3 DEF CalmInv, Flagged
  <1>9. ASSUME NEW p \in Items, Effect(p)  PROVE CalmInv'
    <2>1. /\ desk.step = "applying" /\ desk.primary = p /\ item' = item
          /\ covered' = covered \union (Group(p) \ {p})
          /\ desk' = [desk EXCEPT !.step = "decided"]
          /\ \A k \in Items \ {p} : oplog'[k] = oplog[k]
      BY <1>9 DEF Effect, Applying, TypeOK
    <2>2. p \in Pending /\ desk.status = "ACCEPTED"
      BY <2>1 DEF DeskInv
    <2>3. desk'.step = "decided" /\ desk'.primary = p /\ desk'.status = "ACCEPTED"
      BY <2>1, <2>2 DEF TypeOK
    <2>4. \A k \in Pending : ~Flagged(k)
      BY <2>1 DEF CalmInv
    <2>5. Pending' = Pending /\ Group(p) \subseteq Pending
          /\ \A k \in Group(p) : Content[k] = Content[p]
      BY <2>1 DEF Pending, Group
    <2>6. \A k \in Items : Flagged(k)' => Flagged(k) \/ k = p \/ k \in Group(p)
      BY <2>1 DEF Flagged
    <2>7. \A k \in Items : item[k] \in {"absent", "EXPIRED", "REJECTED"} => k # p /\ k \notin Group(p)
      BY <2>2, <2>5 DEF Pending
    <2>8. \A k \in Items : item'[k] \in {"absent", "EXPIRED"} => ~Flagged(k)'
      BY <2>1, <2>6, <2>7 DEF CalmInv
    <2>9. \A k \in Pending' : Flagged(k)' => Content[k] = Content[p]
      BY <2>4, <2>5, <2>6 DEF Pending
    <2>10. RefusedIsNotApplied'
      BY <2>1, <2>7 DEF CalmInv, RefusedIsNotApplied
    <2>11. OneEffect'
      <3>1. \A k \in covered : k # p /\ oplog[k] = None
        BY <2>2, <2>4 DEF CalmInv, OneEffect, Flagged
      <3>2. \A k \in Group(p) \ {p} : oplog[k] = None
        BY <2>4, <2>5 DEF Flagged
      <3>3. covered' \subseteq Items
        BY <2>1, <2>5 DEF TypeOK, Pending
      <3> QED
        BY <2>1, <3>1, <3>2, <3>3 DEF OneEffect
    <2> QED
      BY <1>2, <2>3, <2>8, <2>9, <2>10, <2>11 DEF CalmInv
  <1>10. ASSUME NEW p \in Items, FindGroup(p)  PROVE CalmInv'
    <2>1. /\ desk.step = "decided" /\ desk.primary = p
          /\ UNCHANGED <<item, oplog, covered>>
          /\ \E q \in Items : desk' = [step |-> "closing", primary |-> q,
                                       status |-> desk.status, todo |-> Group(p)]
      BY <1>10 DEF FindGroup, Decide
    <2>2. desk'.step = "closing" /\ desk'.status = desk.status /\ desk'.todo = Group(p)
      BY <2>1
    <2>3. \A i \in Pending : Flagged(i) => desk.status = "ACCEPTED" /\ i \in Group(p)
      BY <2>1 DEF CalmInv, Group
    <2> QED
      BY <1>2, <2>1, <2>2, <2>3 DEF CalmInv, RefusedIsNotApplied, OneEffect, Pending, Flagged
  <1>11. ASSUME NEW i \in Items, CloseFile(i)  PROVE CalmInv'
    <2>1. /\ i \in desk.todo /\ desk.step \in {"closing", "sweeping"}
          /\ UNCHANGED <<oplog, covered>>
          /\ item' = [item EXCEPT ![i] = desk.status]
      BY <1>11 DEF CloseFile
    <2>2. desk.todo \subseteq Pending /\ desk.status \in {"ACCEPTED", "REJECTED"}
      BY <2>1 DEF DeskInv
    <2>3. Pending' = Pending \ {i} /\ \A k \in Items \ {i} : item'[k] = item[k]
      BY <2>1, <2>2 DEF Pending, TypeOK
    <2>4. item'[i] = desk.status
      BY <2>1 DEF TypeOK
    <2>5. desk.status # "ACCEPTED" => ~Flagged(i)
      BY <2>1, <2>2 DEF CalmInv
    <2>6. \A k \in Pending : Flagged(k) => desk.status = "ACCEPTED" /\ desk.step = "closing" /\ k \in desk.todo
      BY <2>1 DEF CalmInv
    <2>7. RefusedIsNotApplied' /\ OneEffect'
      BY <2>1, <2>3, <2>4, <2>5 DEF CalmInv, RefusedIsNotApplied, OneEffect, Flagged
    <2>8. \A k \in Items : item'[k] \in {"absent", "EXPIRED"} => ~Flagged(k)'
      BY <2>1, <2>2, <2>3, <2>4 DEF CalmInv, Flagged
    <2>9. \A k \in Pending' : Flagged(k)' =>
             desk'.status = "ACCEPTED" /\ desk'.step = "closing" /\ k \in desk'.todo
      <3>1. CASE LeftAfter(i) = {}
        BY <2>3, <2>6, <3>1, <2>1 DEF LeftAfter, Flagged
      <3>2. CASE LeftAfter(i) # {}
        <4>1. desk' = [desk EXCEPT !.todo = desk.todo \ {i}]
          BY <1>11, <3>2 DEF CloseFile, LeftAfter
        <4>2. /\ desk'.todo = desk.todo \ {i} /\ desk'.step = desk.step
              /\ desk'.status = desk.status
          BY <4>1 DEF TypeOK
        <4> QED
          BY <2>1, <2>3, <2>6, <4>2 DEF Flagged
      <3> QED
        BY <3>1, <3>2
    <2> QED
      BY <1>2, <2>7, <2>8, <2>9 DEF CalmInv
  <1>12. \A e \in Edits, r \in 0 .. revision : [edit |-> e, expected |-> r] \in Wishes
    BY DEF Wishes, TypeOK
  <1> QED
    BY <1>1, <1>3, <1>5, <1>6, <1>7, <1>8, <1>9, <1>10, <1>11, <1>12
       DEF Next, Write, Switch, vars

LEMMA CalmInit == Init => CalmInv
  BY FreeDesk DEF Init, CalmInv, RefusedIsNotApplied, OneEffect, Pending, Flagged

LEMMA CrashesGrow == TypeOK /\ [Next]_vars /\ crashes' = 0 => crashes = 0
  BY BoundsAssumption
     DEF TypeOK, Next, Write, Switch, Crash, Add, Expire, Reoffer, Reject, Sweep, Accept,
         OutOfScope, Stale, NotYet, Failed, Withdraw, Effect, Replay, FindGroup, CloseFile, vars

LEMMA CalmInvariant == Spec => [](crashes = 0 => CalmInv)
  <1>1. TypeOK /\ DeskInv /\ (crashes = 0 => CalmInv) /\ [Next]_vars => (crashes = 0 => CalmInv)'
    BY CalmStep, CrashesGrow
  <1> QED
    BY <1>1, CalmInit, DeskInvariant, PTL DEF Spec

\* As long as nothing crashes, a duplicate of an applied proposal is never applied.
THEOREM DeskMakesOneEffect == Spec => []OneEffectUnlessCrash
  <1>1. (crashes = 0 => CalmInv) => OneEffectUnlessCrash
    BY DEF CalmInv, OneEffectUnlessCrash
  <1> QED
    BY <1>1, CalmInvariant, PTL

\* As long as nothing crashes, what is rejected or expires was not applied.
THEOREM DeskRefusesOnlyTheUnapplied == Spec => []RefusedIsNotApplied
  <1>1. (crashes = 0 => CalmInv) => RefusedIsNotApplied
    BY DEF CalmInv, RefusedIsNotApplied
  <1> QED
    BY <1>1, CalmInvariant, PTL
=============================================================================

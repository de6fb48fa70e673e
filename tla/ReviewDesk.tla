------------------------------ MODULE ReviewDesk ------------------------------
(***************************************************************************)
(* The review queue: ReviewStore of src/brain_eleven/runtime/review.py and *)
(* review_action of src/brain_eleven/runtime/service.py.                   *)
(*                                                                         *)
(* A proposal waits in a file of its own until a person accepts or rejects *)
(* it or its retention ends.  Pending proposals with the same content form *)
(* a group, shown and decided as one through its primary.  Accepting takes *)
(* three kinds of durable steps under the index lock: the intent in the    *)
(* primary's file, the effect with its operation receipt in the canonical  *)
(* store, and one terminal file after another for the group.  A crash (or  *)
(* an exception) between two of them frees the lock and leaves the files.  *)
(*                                                                         *)
(* The backfill command (src/brain_eleven/runtime/backfill.py) offers what *)
(* has expired once more, without the lock.  One such command runs at a    *)
(* time: nothing keeps a second one out, and between the read and the      *)
(* write of its _reoffer a person could decide what the first one brought. *)
(*                                                                         *)
(* The proposals are state mutations: two equal ones make two records.     *)
(* Two equal memories would make one, found by its fingerprint.            *)
(***************************************************************************)
EXTENDS Integers, FiniteSets

CONSTANTS Items,        \* proposals, numbered in the order of their file names
          Content,      \* content_fingerprint of each, project included
          Event,        \* event_fingerprint of each: content and evidence
          Rank,         \* place of each in the order of _sort_key
          LateRank,     \* its place with the date a backfill gives it
          Recent,       \* those whose transcript a backfill still reads
          Edits,        \* texts a person may accept a proposal with
          MaxWrites,    \* bound on writes to the canonical store by others
          MaxCrashes,   \* bound on crashes
          MaxSwitches   \* bound on changes of mode and project scope

None == 0

ASSUME ItemsAssumption == Items \subseteq Nat \ {0} /\ IsFiniteSet(Items)
ASSUME RankAssumption ==
  /\ Rank \in [Items -> Nat] /\ LateRank \in [Items -> Nat]
  /\ \A i, k \in Items : i # k => {Rank[i], LateRank[i]} \cap {Rank[k], LateRank[k]} = {}
ASSUME EventAssumption ==
  \A i, k \in Items : Event[i] = Event[k] => Content[i] = Content[k]
ASSUME RecentAssumption == Recent \subseteq Items
ASSUME EditsAssumption == Edits # {} /\ None \notin Edits
ASSUME BoundsAssumption == MaxWrites \in Nat /\ MaxCrashes \in Nat /\ MaxSwitches \in Nat

VARIABLES item,       \* status in the file of each proposal, or "absent"
          intent,     \* its accept_intent
          lead,       \* its duplicate_of, once decided
          reoffered,  \* pending files with the reoffered_by of a backfill
          oplog,      \* operation receipts: what was applied under its identity
          revision,   \* revision of the canonical store
          mode,       \* the runtime mode lets an approved effect in
          scope,      \* the project takes part in the runtime
          desk,       \* the call that holds the index lock
          writes, crashes, switches,
          decision,   \* history: what the person accepted each primary with
          covered,    \* history: proposals whose group had its effect made
          strays      \* history: primaries of finish that were not the one applied

files == <<item, intent, lead, reoffered>>
store == <<oplog, revision>>
bounds == <<writes, crashes, switches>>
history == <<decision, covered, strays>>
gates == <<mode, scope>>
vars == <<files, store, gates, desk, bounds, history>>

allowed == mode /\ scope

Terminal == {"ACCEPTED", "REJECTED", "EXPIRED"}
Wishes == [edit : Edits, expected : Nat]
NoIntent == [edit |-> None, expected |-> 0]

Free == [step |-> "free", primary |-> None, status |-> "absent", todo |-> {}]

Pending == {i \in Items : item[i] = "pending"}

\* Pending files with the project and content of this one.
Group(i) == {k \in Pending : Content[k] = Content[i]}

\* _sort_key goes by confidence, then by date.
Place(i) == IF i \in reoffered THEN LateRank[i] ELSE Rank[i]

\* ReviewStore.primary: the first of the group in the order of _sort_key.
Leads(p, i) == p \in Group(i) /\ \A k \in Group(i) : Place(p) <= Place(k)

Init ==
  /\ item = [i \in Items |-> "absent"]
  /\ intent = [i \in Items |-> NoIntent]
  /\ lead = [i \in Items |-> None]
  /\ reoffered = {}
  /\ oplog = [i \in Items |-> None]
  /\ revision = 0
  /\ mode \in BOOLEAN /\ scope \in BOOLEAN
  /\ desk = Free
  /\ writes = 0 /\ crashes = 0 /\ switches = 0
  /\ decision = [i \in Items |-> None]
  /\ covered = {}
  /\ strays = {}

-----------------------------------------------------------------------------
(* Around the desk.                                                        *)

\* Any other writer of the canonical store.
Write ==
  /\ writes < MaxWrites
  /\ writes' = writes + 1
  /\ revision' = revision + 1
  /\ UNCHANGED <<files, oplog, gates, desk, crashes, switches, history>>

\* The owner changes the mode or takes the project out of scope, or back in.
Switch ==
  /\ switches < MaxSwitches
  /\ switches' = switches + 1
  /\ \/ mode' = ~mode /\ UNCHANGED scope
     \/ scope' = ~scope /\ UNCHANGED mode
  /\ UNCHANGED <<files, store, desk, writes, crashes, history>>

\* The process dies or an exception leaves review_action: the lock is free.
Crash ==
  /\ desk # Free /\ crashes < MaxCrashes
  /\ crashes' = crashes + 1
  /\ desk' = Free
  /\ UNCHANGED <<files, store, gates, writes, switches, history>>

-----------------------------------------------------------------------------
(* Calls that change one file under the index lock.                        *)

\* ReviewStore.add: an event that ever had a file gets no second one.
Add(i) ==
  /\ desk = Free
  /\ item[i] = "absent"
  /\ \A k \in Items : Event[k] = Event[i] => item[k] = "absent"
  /\ item' = [item EXCEPT ![i] = "pending"]
  /\ UNCHANGED <<intent, lead, reoffered, store, gates, desk, bounds, history>>

\* Bug: expiry does not wait for the index lock.
ExpireUnlocked(i) ==
  /\ item[i] = "pending"
  /\ item' = [item EXCEPT ![i] = "EXPIRED"]
  /\ intent' = [intent EXCEPT ![i] = NoIntent]
  /\ reoffered' = reoffered \ {i}
  /\ UNCHANGED <<lead, store, gates, desk, bounds, history>>

\* ReviewStore.expire: its time is over; each file for itself.
Expire(i) ==
  /\ desk = Free
  /\ item[i] = "pending"
  /\ item' = [item EXCEPT ![i] = "EXPIRED"]
  /\ intent' = [intent EXCEPT ![i] = NoIntent]
  /\ reoffered' = reoffered \ {i}
  /\ UNCHANGED <<lead, store, gates, desk, bounds, history>>

\* Bug: whatever is no longer pending is offered again.
ReofferAny(i) ==
  /\ i \in Recent
  /\ item[i] \in Terminal
  /\ item' = [item EXCEPT ![i] = "pending"]
  /\ lead' = [lead EXCEPT ![i] = None]
  /\ reoffered' = reoffered \union {i}
  /\ UNCHANGED <<intent, store, gates, desk, bounds, history>>

\* _reoffer of a backfill: what expired is pending again.  The index lock is not
\* taken: the group may be in the middle of a decision.
Reoffer(i) ==
  /\ i \in Recent
  /\ item[i] = "EXPIRED"
  /\ item' = [item EXCEPT ![i] = "pending"]
  /\ lead' = [lead EXCEPT ![i] = None]
  /\ reoffered' = reoffered \union {i}
  /\ UNCHANGED <<intent, store, gates, desk, bounds, history>>

-----------------------------------------------------------------------------
(* Deciding a group.                                                       *)

Decide(step, p, status, todo) ==
  desk' = [step |-> step, primary |-> p, status |-> status, todo |-> todo]

\* review_action(reject)
Reject(i) ==
  /\ desk = Free
  /\ item[i] = "pending"
  /\ \E p \in Items : Leads(p, i) /\ Decide("decided", p, "REJECTED", {})
  /\ UNCHANGED <<files, store, gates, bounds, history>>

\* ReviewStore.reject_matching, for one group: the primary is written first.
Sweep(i) ==
  /\ desk = Free
  /\ i \in Pending /\ Leads(i, i)
  /\ Decide("sweeping", i, "REJECTED", Group(i))
  /\ UNCHANGED <<files, store, gates, bounds, history>>

\* Bug: a new intent replaces one that waits for recovery.
AcceptAnyway(i, w) ==
  /\ desk = Free /\ mode
  /\ item[i] = "pending"
  /\ \E p \in Items :
       /\ Leads(p, i)
       /\ intent' = [intent EXCEPT ![p] = w]
       /\ Decide("applying", p, "ACCEPTED", {})
  /\ UNCHANGED <<item, lead, reoffered, store, gates, bounds, history>>

\* review_action(accept), past its mode gate, up to the durable intent; the client sends the text and
\* the revision it has seen.  An intent that waits for recovery must be the same.
Accept(i, w) ==
  /\ desk = Free /\ mode
  /\ item[i] = "pending"
  /\ \E p \in Items :
       /\ Leads(p, i)
       /\ intent[p] \in {NoIntent, w}
       /\ intent' = [intent EXCEPT ![p] = w]
       /\ Decide("applying", p, "ACCEPTED", {})
  /\ UNCHANGED <<item, lead, reoffered, store, gates, bounds, history>>

Applying(p) == desk.step = "applying" /\ desk.primary = p

\* The call returns without a decision; the intent is withdrawn.
Withdraw(p) ==
  /\ intent' = [intent EXCEPT ![p] = NoIntent]
  /\ desk' = Free
  /\ UNCHANGED <<item, lead, reoffered, store, gates, bounds, history>>

\* SCOPE_ERROR
OutOfScope(p) ==
  /\ Applying(p)
  /\ ~allowed
  /\ Withdraw(p)

\* STALE_INPUT: another writer moved the revision.
Stale(p) ==
  /\ Applying(p) /\ allowed
  /\ oplog[p] = None /\ revision # intent[p].expected
  /\ Withdraw(p)

\* Bug: a result that asks for review is taken for a success.
TakenForSuccess(p) ==
  /\ Applying(p) /\ allowed
  /\ oplog[p] = None /\ revision = intent[p].expected
  /\ desk' = [desk EXCEPT !.step = "decided"]
  /\ UNCHANGED <<files, store, gates, bounds, history>>

\* REVIEW_REQUIRED or DEGRADED: the store wants a target or sees a conflict.
NotYet(p) ==
  /\ Applying(p) /\ allowed
  /\ oplog[p] = None /\ revision = intent[p].expected
  /\ Withdraw(p)

\* FAILED: an invalid transition, or an operation identity that was used for
\* another request.  The intent stays.
Failed(p) ==
  /\ Applying(p) /\ allowed
  /\ oplog[p] # intent[p].edit
  /\ oplog[p] = None => revision = intent[p].expected
  /\ desk' = Free
  /\ UNCHANGED <<files, store, gates, bounds, history>>

\* The effect and its operation receipt, in one transaction.
Effect(p) ==
  /\ Applying(p) /\ allowed
  /\ oplog[p] = None /\ revision = intent[p].expected
  /\ oplog' = [oplog EXCEPT ![p] = intent[p].edit]
  /\ revision' = revision + 1
  /\ covered' = covered \union (Group(p) \ {p})
  /\ desk' = [desk EXCEPT !.step = "decided"]
  /\ UNCHANGED <<files, gates, bounds, decision, strays>>

\* Bug: the receipt answers whatever the request.
AnyReceipt(p) == oplog[p] # None

\* The operation identity and the request are those of the receipt.
SameRequest(p) == oplog[p] = intent[p].edit

\* An earlier call made the effect: its receipt answers, before any revision check.
Replay(p) ==
  /\ Applying(p) /\ allowed
  /\ SameRequest(p)
  /\ desk' = [desk EXCEPT !.step = "decided"]
  /\ UNCHANGED <<files, store, gates, bounds, history>>

\* finish reads the group once more.  What a backfill has brought back meanwhile is
\* closed with it, and may even be its primary now.
FindGroup(p) ==
  /\ desk.step = "decided" /\ desk.primary = p
  /\ \E q \in Items :
       /\ Leads(q, p)
       /\ Decide("closing", q, desk.status, Group(p))
       /\ strays' = IF q # p /\ desk.status = "ACCEPTED" THEN strays \union {q} ELSE strays
  /\ UNCHANGED <<files, store, gates, bounds, decision, covered>>

\* finish writes in the order of file names, reject_matching by rank.
IsNext(i) ==
  \A k \in desk.todo : IF desk.step = "sweeping" THEN Place(i) <= Place(k) ELSE i <= k

\* Bug: the lock is given back after the first file.
FirstFileOnly(i) == {}

\* What finish still has to write.
LeftAfter(i) == desk.todo \ {i}

\* finish: one terminal file; the intent, the candidate and the mark of the backfill
\* are not in it.
CloseFile(i) ==
  /\ desk.step \in {"closing", "sweeping"}
  /\ i \in desk.todo /\ IsNext(i)
  /\ item' = [item EXCEPT ![i] = desk.status]
  /\ intent' = [intent EXCEPT ![i] = NoIntent]
  /\ lead' = [lead EXCEPT ![i] = IF i = desk.primary THEN None ELSE desk.primary]
  /\ reoffered' = reoffered \ {i}
  /\ decision' = IF i = desk.primary /\ desk.status = "ACCEPTED"
                 THEN [decision EXCEPT ![i] = intent[i].edit]
                 ELSE decision
  /\ desk' = IF LeftAfter(i) = {} THEN Free ELSE [desk EXCEPT !.todo = LeftAfter(i)]
  /\ UNCHANGED <<store, gates, bounds, covered, strays>>

-----------------------------------------------------------------------------

Next ==
  \/ Write
  \/ Switch
  \/ Crash
  \/ \E i \in Items :
       \/ Add(i)
       \/ Expire(i)
       \/ Reoffer(i)
       \/ Reject(i)
       \/ Sweep(i)
       \/ FindGroup(i)
       \/ CloseFile(i)
       \/ \E e \in Edits, r \in 0..revision : Accept(i, [edit |-> e, expected |-> r])
       \/ OutOfScope(i)
       \/ Stale(i)
       \/ NotYet(i)
       \/ Failed(i)
       \/ Effect(i)
       \/ Replay(i)

Spec == Init /\ [][Next]_vars

-----------------------------------------------------------------------------
(* Properties.                                                             *)

\* Every variable keeps its type: files, intents, receipts and the lock holder.
TypeOK ==
  /\ item \in [Items -> Terminal \union {"absent", "pending"}]
  /\ intent \in [Items -> Wishes \union {NoIntent}]
  /\ lead \in [Items -> Items \union {None}]
  /\ reoffered \subseteq Items
  /\ oplog \in [Items -> Edits \union {None}]
  /\ revision \in Nat
  /\ mode \in BOOLEAN /\ scope \in BOOLEAN
  /\ desk \in [step : {"free", "applying", "decided", "closing", "sweeping"},
               primary : Items \union {None}, status : Terminal \union {"absent"},
               todo : SUBSET Items]
  /\ writes \in 0..MaxWrites /\ crashes \in 0..MaxCrashes /\ switches \in 0..MaxSwitches
  /\ decision \in [Items -> Edits \union {None}]
  /\ covered \subseteq Items /\ strays \subseteq Items

\* The group of a proposal has its effect in the canonical store.
GroupApplied(i) == \E k \in Items : Content[k] = Content[i] /\ oplog[k] # None

\* While a call holds the index lock, the proposal it decides is still pending, and
\* what it has still to close is pending and of one group; a call past the store
\* has its effect there (review_action keeps the lock until finish).
DeskInv ==
  /\ desk.step \in {"applying", "decided"} => desk.primary \in Pending
  /\ desk.step = "applying" =>
       desk.status = "ACCEPTED" /\ intent[desk.primary] # NoIntent
  /\ desk.step = "decided" => desk.status \in {"ACCEPTED", "REJECTED"}
  /\ desk.step = "decided" /\ desk.status = "ACCEPTED" =>
       oplog[desk.primary] = intent[desk.primary].edit /\ oplog[desk.primary] # None
  /\ desk.step \in {"closing", "sweeping"} =>
       /\ desk.primary \in Items /\ desk.todo # {} /\ desk.todo \subseteq Pending
       /\ \A i \in desk.todo : Content[i] = Content[desk.primary]
       /\ desk.status \in {"ACCEPTED", "REJECTED"}
  /\ desk.step = "closing" /\ desk.status = "ACCEPTED" =>
       /\ GroupApplied(desk.primary)
       /\ desk.primary \notin strays =>
            /\ oplog[desk.primary] # None
            /\ desk.primary \in desk.todo => oplog[desk.primary] = intent[desk.primary].edit
  /\ desk.step = "sweeping" => desk.status = "REJECTED"

\* What a proposal is marked accepted with is what the canonical store took under
\* its identity, and a duplicate is accepted only behind a primary that was
\* applied: also when the acceptance was interrupted and resumed, the text edited
\* in between, or the project out of scope for a while.  Only when a backfill
\* brought a proposal of higher rank back while another one was being applied does
\* finish name it the primary; then it is the group that was applied.
AcceptedAsApplied ==
  \A i \in Items : item[i] = "ACCEPTED" =>
    LET p == IF lead[i] = None THEN i ELSE lead[i] IN
    /\ Content[p] = Content[i]
    /\ GroupApplied(p)
    /\ p \notin strays =>
         oplog[p] # None /\ (lead[i] = None => oplog[i] = decision[i])

\* What a person decided is never decided again, neither by a loop over a group
\* read before another call decided, nor by expiry, nor by a backfill.  The module
\* comment of backfill.py: a human decision is never undone, expired candidates
\* (no human decision, the timer ran out) are offered again.  And an expired one is
\* decided only after it was: no call closes a file that ran out under its hands.
DecisionIsFinal ==
  [][\A i \in Items :
       /\ item[i] \in {"ACCEPTED", "REJECTED"} => item'[i] = item[i]
       /\ item[i] = "EXPIRED" => item'[i] \in {"EXPIRED", "pending"}]_vars

\* While mode and scope stay what they are, an effect whose proposal is still
\* pending has its intent on disk: a retry can only finish what was begun.  (A
\* proposal that was not retried in time, expired and was offered again by a
\* backfill has lost it.)
IntentOutlivesEffect ==
  switches = 0 =>
    \A i \in Items \ reoffered :
      item[i] = "pending" /\ oplog[i] # None => intent[i].edit = oplog[i]

\* A proposal that was in the group of an applied one is never applied itself.
\* The comment in review_action: a duplicate resolves to the deterministic primary
\* so acceptance can never create a second canonical effect.
OneEffect == \A i \in covered : oplog[i] = None

\* That holds as long as no call dies between the effect and the last file, also
\* when a backfill adds to the group in between.
OneEffectUnlessCrash == crashes = 0 => OneEffect

\* As long as no call dies, what was rejected or has expired was not applied.
RefusedIsNotApplied ==
  crashes = 0 => \A i \in Items : item[i] \in {"REJECTED", "EXPIRED"} => oplog[i] = None
=============================================================================

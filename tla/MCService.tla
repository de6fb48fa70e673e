------------------------------ MODULE MCService ------------------------------
(***************************************************************************)
(* What the service does in the background in one run: the worker on a     *)
(* session, and the upkeep of the review queue and of the memory.  They    *)
(* share no variable: the initial state chooses what moves.                *)
(***************************************************************************)
EXTENDS MCCaptureWorker, Housekeeping

VARIABLE focus

\* Three copies of a fact, of which two also answer a question, and a memory
\* that answers another; two candidates.
MCTwin == [p \in Proposals |-> p]
MCOutcome == <<{"VERIFIED", "REVIEW", "none"}, {"REJECT", "FRAGMENT", "none"}>>
MCAnswers == [m \in Records |-> CASE m \in {1, 2} -> {"q"} [] m = 3 -> {} [] OTHER -> {"r"}]
MCCopies == {pair \in SUBSET {1, 2, 3} : Cardinality(pair) = 2}

FocusInit ==
  /\ focus \in {"worker", "refusal", "sorting", "retiring"}
  /\ Init /\ HousekeepingInit
  /\ mode = "APPROVAL" => focus = "refusal"
  /\ focus # "sorting" => ~automatic /\ \A p \in Proposals : advice[p] = "none"

\* A sentence said again, and one that nothing takes: they are heard by one job alone.
OnlyOneJob == \A i, j \in Jobs : job'[i] # "new" /\ job'[j] # "new" => i = j

\* After a revival the other job is yet to come or acknowledged.
RevivedAlone == revivals' = 0 \/ \E j \in Jobs : job'[j] \in {"new", "done"}

\* The owner leaves the mode as it is.  Persons do less, and runs are fewer, where
\* memories are retired.
FocusNext ==
  /\ \/ focus = "worker" /\ Next /\ written' < 4 /\ RevivedAlone /\ UNCHANGED housekeepingVars
     \/ focus = "refusal" /\ Next /\ OnlyOneJob /\ UNCHANGED housekeepingVars
     \/ focus = "sorting" /\ Sorting /\ UNCHANGED vars
     \/ /\ focus = "retiring" /\ (Retiring \/ \E p \in Proposals : PersonDecides(p) /\ decided'[p] = "person")
        /\ hands' < MaxHands /\ runs' < MaxRuns
        /\ UNCHANGED vars
  /\ UNCHANGED <<mode, focus>>

FocusSpec == FocusInit /\ [][FocusNext]_<<vars, housekeepingVars, focus>>
=============================================================================

------------------------------- MODULE MCStores -------------------------------
(***************************************************************************)
(* The canonical memory, the review desk before it, and behind it the      *)
(* delivery of a context and the choice of what is in it, in one run: they *)
(* share no variable, the initial state chooses the one that moves.        *)
(***************************************************************************)
EXTENDS MCCanonicalMemory, MCReviewDesk, ContextDelivery, MCScenarios

VARIABLE focus

\* A vault from before claim keys gets fewer writes by hand while others than the
\* worker call.  Of the parts at rest one initial state stands for all.
AtRest == CHOOSE s \in MCScenarios[1] : TRUE

FocusInit ==
  /\ focus \in {"memory", "old memory", "desk", "delivery", "selection"}
  /\ MemoryInit /\ Init
  /\ focus # "desk" => mode /\ scope
  /\ \/ focus = "old memory" /\ mem[1].claim = Absent
     \/ focus # "old memory" /\ mem[1].claim # Absent
  /\ ContextInit /\ (focus # "delivery" => setting = "ACTIVE" /\ ~up /\ reports = {})
  /\ SelectionInit /\ (focus # "selection" => scenario = AtRest)

FocusNext ==
  /\ \/ /\ focus \in {"memory", "old memory"} /\ MemoryNext /\ UNCHANGED <<vars, contextVars, selectionVars>>
        /\ focus = "old memory" => manual' < MaxManual \/ \A c \in Callers \ {1} : call'[c] = NoCall
     \/ /\ focus = "desk" /\ Next /\ UNCHANGED <<memoryVars, contextVars, selectionVars>>
        /\ reoffered' # {} => switches' + writes' = 0
     \/ focus = "delivery" /\ ContextNext /\ UNCHANGED <<vars, memoryVars, selectionVars>>
     \/ focus = "selection" /\ SelectionNext /\ UNCHANGED <<vars, memoryVars, contextVars>>
  /\ UNCHANGED focus

FocusSpec == FocusInit /\ [][FocusNext]_<<memoryVars, vars, contextVars, selectionVars, focus>>
=============================================================================

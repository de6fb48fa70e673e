----------------------------- MODULE MCLiveness -----------------------------
(***************************************************************************)
(* Two parts that must go on by themselves, in one run: the service that   *)
(* hooks start when there is none, and the worker on a session.  They      *)
(* share no variable: the initial state chooses the one that moves.        *)
(***************************************************************************)
EXTENDS MCCaptureWorker, LocalService

VARIABLE focus

\* A part at rest has nothing to do.  Two hooks meet with one stop left, one
\* hook with all.
FocusInit ==
  /\ focus \in {"worker", "one hook", "two hooks"}
  /\ Init /\ (focus # "worker" => mode = "OFF")
  /\ server = [p \in Pids |-> "none"] /\ named = NoPid /\ marker = NoMarker
  /\ asker = [h \in Asking |-> NotAsking]
  /\ on = (focus # "worker")
  /\ stops = IF focus = "two hooks" THEN MaxStops - 1 ELSE 0

OneHook == CHOOSE h \in Asking : TRUE

FocusNext ==
  /\ \/ focus = "worker" /\ Next /\ UNCHANGED serviceVars
     \/ /\ focus # "worker" /\ ServiceNext /\ UNCHANGED vars
        /\ focus = "one hook" => \A h \in Asking \ {OneHook} : asker'[h] = NotAsking
  /\ UNCHANGED focus

\* Of a part that rests nothing is asked: that its steps are not enabled is
\* seen at once where the focus is said first.
AtWorker(A) == focus = "worker" /\ A
AtService(A) == focus # "worker" /\ A

FocusFairness ==
  /\ WF_vars(AtWorker(AtWork))
  /\ \A j \in Jobs : WF_vars(AtWorker(Recover(j))) /\ WF_vars(AtWorker(Claim(j)))
  /\ \A h \in Asking :
       WF_serviceVars(AtService(HookStep(h) /\ (focus = "one hook" => h = OneHook)))
  /\ \A p \in Pids : WF_serviceVars(AtService(ServerStep(p)))
  /\ WF_serviceVars(AtService(TenSeconds))

FocusSpec ==
  FocusInit /\ [][FocusNext]_<<vars, serviceVars, focus>> /\ FocusFairness
=============================================================================

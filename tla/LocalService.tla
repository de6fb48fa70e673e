---------------------------- MODULE LocalService ----------------------------
(***************************************************************************)
(* The one service of a vault: who starts it, who may be it, and how it is *)
(* found (ensure_service and request_service of                            *)
(* src/brain_eleven/runtime/launcher.py, serve of service.py).  Hooks that *)
(* get no answer start a process; the lock runtime/server decides which of *)
(* the processes serves; service.json says where, launch.json when a start *)
(* was last tried.  The two files outlive the processes they name.         *)
(***************************************************************************)
EXTENDS Integers, FiniteSets

CONSTANTS Pids, Asking,  \* processes, and hooks that come again and again
          MaxStops       \* bound on idle stops, crashes, slow answers and switches

NoPid == 0
ASSUME ServiceAssumption == NoPid \notin Pids /\ MaxStops \in Nat

VARIABLES server,   \* where a process is in serve
          named,    \* service.json
          marker,   \* launch.json
          asker,    \* a hook in ensure_service
          on,       \* the mode is not OFF
          stops

serviceVars == <<server, named, marker, asker, on, stops>>

NoMarker == [pid |-> NoPid, recent |-> FALSE]
NotAsking == [at |-> "idle", child |-> NoPid]

ServiceInit ==
  /\ server = [p \in Pids |-> "none"] /\ named = NoPid /\ marker = NoMarker
  /\ asker = [h \in Asking |-> NotAsking] /\ on \in BOOLEAN /\ stops = 0

\* Bug: the files are put away after the lock was released.
HoldingWhileServing == {"locked", "published", "serving", "closing"}

\* What a process does while it holds the lock runtime/server.
Holding == {"locked", "published", "serving", "closing", "closed", "reading", "clearing", "leaving"}
ServerLockFree == \A p \in Pids : server[p] \notin Holding
LaunchLockFree == \A h \in Asking : asker[h].at \notin {"deciding", "spawned"}

\* A child that ended answers signals until its parent is gone or has looked.
Alive(p) == p # NoPid /\ (server[p] # "none" \/ \E h \in Asking : asker[h].child = p)

\* A number is given again when nothing refers to the process that had it.
Free(p) == /\ server[p] = "none" /\ p \notin {named, marker.pid}
           /\ \A h \in Asking : asker[h].child # p

-----------------------------------------------------------------------------
(* Hooks.                                                                  *)

AskerDoes(h, new) == asker' = [asker EXCEPT ![h] = new]

Answering == named # NoPid /\ server[named] = "serving"
NotAnswered(h) == AskerDoes(h, [asker[h] EXCEPT !.at = "locking"])

\* The file is read, then the port is tried.  A mode that is OFF starts nothing.
HookAsks(h) ==
  /\ asker[h].at = "idle" /\ on /\ ~Answering /\ NotAnswered(h)
  /\ UNCHANGED <<server, named, marker, on, stops>>

HookLocks(h) ==
  /\ asker[h].at = "locking"
  /\ AskerDoes(h, IF LaunchLockFree THEN [asker[h] EXCEPT !.at = "deciding"] ELSE NotAsking)
  /\ UNCHANGED <<server, named, marker, on, stops>>

\* A start of the last ten seconds whose process lives is waited for.  Which
\* number a new process gets makes no difference.
HookSpawns(h) ==
  /\ asker[h].at = "deciding"
  /\ IF marker.recent /\ Alive(marker.pid)
     THEN AskerDoes(h, [asker[h] EXCEPT !.at = "waiting"]) /\ UNCHANGED server
     ELSE LET p == CHOOSE q \in Pids : Free(q) IN
          /\ \E q \in Pids : Free(q)
          /\ server' = [server EXCEPT ![p] = "starting"]
          /\ AskerDoes(h, [asker[h] EXCEPT !.at = "spawned", !.child = p])
  /\ UNCHANGED <<named, marker, on, stops>>

HookMarks(h) ==
  /\ asker[h].at = "spawned"
  /\ marker' = [pid |-> asker[h].child, recent |-> TRUE]
  /\ AskerDoes(h, [asker[h] EXCEPT !.at = "waiting"])
  /\ UNCHANGED <<server, named, on, stops>>

\* It asks again until it is answered or its deadline comes.
HookLeaves(h) ==
  /\ asker[h].at = "waiting" /\ AskerDoes(h, NotAsking)
  /\ UNCHANGED <<server, named, marker, on, stops>>

-----------------------------------------------------------------------------
(* Processes.                                                              *)

ServerGoes(p, from, to) == server[p] = from /\ server' = [server EXCEPT ![p] = to]

TakesLock(p) ==
  /\ ServerLockFree /\ ServerGoes(p, "starting", "locked")
  /\ UNCHANGED <<named, marker, asker, on, stops>>

\* Bug: who did not get the lock puts the file away, too.
LosesAndClears(p) ==
  /\ ~ServerLockFree /\ ServerGoes(p, "starting", "none")
  /\ named' = NoPid
  /\ UNCHANGED <<marker, asker, on, stops>>

\* Another one serves, or is about to leave: this one gives up.
LosesLock(p) ==
  /\ ~ServerLockFree /\ ServerGoes(p, "starting", "none")
  /\ UNCHANGED <<named, marker, asker, on, stops>>

Publishes(p) ==
  /\ ServerGoes(p, "locked", "published") /\ named' = p
  /\ UNCHANGED <<marker, asker, on, stops>>
Listens(p) ==
  /\ ServerGoes(p, "published", "serving")
  /\ UNCHANGED <<named, marker, asker, on, stops>>
ServerCloses(p) ==
  /\ ServerGoes(p, "closing", "closed")
  /\ UNCHANGED <<named, marker, asker, on, stops>>

\* What is left behind is removed: service.json, whatever it says, and
\* launch.json if it says this process.
RemovesName(p) ==
  /\ ServerGoes(p, "closed", "reading") /\ named' = NoPid
  /\ UNCHANGED <<marker, asker, on, stops>>
ReadsMarker(p) ==
  /\ ServerGoes(p, "reading", IF marker.pid = p THEN "clearing" ELSE "leaving")
  /\ UNCHANGED <<named, marker, asker, on, stops>>
RemovesMarker(p) ==
  /\ ServerGoes(p, "clearing", "leaving") /\ marker' = NoMarker
  /\ UNCHANGED <<named, asker, on, stops>>

\* The process lives on until the work of its threads is done.
ReleasesLock(p) ==
  /\ ServerGoes(p, "leaving", "lingering")
  /\ UNCHANGED <<named, marker, asker, on, stops>>
Exits(p) ==
  /\ ServerGoes(p, "lingering", "none")
  /\ UNCHANGED <<named, marker, asker, on, stops>>

-----------------------------------------------------------------------------
(* What stops a service, and time.                                         *)

Stopping == stops < MaxStops /\ stops' = stops + 1

\* Nobody asked for long enough, or somebody asked it to stop.
GoesIdle(p) == Stopping /\ ServerGoes(p, "serving", "closing") /\ UNCHANGED <<named, marker, asker, on>>

ServerDies(p) ==
  /\ Stopping /\ server[p] # "none" /\ server' = [server EXCEPT ![p] = "none"]
  /\ UNCHANGED <<named, marker, asker, on>>

AskerDies(h) ==
  /\ Stopping /\ asker[h].at # "idle" /\ AskerDoes(h, NotAsking)
  /\ UNCHANGED <<server, named, marker, on>>

\* A service that is slow counts as none, and so does one that left, and was
\* followed by another, after its name was read.
CallTimesOut(h) ==
  /\ Stopping /\ asker[h].at = "idle" /\ on /\ Answering /\ NotAnswered(h)
  /\ UNCHANGED <<server, named, marker, on>>

OwnerTurns == Stopping /\ on' = ~on /\ UNCHANGED <<server, named, marker, asker>>

TenSeconds ==
  /\ marker.recent /\ marker' = [marker EXCEPT !.recent = FALSE]
  /\ UNCHANGED <<server, named, asker, on, stops>>

HookStep(h) == HookAsks(h) \/ HookLocks(h) \/ HookSpawns(h) \/ HookMarks(h) \/ HookLeaves(h)
ServerStep(p) ==
  \/ TakesLock(p) \/ LosesLock(p) \/ Publishes(p) \/ Listens(p) \/ ServerCloses(p) \/ RemovesName(p)
  \/ ReadsMarker(p) \/ RemovesMarker(p) \/ ReleasesLock(p) \/ Exits(p)

ServiceNext ==
  \/ \E h \in Asking : HookStep(h) \/ AskerDies(h) \/ CallTimesOut(h)
  \/ \E p \in Pids : ServerStep(p) \/ GoesIdle(p) \/ ServerDies(p)
  \/ OwnerTurns \/ TenSeconds

\* Hooks come as long as somebody works, processes go on, time passes.
ServiceFairness ==
  /\ \A h \in Asking : WF_serviceVars(HookStep(h))
  /\ \A p \in Pids : WF_serviceVars(ServerStep(p))
  /\ WF_serviceVars(TenSeconds)

ServiceSpec == ServiceInit /\ [][ServiceNext]_serviceVars /\ ServiceFairness

-----------------------------------------------------------------------------
(* Properties.                                                             *)

\* Whoever serves is the one that service.json names, although predecessors
\* put the file away and successors write it while they come and go; and a
\* file that names a living process names the one that holds the lock.
ServiceIsReachable ==
  /\ \A p \in Pids : server[p] \in {"published", "serving", "closing"} => named = p
  /\ named # NoPid => server[named] \in Holding \union {"none"}

\* Once nothing stops it any more and hooks keep coming, a service is up and
\* found for good: no leftover of the two files, no process that is still
\* leaving and no start that lost the lock keeps hooks from starting another.
ServiceSettles == <>[]on => <>[](\E p \in Pids : server[p] = "serving" /\ named = p)
=============================================================================

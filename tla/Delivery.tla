------------------------------ MODULE Delivery ------------------------------
(***************************************************************************)
(* What the capture queue promises, without directories, documents, locks  *)
(* or crashes: a job is accepted once, handed to the worker a bounded      *)
(* number of times, and closed as done (for good) or dead (until an        *)
(* operator revives it).                                                   *)
(***************************************************************************)
EXTENDS Integers

CONSTANTS Jobs,         \* job identities (one per hook idempotency key)
          MaxAttempts   \* deliveries a job gets before it is buried

VARIABLES state,        \* [Jobs -> States]
          tries         \* deliveries since the job was accepted or revived

vars == <<state, tries>>

States == {"new", "ready", "taken", "done", "dead"}

TypeOK ==
  /\ state \in [Jobs -> States]
  /\ tries \in [Jobs -> Nat]

Become(j, from, to) ==
  /\ state[j] = from
  /\ state' = [state EXCEPT ![j] = to]

\* Jobs that an older release had already completed start as done.
Init ==
  /\ state \in [Jobs -> {"new", "done"}]
  /\ tries = [j \in Jobs |-> 0]

Accept(j) == Become(j, "new", "ready") /\ UNCHANGED tries

Deliver(j) ==
  /\ tries[j] < MaxAttempts
  /\ Become(j, "ready", "taken")
  /\ tries' = [tries EXCEPT ![j] = @ + 1]

\* Only a job with a delivery left goes back; the others are buried.
Return(j) ==
  /\ tries[j] < MaxAttempts
  /\ Become(j, "taken", "ready")
  /\ UNCHANGED tries

Finish(j) == Become(j, "taken", "done") /\ UNCHANGED tries

Bury(j) == Become(j, "taken", "dead") /\ UNCHANGED tries

Revive(j) ==
  /\ Become(j, "dead", "ready")
  /\ tries' = [tries EXCEPT ![j] = 0]

Next ==
  \E j \in Jobs :
    \/ Accept(j)
    \/ Deliver(j)
    \/ Return(j)
    \/ Finish(j)
    \/ Bury(j)
    \/ Revive(j)

Spec == Init /\ [][Next]_vars
=============================================================================

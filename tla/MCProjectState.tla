----------------------------- MODULE MCProjectState -----------------------------
(* Values of the constants of ProjectState for TLC. *)
EXTENDS ProjectState

MCProjects == 1..2
MCWriters == 1..2
MCMemories == {1}
MCIdentities == {1}

Ask(op, kind, project, ref, identity) ==
  [op |-> op, kind |-> kind, project |-> project, ref |-> ref, status |-> "none",
   identity |-> identity]
Move(kind, project, status) ==
  [Ask("move", kind, project, None, None) EXCEPT !.status = status]

\* What people ask for by hand, and one operation of the runtime, which a second
\* time may come with another content.
MCRequests ==
  {Ask("init", "none", p, None, None) : p \in MCProjects} \union
  {Ask("set", "milestone", 1, None, None), Move("milestone", 1, "COMPLETED"),
   Ask("add", "blocker", 1, 1, None),
   Ask("refer", "none", 1, 1, 1), Ask("add", "work_item", 2, None, 1)}
=============================================================================

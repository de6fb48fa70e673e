--------------------------- MODULE MCCanonicalMemory ---------------------------
(* Values of the constants of CanonicalMemory for TLC. *)
EXTENDS CanonicalMemory

MCOps == 1..2
MCDesk == {2}
MCTool == 3
MCFacts == 1..2
MCClaims == {1}

Ask(action, text, claim, target) ==
  [action |-> action, text |-> text, claim |-> claim, target |-> target]

\* 1 is a new fact of the topic, from the worker; 2 replaces the fact the vault
\* came with, as proposed or with the claim key left out; the tool gets a batch
\* or retires a memory.
MCRequests ==
  [c \in MCOps \union {MCTool} |->
    CASE c = 1 -> {<<Ask("NEW", 2, 1, Absent)>>}
      [] c = 2 -> {<<Ask("SUPERSEDE_EXISTING", 2, k, 1)>> : k \in {1, Absent}}
      [] OTHER -> {<<Ask("NEW", 2, 1, Absent), Ask("NEW", 2, Absent, Absent)>>,
                   <<Ask("RESOLVE_EXISTING", 1, Absent, 1)>>}]

\* One fact, from before claim keys or with one.
MCSeeds ==
  {<<[text |-> 1, claim |-> k, status |-> "active", by |-> Absent,
      place |-> "validated", approved |-> TRUE, born |-> Absent]>> : k \in {Absent, 1}}
=============================================================================

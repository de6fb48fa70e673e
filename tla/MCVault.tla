------------------------------ MODULE MCVault ------------------------------
(***************************************************************************)
(* Three parts of the vault that do not share state, checked in one run:   *)
(* the initial state chooses the part that moves, the other two rest.      *)
(***************************************************************************)
EXTENDS ProjectRegistry, MaintenanceDelivery, Snapshot

VARIABLE focus

\* Fewer calls are checked of two projects than of one.
OnlyOneProject ==
  LET one == CHOOSE id \in ProjectIds : TRUE IN
  \A p \in registry'.projects \union UNION {client'[c].next : c \in Clients} : p.id = one

\* A part at rest has nothing left to do.  One fault is left when two intents
\* are open, two when one is.
FocusInit ==
  /\ RegistryInit /\ MaintenanceInit /\ SnapshotInit
  /\ focus \in {"registry", "one project", "maintenance", "snapshot"}
  /\ IF focus = "maintenance" THEN faults = Cardinality({i \in Intents : ~Known(i)}) - 1
     ELSE faults = MaxFaults /\ \A i \in Intents : Known(i)

FocusNext ==
  \/ /\ focus \in {"registry", "one project"} /\ RegistryNext
     /\ IF focus = "registry" THEN calls' < MaxCalls ELSE OnlyOneProject
     /\ UNCHANGED <<maintenanceVars, snapshotVars, focus>>
  \/ /\ focus = "maintenance" /\ MaintenanceNext
     /\ UNCHANGED <<registryVars, snapshotVars, focus>>
  \/ /\ focus = "snapshot" /\ SnapshotNext
     /\ UNCHANGED <<registryVars, maintenanceVars, focus>>

\* The fairness asks nothing of a maintenance at rest.
FocusSpec ==
  /\ FocusInit /\ [][FocusNext]_<<registryVars, maintenanceVars, snapshotVars, focus>>
  /\ MaintenanceFairness
=============================================================================

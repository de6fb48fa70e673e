--------------------------- MODULE ProjectRegistry ---------------------------
(***************************************************************************)
(* The project registry, .claude/project-registry.json with its one-step   *)
(* backup (src/brain_eleven/projects/registry.py), the runtime settings    *)
(* with their compare-and-swap and the enrollment of a project, which      *)
(* writes three files in turn (src/brain_eleven/runtime/storage.py), and   *)
(* the readers that compose a context between two looks at the registry    *)
(* and check its lineage later (projects/identity.py,                      *)
(* runtime/task_state_context.py).                                         *)
(*                                                                         *)
(* A mutation of the registry is computed under the registry's lock; then  *)
(* it writes the backup and the registry, two durable steps a crash or an  *)
(* I/O error may separate.                                                 *)
(***************************************************************************)
EXTENDS Integers, FiniteSets

CONSTANTS ProjectIds, Roots,
          NoId,                \* no identity
          Clients,             \* processes that call the registry and the settings
          Settings,            \* names of the flags in the runtime configuration
          MaxCalls             \* bound on the calls of all clients

ASSUME RegistryAssumption ==
  /\ NoId \notin ProjectIds
  /\ MaxCalls \in Nat

VARIABLES registry,      \* the registry file: revision and projects
          written,       \* the registry file exists
          backup,        \* the registry in the backup file, or NoBackup
          config,        \* the runtime configuration
          initialised,   \* projects with a project state
          client,        \* what each client is doing
          context,       \* the context the reader composed last
          previous,      \* history: the projects before the last write
          told,          \* history: what completed calls were told is in the settings
          calls          \* calls begun

registryVars == <<registry, written, backup, config, initialised, client, context,
                  previous, told, calls>>

Edits == 1 .. MaxCalls
\* A project.  edit is the revision that last set its label or its time stamp.
Project == [id : ProjectIds, root : Roots, status : {"active", "archived"},
            proactive : BOOLEAN, edit : Edits]
Document == [revision : 0 .. MaxCalls, projects : SUBSET Project]
NoBackup == [revision |-> -1, projects |-> {}]
Configuration == [flags : [Settings -> BOOLEAN], projects : SUBSET ProjectIds]

At(ps, r) == {p \in ps : p.root = r}
Named(ps, id) == {p \in ps : p.id = id}
Now == registry.revision + 1

\* _validate.
Valid(ps) ==
  \A p, q \in ps : p.id = q.id \/ p.root = q.root => p = q

NoSettings == [flags |-> [f \in Settings |-> FALSE], projects |-> {}]
Idle == [at |-> "idle", then |-> "idle", id |-> NoId, next |-> {},
         loaded |-> NoSettings, flag |-> "none", value |-> FALSE]

RegistryInit ==
  /\ registry = [revision |-> 0, projects |-> {}] /\ written = FALSE /\ backup = NoBackup
  /\ config = NoSettings
  /\ initialised = {}
  /\ client = [c \in Clients |-> Idle]
  /\ context = [at |-> "none"]
  /\ previous = {} /\ told = config /\ calls = 0

-----------------------------------------------------------------------------
(* Mutations of the registry.                                              *)

Calls(c) == client[c].at = "idle" /\ calls < MaxCalls /\ calls' = calls + 1
RegistryLocked == \E c \in Clients : client[c].at \in {"backup", "write"}

\* _persist: the backup goes first, if there is a file to back up.
Persist(c, ps, then, id) ==
  client' = [client EXCEPT ![c].at = IF written THEN "backup" ELSE "write",
                           ![c].then = then, ![c].id = id, ![c].next = ps]

\* _mutate: a callback that changes nothing writes nothing.
MutateFor(c, ps, then, id) ==
  /\ Calls(c) /\ ~RegistryLocked
  /\ ps # registry.projects /\ Valid(ps)
  /\ Persist(c, ps, then, id)
  /\ UNCHANGED <<registry, written, backup, config, initialised, context, previous, told>>

Mutate(c, ps) == MutateFor(c, ps, "idle", NoId)

Change(p, q) == (registry.projects \ {p}) \union {q}

\* register a root that is known: perhaps a new label, perhaps capture.
RegisterKnown(c, r, label, proactive) ==
  \E p \in At(registry.projects, r) :
    /\ proactive => p.status = "active"
    /\ Mutate(c, Change(p, [p EXCEPT !.edit = IF label THEN Now ELSE @,
                                     !.proactive = @ \/ proactive]))

\* register a new root under an identity no other root has.
RegisterNew(c, r, id, status, proactive) ==
  /\ At(registry.projects, r) = {} /\ Named(registry.projects, id) = {}
  /\ proactive => status = "active"
  /\ Mutate(c, registry.projects \union
               {[id |-> id, root |-> r, status |-> status, proactive |-> proactive, edit |-> Now]})

Relocate(c, id, r) ==
  \E p \in Named(registry.projects, id) :
    /\ At(registry.projects, r) \subseteq {p}
    /\ Mutate(c, Change(p, [p EXCEPT !.root = r, !.edit = Now]))

Rename(c, id) ==
  \E p \in Named(registry.projects, id) : Mutate(c, Change(p, [p EXCEPT !.edit = Now]))

\* Bug: an archived project keeps its capture.
SetStatusOnly(c, id, status) ==
  \E p \in Named(registry.projects, id) :
    Mutate(c, Change(p, [p EXCEPT !.status = status, !.edit = Now]))

SetStatus(c, id, status) ==
  \E p \in Named(registry.projects, id) :
    Mutate(c, Change(p, [p EXCEPT !.status = status, !.edit = Now,
                                  !.proactive = @ /\ status # "archived"]))

SetProactiveCapture(c, id, enabled) ==
  \E p \in Named(registry.projects, id) :
    /\ enabled => p.status = "active"
    /\ Mutate(c, Change(p, [p EXCEPT !.proactive = enabled, !.edit = Now]))

\* migrate_legacy_opt_in_config: every root of the old list is opted in, a
\* new one under a generated identity; an archived one is left alone.
OptedIn(p, roots) ==
  IF p.root \in roots /\ p.status = "active" /\ ~p.proactive
  THEN [p EXCEPT !.proactive = TRUE, !.edit = Now] ELSE p
MigrateLegacyOptIn(c, roots) ==
  LET new == {r \in roots : At(registry.projects, r) = {}} IN
  \E name \in [new -> ProjectIds] :
    /\ \A r, s \in new : name[r] = name[s] => r = s
    /\ \A r \in new : Named(registry.projects, name[r]) = {}
    /\ Mutate(c, {OptedIn(p, roots) : p \in registry.projects} \union
                 {[id |-> name[r], root |-> r, status |-> "active", proactive |-> TRUE,
                   edit |-> Now] : r \in new})

\* Bug: a backup that is there is kept.
WriteFirstBackup(c) ==
  /\ client[c].at = "backup"
  /\ backup' = IF backup = NoBackup THEN registry ELSE backup
  /\ client' = [client EXCEPT ![c].at = "write"]
  /\ UNCHANGED <<registry, written, config, initialised, context, previous, told, calls>>

WriteBackup(c) ==
  /\ client[c].at = "backup"
  /\ backup' = registry
  /\ client' = [client EXCEPT ![c].at = "write"]
  /\ UNCHANGED <<registry, written, config, initialised, context, previous, told, calls>>

WriteRegistry(c) ==
  /\ client[c].at = "write"
  /\ registry' = [revision |-> registry.revision + 1, projects |-> client[c].next]
  /\ written' = TRUE /\ previous' = registry.projects
  /\ client' = [client EXCEPT ![c] = [Idle EXCEPT !.at = client[c].then, !.id = client[c].id]]
  /\ UNCHANGED <<backup, config, initialised, context, told, calls>>

\* Bug: the restored registry comes back with the revision it was saved at.
RollbackToOldRevision(c) ==
  /\ Calls(c) /\ ~RegistryLocked
  /\ backup # NoBackup /\ backup.projects # registry.projects
  /\ registry' = backup /\ previous' = registry.projects
  /\ UNCHANGED <<written, backup, config, initialised, client, context, told>>

\* rollback: the caller names the revision it saw (another one is a conflict);
\* a registry equal to its backup is already restored; the backup stays.
Rollback(c) ==
  /\ Calls(c) /\ ~RegistryLocked
  /\ backup # NoBackup /\ backup.projects # registry.projects /\ Valid(backup.projects)
  /\ registry' = [revision |-> registry.revision + 1, projects |-> backup.projects]
  /\ previous' = registry.projects
  /\ UNCHANGED <<written, backup, config, initialised, client, context, told>>

\* proactive_capture_policy.
CapturesAt(r) == \E p \in At(registry.projects, r) : p.status = "active" /\ p.proactive

-----------------------------------------------------------------------------
(* Enrollment: the registry, the project's state, the runtime scope.       *)

\* enroll_project registers the root with capture (an archived one is
\* refused); a project that is registered so already needs no write.
EnrollRegisters(c, r, id) ==
  /\ At(registry.projects, r) = {} /\ Named(registry.projects, id) = {}
  /\ MutateFor(c, registry.projects \union
                  {[id |-> id, root |-> r, status |-> "active", proactive |-> TRUE, edit |-> Now]},
               "state", id)
EnrollOptsIn(c, r) ==
  \E p \in At(registry.projects, r) :
    /\ p.status = "active"
    /\ MutateFor(c, Change(p, [p EXCEPT !.proactive = TRUE]), "state", p.id)
EnrollFinds(c, r) ==
  \E p \in At(registry.projects, r) :
    /\ Calls(c) /\ ~RegistryLocked
    /\ p.status = "active" /\ p.proactive
    /\ client' = [client EXCEPT ![c] = [Idle EXCEPT !.at = "state", !.id = p.id]]
    /\ UNCHANGED <<registry, written, backup, config, initialised, context, previous, told>>

\* Bug: an existing state is required, a missing one is not made.
InitialiseLater(c) ==
  /\ client[c].at = "state"
  /\ client' = [client EXCEPT ![c].at = "scope"]
  /\ UNCHANGED <<registry, written, backup, config, initialised, context, previous, told, calls>>

\* init_project, if the project has no state; it refuses a project that is
\* not active in the registry by now, and with it the enrollment.
Initialise(c) ==
  /\ client[c].at = "state"
  /\ \/ /\ client[c].id \in initialised \/ \E p \in Named(registry.projects, client[c].id) : p.status = "active"
        /\ initialised' = initialised \union {client[c].id}
        /\ client' = [client EXCEPT ![c].at = "scope"]
     \/ /\ client[c].id \notin initialised
        /\ ~\E p \in Named(registry.projects, client[c].id) : p.status = "active"
        /\ client' = [client EXCEPT ![c] = Idle]
        /\ UNCHANGED initialised
  /\ client[c].id \in initialised \/ ~RegistryLocked
  /\ UNCHANGED <<registry, written, backup, config, context, previous, told, calls>>

\* _mutate_current: read, add and write under the lock of the configuration.
EnterScope(c) ==
  /\ client[c].at = "scope"
  /\ config' = [config EXCEPT !.projects = @ \union {client[c].id}]
  /\ told' = [told EXCEPT !.projects = @ \union {client[c].id}]
  /\ client' = [client EXCEPT ![c] = Idle]
  /\ UNCHANGED <<registry, written, backup, initialised, context, previous, calls>>

-----------------------------------------------------------------------------
(* Settings: each setter loads the configuration, then _commit compares    *)
(* its fingerprint under the lock.                                         *)

SetterReads(c, f, value) ==
  /\ Calls(c)
  /\ client' = [client EXCEPT ![c] = [Idle EXCEPT !.at = "setting", !.flag = f, !.value = value,
                                                 !.loaded = config]]
  /\ UNCHANGED <<registry, written, backup, config, initialised, context, previous, told>>

\* Bug: the setter writes the configuration it loaded.
CommitLoaded(c) ==
  /\ client[c].at = "setting"
  /\ LET f == client[c].flag
         v == client[c].value IN
     /\ config' = [client[c].loaded EXCEPT !.flags[f] = v]
     /\ told' = [told EXCEPT !.flags[f] = v]
  /\ client' = [client EXCEPT ![c] = Idle]
  /\ UNCHANGED <<registry, written, backup, initialised, context, previous, calls>>

\* _commit; a conflict changes nothing and is answered with an error.
Commit(c) ==
  /\ client[c].at = "setting"
  /\ LET f == client[c].flag
         v == client[c].value IN
     \/ /\ config = client[c].loaded
        /\ config' = [config EXCEPT !.flags[f] = v]
        /\ told' = [told EXCEPT !.flags[f] = v]
     \/ config # client[c].loaded /\ UNCHANGED <<config, told>>
  /\ client' = [client EXCEPT ![c] = Idle]
  /\ UNCHANGED <<registry, written, backup, initialised, context, previous, calls>>

\* A client dies, or a write of it fails.
ClientFails(c) ==
  /\ client[c].at \in {"backup", "write", "state", "scope"}
  /\ client' = [client EXCEPT ![c] = Idle]
  /\ UNCHANGED <<registry, written, backup, config, initialised, context, previous, told, calls>>

-----------------------------------------------------------------------------
(* Readers.                                                                *)

\* TaskStateComposer.compose looks the root up, reads task and state, and
\* looks again; a registry that changed in between refuses the context.
ComposeBegins(r) ==
  \E p \in At(registry.projects, r) :
    /\ context.at # "open"
    /\ context' = [at |-> "open", project |-> p, revision |-> registry.revision]
    /\ UNCHANGED <<registry, written, backup, config, initialised, client, previous, told, calls>>
ComposeEnds ==
  /\ context.at = "open"
  /\ context' = IF registry.revision = context.revision THEN [context EXCEPT !.at = "composed"]
                ELSE [at |-> "none"]
  /\ UNCHANGED <<registry, written, backup, config, initialised, client, previous, told, calls>>

\* validate_task_state_lineage, asked before every later use of the context.
LineageAccepted ==
  /\ context.at = "composed"
  /\ registry.revision = context.revision
  /\ \E p \in Named(registry.projects, context.project.id) : p.root = context.project.root

RegistryStep(c) ==
  \/ \E r \in Roots :
       \/ \E label, proactive \in BOOLEAN : RegisterKnown(c, r, label, proactive)
       \/ \E id \in ProjectIds, status \in {"active", "archived"}, proactive \in BOOLEAN :
            RegisterNew(c, r, id, status, proactive)
       \/ \E id \in ProjectIds : Relocate(c, id, r) \/ EnrollRegisters(c, r, id)
       \/ EnrollOptsIn(c, r) \/ EnrollFinds(c, r)
  \/ \E id \in ProjectIds :
       \/ Rename(c, id)
       \/ \E status \in {"active", "archived"} : SetStatus(c, id, status)
       \/ \E enabled \in BOOLEAN : SetProactiveCapture(c, id, enabled)
  \/ \E roots \in SUBSET Roots : MigrateLegacyOptIn(c, roots)
  \/ WriteBackup(c) \/ WriteRegistry(c) \/ Rollback(c)
  \/ Initialise(c) \/ EnterScope(c)
  \/ \E f \in Settings, value \in BOOLEAN : SetterReads(c, f, value)
  \/ Commit(c) \/ ClientFails(c)

RegistryNext ==
  \/ \E c \in Clients : RegistryStep(c)
  \/ \E r \in Roots : ComposeBegins(r)
  \/ ComposeEnds

RegistrySpec == RegistryInit /\ [][RegistryNext]_registryVars

-----------------------------------------------------------------------------
(* Properties.                                                             *)

\* No sequence of calls, crashes and rollbacks leaves a registry or a backup
\* in which two projects share an identity or a root, or an archived project
\* captures: _validate checks the first and nothing checks the second
\* (proactive_capture_policy alone fails closed).
Sound(ps) ==
  /\ Valid(ps)
  /\ \A p \in ps : p.status = "archived" => ~p.proactive
\* The registry, its backup and every document on its way to the file are
\* sound, whatever was rolled back or left half done.
RegistrySound ==
  /\ Sound(registry.projects) /\ Sound(backup.projects)
  /\ \A c \in Clients : client[c].at \in {"backup", "write"} => Sound(client[c].next)

\* A rollback goes back one completed change at most: a crash between the
\* two files, or a rollback of a rollback, never brings an older registry.
BackupIsRecent ==
  backup = NoBackup \/ backup.projects \in {registry.projects, previous}

\* A context whose lineage is accepted is about the project as it was when
\* the context was composed: no revision is ever used for two registries,
\* not even by a rollback.
LineageIsCurrent == LineageAccepted => context.project \in registry.projects

\* All three: what a reader, a rollback or the holder of a context relies on.
RegistryIsKept == RegistrySound /\ BackupIsRecent /\ LineageIsCurrent

\* Settings and scope hold what every successful call was told, whatever
\* the command line and the service change at the same time.
NoSettingLost == config = told

\* A project in the runtime's scope has a state, although enrollment writes
\* three files and may stop between any two.
ScopeIsInitialised == config.projects \subseteq initialised

\* Both: what the runtime is allowed to do and where.
ConfigurationIsKept == NoSettingLost /\ ScopeIsInitialised
=============================================================================

----------------------------- MODULE VaultProofs -----------------------------
(***************************************************************************)
(* What the registry of projects, the runtime configuration, maintenance   *)
(* and the backup keep true, for any number of projects, roots, clients,   *)
(* settings, intents, workers and files.  The parts share no state; each   *)
(* has its own specification and its own section.                          *)
(***************************************************************************)
EXTENDS ProjectRegistry, MaintenanceDelivery, Snapshot, TLAPS

-----------------------------------------------------------------------------
(* The registry and the configuration.                                     *)

ClientStates ==
  [at : {"idle", "backup", "write", "state", "scope", "setting"}, then : {"idle", "state"},
   id : ProjectIds \union {NoId}, next : SUBSET Project, loaded : Configuration,
   flag : Settings \union {"none"}, value : BOOLEAN]
Contexts ==
  [at : {"none"}] \union [at : {"open", "composed"}, project : Project, revision : 0 .. MaxCalls]

RegistryTypes ==
  /\ registry \in Document /\ written \in BOOLEAN
  /\ backup \in Document \union {NoBackup}
  /\ config \in Configuration /\ told \in Configuration
  /\ initialised \subseteq ProjectIds
  /\ client \in [Clients -> ClientStates]
  /\ context \in Contexts
  /\ previous \subseteq Project
  /\ calls \in 0 .. MaxCalls

Writing(c) == client[c].at \in {"backup", "write"}

\* Every revision was paid for by a call; a client that writes has paid for
\* the revision that it is about to make.
RevisionsCounted ==
  /\ registry.revision <= calls
  /\ \A c \in Clients : Writing(c) => registry.revision < calls

\* An enrollment knows its project.
EnrollmentNamed ==
  \A c \in Clients :
    /\ client[c].at \in {"state", "scope"} \/ client[c].then = "state" => client[c].id \in ProjectIds
    /\ client[c].at = "scope" => client[c].id \in initialised

\* One client writes at a time, and what it writes last is the registry: the
\* backup is then what the registry was.
OneWriter ==
  /\ \A c, d \in Clients : Writing(c) /\ Writing(d) => c = d
  /\ ~written => backup = NoBackup
  /\ \A c \in Clients : /\ client[c].at = "backup" => written
                        /\ client[c].at = "write" /\ written => backup.projects = registry.projects

\* What a reader saw is true of the revision at which it saw it.
ContextIsTrue ==
  context.at # "none" => /\ context.revision <= registry.revision
                         /\ context.revision = registry.revision => context.project \in registry.projects

RegistryInv ==
  /\ RegistryTypes /\ RevisionsCounted /\ EnrollmentNamed /\ OneWriter
  /\ RegistrySound /\ BackupIsRecent /\ ContextIsTrue
  /\ ConfigurationIsKept

LEMMA RegistryStart == RegistryInit => RegistryInv
  <1> SUFFICES ASSUME RegistryInit  PROVE RegistryInv
    OBVIOUS
  <1> USE RegistryAssumption DEF RegistryInit
  <1>1. NoSettings \in Configuration
    BY DEF NoSettings, Configuration
  <1>2. Idle \in ClientStates
    BY <1>1 DEF Idle, ClientStates
  <1>3. RegistryTypes
    <2>1. registry \in Document /\ backup \in {NoBackup} /\ calls \in 0 .. MaxCalls
      BY DEF Document
    <2>2. context \in Contexts
      BY DEF Contexts
    <2>3. client \in [Clients -> ClientStates]
      BY <1>2
    <2> QED
      BY <1>1, <2>1, <2>2, <2>3 DEF RegistryTypes
  <1>4. RevisionsCounted /\ EnrollmentNamed /\ OneWriter /\ ContextIsTrue
    BY DEF RevisionsCounted, EnrollmentNamed, OneWriter, ContextIsTrue, Writing, Idle
  <1>5. RegistrySound /\ BackupIsRecent
    BY DEF RegistrySound, BackupIsRecent, Sound, Valid, NoBackup, Idle
  <1>6. ConfigurationIsKept
    BY DEF ConfigurationIsKept, NoSettingLost, ScopeIsInitialised, NoSettings
  <1> QED
    BY <1>3, <1>4, <1>5, <1>6 DEF RegistryInv

\* A write that is due is a revision of its own.
LEMMA NowIsEdit ==
  ASSUME RegistryInv, NEW c \in Clients, Calls(c)
  PROVE  Now \in Edits /\ calls' \in 0 .. MaxCalls
  BY RegistryAssumption DEF RegistryInv, RegistryTypes, RevisionsCounted, Document, Calls, Now, Edits

\* Whatever a mutation computes, if it is sound it may be written.
LEMMA MutationKeeps ==
  ASSUME RegistryInv, NEW c \in Clients, NEW ps \in SUBSET Project,
         NEW then \in {"idle", "state"}, NEW id \in ProjectIds \union {NoId},
         then = "state" => id \in ProjectIds,
         MutateFor(c, ps, then, id),
         \A p \in ps : p.status = "archived" => ~p.proactive
  PROVE  RegistryInv'
  <1>1. /\ Calls(c) /\ ~RegistryLocked /\ Valid(ps) /\ Persist(c, ps, then, id)
        /\ UNCHANGED <<registry, written, backup, config, initialised, context, previous, told>>
    BY DEF MutateFor
  <1> DEFINE at == IF written THEN "backup" ELSE "write"
  <1>2. client' = [client EXCEPT ![c] = [client[c] EXCEPT !.at = at, !.then = then, !.id = id, !.next = ps]]
    BY <1>1 DEF Persist
  <1>3. /\ client'[c].at = at /\ client'[c].then = then /\ client'[c].id = id /\ client'[c].next = ps
        /\ \A d \in Clients \ {c} : client'[d] = client[d]
        /\ client' \in [Clients -> ClientStates]
    <2>1. client \in [Clients -> ClientStates]
      BY DEF RegistryInv, RegistryTypes
    <2> HIDE DEF at
    <2>2. at \in {"backup", "write"}
      BY DEF at
    <2>3. [client[c] EXCEPT !.at = at, !.then = then, !.id = id, !.next = ps] \in ClientStates
      BY <2>1, <2>2 DEF ClientStates
    <2> QED
      BY <1>2, <2>1, <2>3 DEF ClientStates
  <1>4. \A d \in Clients : ~Writing(d)
    BY <1>1 DEF RegistryLocked, Writing
  <1>5. RegistryTypes'
    BY <1>1, <1>3, NowIsEdit DEF RegistryInv, RegistryTypes
  <1>6. RevisionsCounted'
    BY <1>1, <1>3, <1>4 DEF RegistryInv, RegistryTypes, RevisionsCounted, Writing, Calls, Document
  <1>7. EnrollmentNamed'
    BY <1>1, <1>3 DEF RegistryInv, EnrollmentNamed
  <1>8. OneWriter'
    BY <1>1, <1>3, <1>4 DEF RegistryInv, OneWriter, Writing
  <1>9. RegistrySound'
    BY <1>1, <1>3, <1>4 DEF RegistryInv, RegistrySound, Sound, Writing
  <1>10. BackupIsRecent' /\ ContextIsTrue' /\ ConfigurationIsKept'
    BY <1>1 DEF RegistryInv, BackupIsRecent, ContextIsTrue, ConfigurationIsKept, NoSettingLost, ScopeIsInitialised
  <1> QED
    BY <1>5, <1>6, <1>7, <1>8, <1>9, <1>10 DEF RegistryInv

\* The call of every mutation, and its project as it stands.
LEMMA Registered ==
  ASSUME RegistryInv, NEW p \in registry.projects
  PROVE  p \in Project /\ (p.status = "archived" => ~p.proactive)
  BY DEF RegistryInv, RegistryTypes, Document, RegistrySound, Sound

LEMMA ChangeKeeps ==
  ASSUME RegistryInv, NEW c \in Clients, NEW p \in registry.projects, NEW q \in Project,
         q.status = "archived" => ~q.proactive,
         NEW then \in {"idle", "state"}, NEW id \in ProjectIds \union {NoId},
         then = "state" => id \in ProjectIds,
         MutateFor(c, Change(p, q), then, id)
  PROVE  RegistryInv'
  <1>1. Change(p, q) \in SUBSET Project /\ \A x \in Change(p, q) : x.status = "archived" => ~x.proactive
    BY Registered DEF Change
  <1> QED
    BY <1>1, MutationKeeps

LEMMA AdditionKeeps ==
  ASSUME RegistryInv, NEW c \in Clients, NEW q \in Project,
         q.status = "archived" => ~q.proactive,
         NEW then \in {"idle", "state"}, NEW id \in ProjectIds \union {NoId},
         then = "state" => id \in ProjectIds,
         MutateFor(c, registry.projects \union {q}, then, id)
  PROVE  RegistryInv'
  <1> DEFINE ps == registry.projects \union {q}
  <1>1. ps \in SUBSET Project /\ \A x \in ps : x.status = "archived" => ~x.proactive
    BY Registered
  <1> QED
    BY <1>1, MutationKeeps

LEMMA MutationsKeep ==
  ASSUME RegistryInv, NEW c \in Clients,
         \/ \E r \in Roots :
              \/ \E label, proactive \in BOOLEAN : RegisterKnown(c, r, label, proactive)
              \/ \E id \in ProjectIds, status \in {"active", "archived"}, proactive \in BOOLEAN :
                   RegisterNew(c, r, id, status, proactive)
              \/ \E id \in ProjectIds : Relocate(c, id, r) \/ EnrollRegisters(c, r, id)
              \/ EnrollOptsIn(c, r)
         \/ \E id \in ProjectIds :
              \/ Rename(c, id)
              \/ \E status \in {"active", "archived"} : SetStatus(c, id, status)
              \/ \E enabled \in BOOLEAN : SetProactiveCapture(c, id, enabled)
         \/ \E roots \in SUBSET Roots : MigrateLegacyOptIn(c, roots)
  PROVE  RegistryInv'
  <1>0. ASSUME NEW ps, NEW i, NEW then, MutateFor(c, ps, then, i)  PROVE Now \in Edits
    BY <1>0, NowIsEdit DEF MutateFor
  <1> USE DEF Mutate
  <1>1. ASSUME NEW r \in Roots, NEW label \in BOOLEAN, NEW proactive \in BOOLEAN,
               RegisterKnown(c, r, label, proactive)
       PROVE RegistryInv'
    <2>1. PICK p \in registry.projects :
            /\ proactive => p.status = "active"
            /\ Mutate(c, Change(p, [p EXCEPT !.edit = IF label THEN Now ELSE @,
                                             !.proactive = @ \/ proactive]))
      BY <1>1 DEF RegisterKnown, At
    <2>2. Now \in Edits
      BY <1>0, <2>1
    <2>3. p.proactive \/ proactive \in BOOLEAN
      OBVIOUS
    <2> DEFINE q == [p EXCEPT !.edit = IF label THEN Now ELSE @, !.proactive = @ \/ proactive]
    <2>4. q \in Project /\ (q.status = "archived" => ~q.proactive)
      BY <2>1, <2>2, Registered DEF Project
    <2> QED
      BY <2>1, <2>4, ChangeKeeps
  <1>2. ASSUME NEW r \in Roots, NEW id \in ProjectIds, NEW status \in {"active", "archived"},
               NEW proactive \in BOOLEAN, RegisterNew(c, r, id, status, proactive)
       PROVE RegistryInv'
    <2> DEFINE q == [id |-> id, root |-> r, status |-> status, proactive |-> proactive, edit |-> Now]
    <2>1. (proactive => status = "active") /\ Mutate(c, registry.projects \union {q})
      BY <1>2 DEF RegisterNew
    <2>2. q \in Project /\ (q.status = "archived" => ~q.proactive)
      BY <1>0, <2>1 DEF Project
    <2> QED
      BY <2>1, <2>2, AdditionKeeps
  <1>3. ASSUME NEW r \in Roots, NEW id \in ProjectIds, Relocate(c, id, r)  PROVE RegistryInv'
    <2>1. PICK p \in registry.projects : Mutate(c, Change(p, [p EXCEPT !.root = r, !.edit = Now]))
      BY <1>3 DEF Relocate, Named
    <2> DEFINE q == [p EXCEPT !.root = r, !.edit = Now]
    <2>2. q \in Project /\ (q.status = "archived" => ~q.proactive)
      BY <1>0, <2>1, Registered DEF Project
    <2> QED
      BY <2>1, <2>2, ChangeKeeps
  <1>4. ASSUME NEW id \in ProjectIds, Rename(c, id)  PROVE RegistryInv'
    <2>1. PICK p \in registry.projects : Mutate(c, Change(p, [p EXCEPT !.edit = Now]))
      BY <1>4 DEF Rename, Named
    <2> DEFINE q == [p EXCEPT !.edit = Now]
    <2>2. q \in Project /\ (q.status = "archived" => ~q.proactive)
      BY <1>0, <2>1, Registered DEF Project
    <2> QED
      BY <2>1, <2>2, ChangeKeeps
  <1>5. ASSUME NEW id \in ProjectIds, NEW status \in {"active", "archived"}, SetStatus(c, id, status)
       PROVE RegistryInv'
    <2>1. PICK p \in registry.projects :
            Mutate(c, Change(p, [p EXCEPT !.status = status, !.edit = Now,
                                          !.proactive = @ /\ status # "archived"]))
      BY <1>5 DEF SetStatus, Named
    <2> DEFINE q == [p EXCEPT !.status = status, !.edit = Now, !.proactive = @ /\ status # "archived"]
    <2>2. q \in Project /\ (q.status = "archived" => ~q.proactive)
      BY <1>0, <2>1, Registered DEF Project
    <2> QED
      BY <2>1, <2>2, ChangeKeeps
  <1>6. ASSUME NEW id \in ProjectIds, NEW proactive \in BOOLEAN, SetProactiveCapture(c, id, proactive)
       PROVE RegistryInv'
    <2>1. PICK p \in registry.projects :
            /\ proactive => p.status = "active"
            /\ Mutate(c, Change(p, [p EXCEPT !.proactive = proactive, !.edit = Now]))
      BY <1>6 DEF SetProactiveCapture, Named
    <2> DEFINE q == [p EXCEPT !.proactive = proactive, !.edit = Now]
    <2>2. q \in Project /\ (q.status = "archived" => ~q.proactive)
      BY <1>0, <2>1, Registered DEF Project
    <2> QED
      BY <2>1, <2>2, ChangeKeeps
  <1>7. ASSUME NEW roots \in SUBSET Roots, MigrateLegacyOptIn(c, roots)  PROVE RegistryInv'
    <2> DEFINE new == {x \in roots : At(registry.projects, x) = {}}
               added(name) == {[id |-> name[x], root |-> x, status |-> "active", proactive |-> TRUE,
                                edit |-> Now] : x \in new}
    <2>1. PICK name \in [new -> ProjectIds] :
            Mutate(c, {OptedIn(p, roots) : p \in registry.projects} \union added(name))
      BY <1>7 DEF MigrateLegacyOptIn
    <2>2. Now \in Edits
      BY <1>0, <2>1
    <2>3. \A p \in registry.projects :
            OptedIn(p, roots) \in Project /\ (OptedIn(p, roots).status = "archived" => ~OptedIn(p, roots).proactive)
      BY <2>2, Registered DEF OptedIn, Project
    <2>4. \A q \in added(name) : q \in Project /\ q.status = "active"
      <3>1. \A x \in new : x \in Roots /\ name[x] \in ProjectIds
        OBVIOUS
      <3> TAKE q \in added(name)
      <3>2. PICK x \in new : q = [id |-> name[x], root |-> x, status |-> "active", proactive |-> TRUE, edit |-> Now]
        OBVIOUS
      <3> HIDE DEF new
      <3>3. x \in Roots /\ name[x] \in ProjectIds
        BY <3>1
      <3> QED
        BY <2>2, <3>2, <3>3 DEF Project
    <2> DEFINE ps == {OptedIn(p, roots) : p \in registry.projects} \union added(name)
    <2>5. ps \in SUBSET Project /\ \A x \in ps : x.status = "archived" => ~x.proactive
      BY <2>3, <2>4
    <2> HIDE DEF ps
    <2> QED
      BY <2>1, <2>5, MutationKeeps DEF ps
  <1>8. ASSUME NEW r \in Roots, NEW id \in ProjectIds, EnrollRegisters(c, r, id)  PROVE RegistryInv'
    <2> DEFINE q == [id |-> id, root |-> r, status |-> "active", proactive |-> TRUE, edit |-> Now]
    <2>1. MutateFor(c, registry.projects \union {q}, "state", id)
      BY <1>8 DEF EnrollRegisters
    <2>2. q \in Project /\ (q.status = "archived" => ~q.proactive)
      BY <1>0, <2>1 DEF Project
    <2> QED
      BY <2>1, <2>2, AdditionKeeps
  <1>9. ASSUME NEW r \in Roots, EnrollOptsIn(c, r)  PROVE RegistryInv'
    <2>1. PICK p \in registry.projects :
            /\ p.status = "active" /\ MutateFor(c, Change(p, [p EXCEPT !.proactive = TRUE]), "state", p.id)
      BY <1>9 DEF EnrollOptsIn, At
    <2> DEFINE q == [p EXCEPT !.proactive = TRUE]
    <2>2. q \in Project /\ (q.status = "archived" => ~q.proactive) /\ p.id \in ProjectIds
      BY <2>1, Registered DEF Project
    <2> QED
      BY <2>1, <2>2, ChangeKeeps
  <1> QED
    BY <1>1, <1>2, <1>3, <1>4, <1>5, <1>6, <1>7, <1>8, <1>9

\* What a client may become without touching the registry.
LEMMA ClientKeeps ==
  ASSUME RegistryInv, NEW c \in Clients, NEW new \in ClientStates,
         client' = [client EXCEPT ![c] = new],
         new.at \notin {"backup", "write"},
         new.at \in {"state", "scope"} \/ new.then = "state" => new.id \in ProjectIds,
         new.at = "scope" => new.id \in initialised',
         initialised \subseteq initialised', initialised' \subseteq ProjectIds,
         calls' \in {calls, calls + 1}, calls' <= MaxCalls,
         UNCHANGED <<registry, written, backup, context, previous>>,
         config' = told', config' \in Configuration, config'.projects \subseteq initialised'
  PROVE  RegistryInv'
  <1>1. /\ client' \in [Clients -> ClientStates] /\ client'[c] = new
        /\ \A d \in Clients \ {c} : client'[d] = client[d]
    BY DEF RegistryInv, RegistryTypes
  <1>2. RegistryTypes'
    BY <1>1, RegistryAssumption DEF RegistryInv, RegistryTypes
  <1>3. RevisionsCounted'
    BY <1>1, RegistryAssumption DEF RegistryInv, RegistryTypes, RevisionsCounted, Writing, Document
  <1>4. EnrollmentNamed'
    BY <1>1 DEF RegistryInv, EnrollmentNamed
  <1>5. OneWriter'
    BY <1>1 DEF RegistryInv, OneWriter, Writing
  <1>6. RegistrySound' /\ BackupIsRecent' /\ ContextIsTrue'
    BY <1>1 DEF RegistryInv, RegistrySound, BackupIsRecent, ContextIsTrue
  <1>7. ConfigurationIsKept'
    BY DEF ConfigurationIsKept, NoSettingLost, ScopeIsInitialised
  <1> QED
    BY <1>2, <1>3, <1>4, <1>5, <1>6, <1>7 DEF RegistryInv

LEMMA IdleIsState == Idle \in ClientStates /\ Idle.at = "idle" /\ Idle.then = "idle"
  <1>1. NoSettings \in Configuration
    BY DEF NoSettings, Configuration
  <1> QED
    BY <1>1 DEF Idle, ClientStates

LEMMA ConfigurationHeld ==
  ASSUME RegistryInv
  PROVE  /\ config = told /\ config \in Configuration /\ config.projects \subseteq initialised
         /\ initialised \subseteq ProjectIds /\ calls \in Nat /\ calls <= MaxCalls
         /\ client \in [Clients -> ClientStates]
  BY RegistryAssumption DEF RegistryInv, RegistryTypes, ConfigurationIsKept, NoSettingLost, ScopeIsInitialised

LEMMA EnrollmentKeeps ==
  ASSUME RegistryInv, NEW c \in Clients,
         (\E r \in Roots : EnrollFinds(c, r)) \/ Initialise(c) \/ EnterScope(c)
  PROVE  RegistryInv'
  <1> USE ConfigurationHeld, IdleIsState
  <1>1. ASSUME NEW r \in Roots, EnrollFinds(c, r)  PROVE RegistryInv'
    <2>1. PICK p \in registry.projects :
            /\ Calls(c) /\ client' = [client EXCEPT ![c] = [Idle EXCEPT !.at = "state", !.id = p.id]]
            /\ UNCHANGED <<registry, written, backup, config, initialised, context, previous, told>>
      BY <1>1 DEF EnrollFinds, At
    <2> DEFINE new == [Idle EXCEPT !.at = "state", !.id = p.id]
    <2>2. p.id \in ProjectIds
      BY Registered DEF Project
    <2>3. new \in ClientStates /\ new.at = "state" /\ new.id = p.id
      BY <2>2 DEF ClientStates
    <2>4. calls' = calls + 1 /\ calls' <= MaxCalls
      BY <2>1, RegistryAssumption DEF Calls
    <2> HIDE DEF new
    <2> QED
      BY <2>1, <2>2, <2>3, <2>4, ClientKeeps DEF new
  <1>2. CASE Initialise(c)
    <2>1. client[c].at = "state" /\ client[c].id \in ProjectIds
      BY <1>2 DEF Initialise, RegistryInv, EnrollmentNamed
    <2>2. UNCHANGED <<registry, written, backup, config, context, previous, told, calls>>
      BY <1>2 DEF Initialise
    <2>3. CASE /\ initialised' = initialised \union {client[c].id}
               /\ client' = [client EXCEPT ![c].at = "scope"]
      <3> DEFINE new == [client[c] EXCEPT !.at = "scope"]
      <3>1. /\ client' = [client EXCEPT ![c] = new] /\ new \in ClientStates
            /\ new.at = "scope" /\ new.id = client[c].id
        BY <2>3 DEF ClientStates
      <3> HIDE DEF new
      <3> QED
        BY <2>1, <2>2, <2>3, <3>1, ClientKeeps
    <2>4. CASE client' = [client EXCEPT ![c] = Idle] /\ UNCHANGED initialised
      BY <2>2, <2>4, ClientKeeps
    <2> QED
      BY <1>2, <2>3, <2>4 DEF Initialise
  <1>3. CASE EnterScope(c)
    <2>1. client[c].id \in ProjectIds /\ client[c].id \in initialised
      BY <1>3 DEF EnterScope, RegistryInv, EnrollmentNamed
    <2>2. config' = told' /\ config' \in Configuration /\ config'.projects = config.projects \union {client[c].id}
      BY <1>3, <2>1 DEF EnterScope, Configuration
    <2> QED
      BY <1>3, <2>1, <2>2, ClientKeeps DEF EnterScope
  <1> QED
    BY <1>1, <1>2, <1>3

LEMMA SettingsKeep ==
  ASSUME RegistryInv, NEW c \in Clients,
         (\E f \in Settings, value \in BOOLEAN : SetterReads(c, f, value)) \/ Commit(c) \/ ClientFails(c)
  PROVE  RegistryInv'
  <1> USE ConfigurationHeld, IdleIsState
  <1>1. ASSUME NEW f \in Settings, NEW value \in BOOLEAN, SetterReads(c, f, value)  PROVE RegistryInv'
    <2> DEFINE new == [Idle EXCEPT !.at = "setting", !.flag = f, !.value = value, !.loaded = config]
    <2>1. new \in ClientStates /\ new.at = "setting" /\ new.then = "idle"
      BY DEF ClientStates
    <2>2. calls' = calls + 1 /\ calls' <= MaxCalls
      <3>1. Calls(c)
        BY <1>1 DEF SetterReads
      <3> QED
        BY <3>1, RegistryAssumption DEF Calls
    <2>3. client' = [client EXCEPT ![c] = new]
      BY <1>1 DEF SetterReads
    <2> HIDE DEF new
    <2> QED
      BY <1>1, <2>1, <2>2, <2>3, ClientKeeps DEF SetterReads
  <1>2. CASE Commit(c)
    <2>1. client' = [client EXCEPT ![c] = Idle]
          /\ UNCHANGED <<registry, written, backup, initialised, context, previous, calls>>
      BY <1>2 DEF Commit
    <2>2. CASE UNCHANGED <<config, told>>
      BY <2>1, <2>2, ClientKeeps
    <2>3. CASE /\ config' = [config EXCEPT !.flags[client[c].flag] = client[c].value]
               /\ told' = [told EXCEPT !.flags[client[c].flag] = client[c].value]
      <3>1. client[c].value \in BOOLEAN
        BY DEF ClientStates
      <3>2. config' = told' /\ config' \in Configuration /\ config'.projects = config.projects
        BY <2>3, <3>1 DEF Configuration
      <3> QED
        BY <2>1, <3>2, ClientKeeps
    <2> QED
      BY <1>2, <2>2, <2>3 DEF Commit
  <1>3. CASE ClientFails(c)
    BY <1>3, ClientKeeps DEF ClientFails
  <1> QED
    BY <1>1, <1>2, <1>3

LEMMA WritesKeep ==
  ASSUME RegistryInv, NEW c \in Clients, WriteBackup(c) \/ WriteRegistry(c) \/ Rollback(c)
  PROVE  RegistryInv'
  <1> USE RegistryAssumption
  <1>1. CASE WriteBackup(c)
    <2>1. /\ client[c].at = "backup" /\ backup' = registry
          /\ client' = [client EXCEPT ![c] = [client[c] EXCEPT !.at = "write"]]
          /\ UNCHANGED <<registry, written, config, initialised, context, previous, told, calls>>
      BY <1>1 DEF WriteBackup
    <2>2. /\ client' \in [Clients -> ClientStates]
          /\ client'[c].at = "write" /\ client'[c].then = client[c].then
          /\ client'[c].id = client[c].id /\ client'[c].next = client[c].next
          /\ \A d \in Clients \ {c} : client'[d] = client[d] /\ ~Writing(d)
      <3>1. client \in [Clients -> ClientStates] /\ Writing(c)
        BY <2>1 DEF RegistryInv, RegistryTypes, Writing
      <3>2. [client[c] EXCEPT !.at = "write"] \in ClientStates
        BY <3>1 DEF ClientStates
      <3>3. \A d \in Clients \ {c} : ~Writing(d)
        BY <3>1 DEF RegistryInv, OneWriter
      <3> QED
        BY <2>1, <3>1, <3>2, <3>3 DEF ClientStates
    <2>3. written
      BY <2>1 DEF RegistryInv, OneWriter
    <2>4. RegistryTypes'
      BY <2>1, <2>2 DEF RegistryInv, RegistryTypes
    <2>5. RevisionsCounted' /\ EnrollmentNamed'
      BY <2>1, <2>2 DEF RegistryInv, RevisionsCounted, EnrollmentNamed, Writing
    <2>6. OneWriter'
      BY <2>1, <2>2, <2>3 DEF RegistryInv, OneWriter, Writing
    <2>7. RegistrySound'
      BY <2>1, <2>2 DEF RegistryInv, RegistrySound
    <2>8. BackupIsRecent' /\ ContextIsTrue' /\ ConfigurationIsKept'
      BY <2>1 DEF RegistryInv, BackupIsRecent, ContextIsTrue, ConfigurationIsKept, NoSettingLost, ScopeIsInitialised
    <2> QED
      BY <2>4, <2>5, <2>6, <2>7, <2>8 DEF RegistryInv
  <1>2. CASE WriteRegistry(c)
    <2> DEFINE new == [Idle EXCEPT !.at = client[c].then, !.id = client[c].id]
    <2>1. /\ client[c].at = "write"
          /\ registry' = [revision |-> registry.revision + 1, projects |-> client[c].next]
          /\ written' = TRUE /\ previous' = registry.projects
          /\ client' = [client EXCEPT ![c] = new]
          /\ UNCHANGED <<backup, config, initialised, context, told, calls>>
      BY <1>2 DEF WriteRegistry
    <2>2. client \in [Clients -> ClientStates] /\ Writing(c)
      BY <2>1 DEF RegistryInv, RegistryTypes, Writing
    <2>3. new \in ClientStates /\ new.at = client[c].then /\ new.id = client[c].id /\ new.then = "idle"
      BY <2>2, IdleIsState DEF ClientStates
    <2> HIDE DEF new
    <2>4. /\ client' \in [Clients -> ClientStates] /\ client'[c] = new
          /\ \A d \in Clients \ {c} : client'[d] = client[d] /\ ~Writing(d)
      BY <2>1, <2>2, <2>3 DEF RegistryInv, OneWriter
    <2>5. client[c].then \in {"idle", "state"} /\ client[c].next \subseteq Project
      BY <2>2 DEF ClientStates
    <2>6. /\ registry.revision \in Nat /\ registry.revision < calls /\ calls \in Nat /\ calls <= MaxCalls
          /\ registry.projects \subseteq Project
      BY <2>2 DEF RegistryInv, RegistryTypes, RevisionsCounted, Document
    <2>7. /\ registry'.revision = registry.revision + 1 /\ registry'.projects = client[c].next
          /\ registry' \in Document
      BY <2>1, <2>5, <2>6 DEF Document
    <2>8. RegistryTypes'
      BY <2>1, <2>4, <2>6, <2>7 DEF RegistryInv, RegistryTypes
    <2>9. RevisionsCounted'
      BY <2>1, <2>3, <2>4, <2>5, <2>6, <2>7 DEF RevisionsCounted, Writing
    <2>10. EnrollmentNamed'
      BY <2>1, <2>3, <2>4, <2>5 DEF RegistryInv, EnrollmentNamed
    <2>11. OneWriter'
      BY <2>1, <2>3, <2>4, <2>5 DEF RegistryInv, OneWriter, Writing
    <2>12. RegistrySound'
      BY <2>1, <2>3, <2>4, <2>5, <2>7 DEF RegistryInv, RegistrySound, Writing
    <2>13. BackupIsRecent'
      BY <2>1 DEF RegistryInv, OneWriter, BackupIsRecent
    <2>14. ContextIsTrue'
      BY <2>1, <2>6, <2>7 DEF RegistryInv, RegistryTypes, Contexts, ContextIsTrue
    <2>15. ConfigurationIsKept'
      BY <2>1 DEF RegistryInv, ConfigurationIsKept, NoSettingLost, ScopeIsInitialised
    <2> QED
      BY <2>8, <2>9, <2>10, <2>11, <2>12, <2>13, <2>14, <2>15 DEF RegistryInv
  <1>3. CASE Rollback(c)
    <2>1. /\ Calls(c) /\ ~RegistryLocked /\ backup # NoBackup
          /\ registry' = [revision |-> registry.revision + 1, projects |-> backup.projects]
          /\ previous' = registry.projects
          /\ UNCHANGED <<written, backup, config, initialised, client, context, told>>
      BY <1>3 DEF Rollback
    <2>2. \A d \in Clients : ~Writing(d)
      BY <2>1 DEF RegistryLocked, Writing
    <2>3. /\ registry.revision \in Nat /\ registry.revision <= calls /\ calls \in Nat /\ calls < MaxCalls
          /\ calls' = calls + 1 /\ registry.projects \subseteq Project
          /\ backup \in Document
      BY <2>1 DEF RegistryInv, RegistryTypes, RevisionsCounted, Document, Calls
    <2>4. /\ registry'.revision = registry.revision + 1 /\ registry'.projects = backup.projects
          /\ registry' \in Document
      BY <2>1, <2>3 DEF Document
    <2>5. RegistryTypes'
      BY <2>1, <2>3, <2>4 DEF RegistryInv, RegistryTypes
    <2>6. RevisionsCounted' /\ EnrollmentNamed' /\ OneWriter'
      BY <2>1, <2>2, <2>3, <2>4 DEF RegistryInv, RevisionsCounted, EnrollmentNamed, OneWriter, Writing
    <2>7. RegistrySound'
      BY <2>1, <2>4 DEF RegistryInv, RegistrySound
    <2>8. BackupIsRecent'
      BY <2>1, <2>4 DEF BackupIsRecent
    <2>9. ContextIsTrue'
      BY <2>1, <2>3, <2>4 DEF RegistryInv, RegistryTypes, Contexts, ContextIsTrue
    <2>10. ConfigurationIsKept'
      BY <2>1 DEF RegistryInv, ConfigurationIsKept, NoSettingLost, ScopeIsInitialised
    <2> QED
      BY <2>5, <2>6, <2>7, <2>8, <2>9, <2>10 DEF RegistryInv
  <1> QED
    BY <1>1, <1>2, <1>3

LEMMA ReadersKeep ==
  ASSUME RegistryInv, (\E r \in Roots : ComposeBegins(r)) \/ ComposeEnds
  PROVE  RegistryInv'
  <1> USE RegistryAssumption
  <1>1. UNCHANGED <<registry, written, backup, config, initialised, client, previous, told, calls>>
    BY DEF ComposeBegins, ComposeEnds
  <1>2. registry.revision \in 0 .. MaxCalls /\ registry.projects \subseteq Project
    BY DEF RegistryInv, RegistryTypes, Document
  <1>3. ASSUME NEW r \in Roots, ComposeBegins(r)  PROVE RegistryInv'
    <2>1. PICK p \in registry.projects :
            context' = [at |-> "open", project |-> p, revision |-> registry.revision]
      BY <1>3 DEF ComposeBegins, At
    <2> QED
      <3>1. context' \in Contexts /\ ContextIsTrue'
        BY <1>1, <1>2, <2>1 DEF Contexts, ContextIsTrue
      <3>2. RegistryTypes'
        BY <1>1, <3>1 DEF RegistryInv, RegistryTypes
      <3> QED
        BY <1>1, <3>1, <3>2 DEF RegistryInv, RevisionsCounted, EnrollmentNamed, OneWriter, Writing,
           RegistrySound, BackupIsRecent, ConfigurationIsKept, NoSettingLost, ScopeIsInitialised
  <1>4. CASE ComposeEnds
    <2>1. context' \in Contexts /\ ContextIsTrue'
      BY <1>1, <1>4 DEF ComposeEnds, RegistryInv, RegistryTypes, Contexts, ContextIsTrue
    <2>2. RegistryTypes'
      BY <1>1, <2>1 DEF RegistryInv, RegistryTypes
    <2> QED
      BY <1>1, <2>1, <2>2 DEF RegistryInv, RevisionsCounted, EnrollmentNamed, OneWriter, Writing,
         RegistrySound, BackupIsRecent, ConfigurationIsKept, NoSettingLost, ScopeIsInitialised
  <1> QED
    BY <1>3, <1>4

LEMMA RegistryStutters ==
  ASSUME RegistryInv, UNCHANGED registryVars
  PROVE  RegistryInv'
  BY DEF registryVars, RegistryInv, RegistryTypes, RevisionsCounted, EnrollmentNamed, OneWriter, Writing,
     RegistrySound, BackupIsRecent, ContextIsTrue, ConfigurationIsKept, NoSettingLost, ScopeIsInitialised

\* The registry, its backup, the writes under way, the contexts of readers and
\* the settings fit each other in every state.
THEOREM RegistryInvariant == RegistrySpec => []RegistryInv
  <1>1. RegistryInv /\ [RegistryNext]_registryVars => RegistryInv'
    <2> SUFFICES ASSUME RegistryInv, [RegistryNext]_registryVars  PROVE RegistryInv'
      OBVIOUS
    <2>1. ASSUME NEW c \in Clients, RegistryStep(c)  PROVE RegistryInv'
      <3>1. CASE WriteBackup(c) \/ WriteRegistry(c) \/ Rollback(c)
        BY <3>1, WritesKeep
      <3>2. CASE (\E r \in Roots : EnrollFinds(c, r)) \/ Initialise(c) \/ EnterScope(c)
        BY <3>2, EnrollmentKeeps
      <3>3. CASE (\E f \in Settings, value \in BOOLEAN : SetterReads(c, f, value)) \/ Commit(c) \/ ClientFails(c)
        BY <3>3, SettingsKeep
      <3> QED
        BY <2>1, <3>1, <3>2, <3>3, MutationsKeep DEF RegistryStep
    <2> QED
      BY <2>1, ReadersKeep, RegistryStutters DEF RegistryNext
  <1> QED
    BY <1>1, RegistryStart, PTL DEF RegistrySpec

\* Type correctness of ProjectRegistry.
THEOREM RegistryTypesHold == RegistrySpec => []RegistryTypes
  <1>1. RegistryInv => RegistryTypes
    BY DEF RegistryInv
  <1> QED
    BY <1>1, RegistryInvariant, PTL

\* No sequence of calls, crashes and rollbacks makes a registry or backup with
\* a shared identity or root, takes a rollback further back than one change, or
\* lets a context pass that is about another project than the registry has.
THEOREM RegistryKept == RegistrySpec => []RegistryIsKept
  <1>1. RegistryInv => RegistryIsKept
    BY DEF RegistryInv, RegistryIsKept, LineageIsCurrent, LineageAccepted, ContextIsTrue
  <1> QED
    BY <1>1, RegistryInvariant, PTL

\* The settings hold what every successful call was told, and a project in the
\* scope of the runtime has a state.
THEOREM ConfigurationKept == RegistrySpec => []ConfigurationIsKept
  <1>1. RegistryInv => ConfigurationIsKept
    BY DEF RegistryInv
  <1> QED
    BY <1>1, RegistryInvariant, PTL

-----------------------------------------------------------------------------
(* The backup.                                                             *)

FileNames == {"canonical", "registry", "settings", "state"}
File == [revision : Nat, scopes : SUBSET Scopes]
Contents == [FileNames -> File]
BackupStates ==
  [at : {"idle", "first", "second", "compare", "archive", "write", "sync", "created", "error"},
   attempt : 0 .. MaxAttempts, next : 1 .. 5, first : Contents, second : Contents]

SnapshotTypes ==
  /\ vault \in Contents /\ target \in Contents
  /\ writes \in 0 .. MaxWrites /\ crashes \in 0 .. MaxCrashes
  /\ saving \in BackupStates
  /\ archive \in [by : {"nobody", "backup", "rival"}, files : Contents]
  /\ copying \in [at : {"idle", "staging"}, next : 1 .. 5, files : Contents]
  /\ moments \subseteq [Authorities -> File]

\* The order of the contents of an authority: a revision is never used twice.
Below(a, b) == a.revision <= b.revision /\ (a.revision = b.revision => a = b)

\* What a pass has read before its step n.
ReadBefore(n) == {Sources[i] : i \in 1 .. (n - 1)}

\* m lies between the first pass and what the second has read.
Between(m) ==
  \A f \in Authorities :
    /\ Below(saving.first[f], m[f]) /\ Below(m[f], vault[f])
    /\ saving.at = "compare" \/ f \in ReadBefore(saving.next) =>
         Below(m[f], saving.second[f]) /\ Below(saving.second[f], vault[f])

\* The two passes: everything the first has read was so when it was read, and
\* between the passes there was one moment.
PassesAreTrue ==
  /\ saving.at \in {"first", "second", "compare", "archive", "write", "sync"} => Authority(vault) \in moments
  /\ saving.at = "first" =>
       \A f \in Authorities \cap ReadBefore(saving.next) : Below(saving.first[f], vault[f])
  /\ saving.at \in {"second", "compare"} => \E m \in moments : Between(m)
  /\ saving.at \in {"archive", "write"} => Authority(saving.second) \in moments

\* Who is making the archive durable has put it there; a copy, whole or under
\* way, is of an archive that stays.
CopiesAreTrue ==
  /\ archive.by = "nobody" => archive = NoArchive
  /\ saving.at = "sync" => archive.by = "backup"
  /\ copying.at = "staging" =>
       /\ archive.by # "nobody" /\ saving.at # "sync"
       /\ \A f \in ReadBefore(copying.next) : copying.files[f] = archive.files[f]
  /\ target # Nothing => archive.by # "nobody" /\ saving.at # "sync"

SnapshotInv ==
  SnapshotTypes /\ PassesAreTrue /\ CopiesAreTrue /\ ArchiveIsAMoment /\ RestoredIsWhole

LEMMA SourceFacts ==
  /\ \A i \in 1 .. 4 : Sources[i] \in FileNames
  /\ ReadBefore(1) = {} /\ ReadBefore(5) = FileNames /\ Authorities \subseteq FileNames
  /\ \A i \in 1 .. 4 : ReadBefore(i + 1) = ReadBefore(i) \union {Sources[i]}
  <1>1. Sources[1] = "canonical" /\ Sources[2] = "registry" /\ Sources[3] = "settings" /\ Sources[4] = "state"
    BY DEF Sources
  <1>2. \A i \in 1 .. 4 : i = 1 \/ i = 2 \/ i = 3 \/ i = 4
    OBVIOUS
  <1>3. \A i \in 1 .. 4 : Sources[i] \in FileNames
    BY <1>1, <1>2 DEF FileNames
  <1>4. ReadBefore(1) = {}
    BY DEF ReadBefore
  <1>5. \A i \in 1 .. 4 : ReadBefore(i + 1) = ReadBefore(i) \union {Sources[i]}
    <2> TAKE i \in 1 .. 4
    <2>1. 1 .. (i + 1 - 1) = (1 .. (i - 1)) \union {i}
      OBVIOUS
    <2> QED
      BY <2>1 DEF ReadBefore
  <1>6. ReadBefore(5) = FileNames
    <2>1. ReadBefore(2) = {"canonical"}
      BY <1>1, <1>4, <1>5
    <2>2. ReadBefore(3) = {"canonical", "registry"}
      BY <1>1, <1>5, <2>1
    <2>3. ReadBefore(4) = {"canonical", "registry", "settings"}
      BY <1>1, <1>5, <2>2
    <2> QED
      BY <1>1, <1>5, <2>3 DEF FileNames
  <1> QED
    BY <1>3, <1>4, <1>5, <1>6 DEF Authorities, FileNames

LEMMA BelowIsAnOrder ==
  /\ \A a \in File : Below(a, a)
  /\ \A a, b, d \in File : Below(a, b) /\ Below(b, d) => Below(a, d)
  /\ \A a, b \in File : Below(a, b) /\ Below(b, a) => a = b
  BY DEF Below, File

LEMMA ContentFacts ==
  /\ NoFile \in File /\ Nothing \in Contents
  /\ \A files \in Contents : Authority(files) \in [Authorities -> File]
                              /\ \A f \in Authorities : Authority(files)[f] = files[f]
  <1>1. NoFile \in File
    BY DEF NoFile, File
  <1>2. Nothing \in Contents
    BY <1>1 DEF Nothing, Contents, FileNames
  <1> QED
    BY <1>1, <1>2, SourceFacts DEF Authority, Contents

LEMMA QuietFacts ==
  /\ Quiet.at = "idle" /\ Quiet.attempt = 0 /\ Quiet.next = 1 /\ Quiet \in BackupStates
  /\ Copy.at = "idle" /\ Copy.next = 1 /\ Copy \in [at : {"idle", "staging"}, next : 1 .. 5, files : Contents]
  /\ NoArchive.by = "nobody" /\ NoArchive \in [by : {"nobody", "backup", "rival"}, files : Contents]
  BY ContentFacts, SnapshotAssumption DEF Quiet, Copy, NoArchive, BackupStates

\* What the updates of create_backup make of its state.
BackupSteps == {"idle", "first", "second", "compare", "archive", "write", "sync", "created", "error"}

LEMMA MovesTo ==
  ASSUME NEW s \in BackupStates, NEW n \in 1 .. 5, NEW at \in BackupSteps
  PROVE  LET new == [s EXCEPT !.at = at, !.next = n] IN
         /\ new \in BackupStates
         /\ new.at = at /\ new.next = n /\ new.first = s.first /\ new.second = s.second
  <1> DEFINE mid == [s EXCEPT !.at = at]
             new == [mid EXCEPT !.next = n]
  <1>1. mid \in BackupStates /\ mid.at = at /\ mid.first = s.first /\ mid.second = s.second
    BY DEF BackupStates, BackupSteps
  <1> HIDE DEF mid
  <1>2. new \in BackupStates /\ new.at = at /\ new.next = n /\ new.first = s.first /\ new.second = s.second
    BY <1>1 DEF BackupStates
  <1> QED
    BY <1>2 DEF mid

LEMMA TriesAgain ==
  ASSUME NEW n \in 0 .. MaxAttempts, NEW at \in BackupSteps
  PROVE  LET new == [Quiet EXCEPT !.at = at, !.attempt = n] IN
         new \in BackupStates /\ new.at = at /\ new.next = 1
  <1> DEFINE mid == [Quiet EXCEPT !.at = at]
             new == [mid EXCEPT !.attempt = n]
  <1>1. mid \in BackupStates /\ mid.at = at /\ mid.next = 1
    BY QuietFacts DEF BackupStates, BackupSteps
  <1> HIDE DEF mid
  <1>2. new \in BackupStates /\ new.at = at /\ new.next = 1
    BY <1>1 DEF BackupStates
  <1> QED
    BY <1>2 DEF mid

LEMMA SnapshotStart == SnapshotInit => SnapshotInv
  <1> SUFFICES ASSUME SnapshotInit  PROVE SnapshotInv
    OBVIOUS
  <1> USE QuietFacts, ContentFacts, SnapshotAssumption DEF SnapshotInit
  <1>1. vault \in Contents
    BY DEF Contents, File, FileNames
  <1>2. SnapshotTypes
    BY <1>1 DEF SnapshotTypes
  <1> QED
    BY <1>2 DEF SnapshotInv, PassesAreTrue, CopiesAreTrue, ArchiveIsAMoment, RestoredIsWhole

\* An owner makes what it writes the newest.
LEMMA OwnersKeep ==
  ASSUME SnapshotInv, NEW f \in FileNames, NEW content \in File,
         f \in Authorities => Below(vault[f], content), OwnerWrites(f, content)
  PROVE  SnapshotInv'
  <1>1. /\ writes < MaxWrites /\ writes' = writes + 1 /\ vault' = [vault EXCEPT ![f] = content]
        /\ moments' = moments \union {Authority(vault')}
        /\ UNCHANGED <<saving, archive, target, copying, crashes>>
    BY DEF OwnerWrites
  <1>2. vault \in Contents /\ vault' \in Contents
    BY <1>1 DEF SnapshotInv, SnapshotTypes, Contents
  <1>3. \A g \in Authorities : vault[g] \in File /\ vault'[g] \in File /\ Below(vault[g], vault'[g])
    BY <1>1, <1>2, SourceFacts, BelowIsAnOrder DEF Contents
  <1>4. SnapshotTypes'
    <2>1. writes' \in 0 .. MaxWrites
      BY <1>1, SnapshotAssumption DEF SnapshotInv, SnapshotTypes
    <2>2. moments' \subseteq [Authorities -> File]
      <3>1. Authority(vault') \in [Authorities -> File]
        BY <1>2, ContentFacts
      <3>2. moments \subseteq [Authorities -> File]
        BY DEF SnapshotInv, SnapshotTypes
      <3> QED
        BY <1>1, <3>1, <3>2
    <2> QED
      BY <1>1, <1>2, <2>1, <2>2 DEF SnapshotInv, SnapshotTypes
  <1>5. \A g \in Authorities : saving.first[g] \in File /\ saving.second[g] \in File
    BY SourceFacts DEF SnapshotInv, SnapshotTypes, BackupStates, Contents
  <1>6. ASSUME NEW m \in moments, Between(m)  PROVE Between(m)'
    <2>1. \A g \in Authorities : m[g] \in File
      BY DEF SnapshotInv, SnapshotTypes
    <2> QED
      BY <1>1, <1>3, <1>5, <1>6, <2>1, BelowIsAnOrder DEF Between
  <1>7. PassesAreTrue'
    BY <1>1, <1>3, <1>5, <1>6, BelowIsAnOrder DEF SnapshotInv, PassesAreTrue
  <1>8. CopiesAreTrue' /\ ArchiveIsAMoment' /\ RestoredIsWhole'
    BY <1>1 DEF SnapshotInv, CopiesAreTrue, ArchiveIsAMoment, RestoredIsWhole
  <1> QED
    BY <1>4, <1>7, <1>8 DEF SnapshotInv

LEMMA OwnerStepsKeep ==
  ASSUME SnapshotInv, \/ \E p \in Scopes : Registers(p) \/ RollsBack(p) \/ Remembers(p) \/ Tracks(p)
                      \/ \E n \in {1, 2} : Sets(n)
  PROVE  SnapshotInv'
  <1>1. vault \in Contents
    BY DEF SnapshotInv, SnapshotTypes
  <1>2. ASSUME NEW f \in FileNames, NEW scopes \in SUBSET Scopes, Renews(f, scopes)  PROVE SnapshotInv'
    <2> DEFINE content == [revision |-> vault[f].revision + 1, scopes |-> scopes]
    <2>1. vault[f] \in File
      BY <1>1 DEF Contents
    <2>2. content \in File /\ Below(vault[f], content)
      BY <2>1 DEF File, Below
    <2>3. OwnerWrites(f, content)
      BY <1>2 DEF Renews
    <2> QED
      BY <2>2, <2>3, OwnersKeep
  <1>3. ASSUME NEW n \in {1, 2}, Sets(n)  PROVE SnapshotInv'
    <2> DEFINE content == [revision |-> n, scopes |-> {}]
    <2>1. OwnerWrites("settings", content) /\ content \in File
      BY <1>3 DEF Sets, File
    <2> QED
      BY <2>1, OwnersKeep DEF FileNames, Authorities
  <1>4. \A f \in FileNames : vault[f].scopes \subseteq Scopes
    BY <1>1 DEF Contents, File
  <1>5. ASSUME NEW p \in Scopes, Registers(p) \/ RollsBack(p) \/ Remembers(p) \/ Tracks(p)
        PROVE  SnapshotInv'
    <2>1. PICK f \in FileNames, scopes \in SUBSET Scopes : Renews(f, scopes)
      BY <1>4, <1>5 DEF Registers, RollsBack, Remembers, Tracks, FileNames
    <2> QED
      BY <1>2, <2>1
  <1> QED
    BY <1>3, <1>5

\* What a step of the backup leaves alone.
LEMMA BackupKeeps ==
  ASSUME SnapshotInv, NEW new \in BackupStates, BackupDoes(new),
         archive' = archive, new.at # "sync",
         moments' \subseteq [Authorities -> File], PassesAreTrue', ArchiveIsAMoment'
  PROVE  SnapshotInv'
  <1>1. saving' = new /\ UNCHANGED <<vault, writes, target, copying, crashes>>
    BY DEF BackupDoes
  <1>2. SnapshotTypes'
    BY <1>1 DEF SnapshotInv, SnapshotTypes
  <1>3. CopiesAreTrue' /\ RestoredIsWhole'
    BY <1>1 DEF SnapshotInv, CopiesAreTrue, RestoredIsWhole
  <1> QED
    BY <1>2, <1>3 DEF SnapshotInv

\* To give up is always possible.
LEMMA GivingUpKeeps ==
  ASSUME SnapshotInv, NEW new \in BackupStates, BackupDoes(new),
         new.at \in {"idle", "error"}, archive' = archive, moments' = moments
  PROVE  SnapshotInv'
  <1>1. saving' = new
    BY DEF BackupDoes
  <1>2. PassesAreTrue' /\ ArchiveIsAMoment'
    BY <1>1 DEF PassesAreTrue, ArchiveIsAMoment
  <1> QED
    BY <1>2, BackupKeeps DEF SnapshotInv, SnapshotTypes

LEMMA PassesKeep ==
  ASSUME SnapshotInv, StartsAttempt \/ ReadsFile("first") \/ ReadsFile("second")
  PROVE  SnapshotInv'
  <1> USE SourceFacts, BelowIsAnOrder, ContentFacts
  <1>1. /\ vault \in Contents /\ saving \in BackupStates /\ moments \subseteq [Authorities -> File]
        /\ saving.first \in Contents /\ saving.second \in Contents
        /\ PassesAreTrue /\ ArchiveIsAMoment
    BY DEF SnapshotInv, SnapshotTypes, BackupStates
  <1>2. CASE StartsAttempt
    <2> DEFINE new == [Quiet EXCEPT !.at = "first", !.attempt = saving.attempt + 1]
    <2>1. /\ saving.attempt < MaxAttempts /\ moments' = {Authority(vault)}
          /\ BackupDoes(new) /\ archive' = archive
      BY <1>2 DEF StartsAttempt
    <2>2. new \in BackupStates /\ new.at = "first" /\ new.next = 1
      <3>1. saving.attempt + 1 \in 0 .. MaxAttempts
        BY <1>1, <2>1, SnapshotAssumption DEF BackupStates
      <3> QED
        BY <3>1, TriesAgain DEF BackupSteps
    <2> HIDE DEF new
    <2>3. saving' = new /\ vault' = vault
      BY <2>1 DEF BackupDoes
    <2>4. PassesAreTrue' /\ ArchiveIsAMoment'
      BY <2>1, <2>2, <2>3 DEF PassesAreTrue, ArchiveIsAMoment
    <2> QED
      BY <1>1, <2>1, <2>2, <2>4, BackupKeeps
  <1>3. CASE ReadsFile("first")
    <2> DEFINE i == saving.next
               f == Sources[i]
               new == [saving EXCEPT !["first"][f] = vault[f], !.next = i + 1]
    <2>1. saving.at = "first" /\ i \in 1 .. 4 /\ archive' = archive /\ moments' = moments
      <3>1. saving.next \in 1 .. 5 /\ saving.at = "first" /\ saving.next <= 4 /\ UNCHANGED <<archive, moments>>
        BY <1>1, <1>3 DEF ReadsFile, BackupStates
      <3> QED
        BY <3>1
    <2>2. f \in FileNames /\ vault[f] \in File
      BY <1>1, <2>1 DEF Contents
    <2>3. BackupDoes(new)
      BY <1>3 DEF ReadsFile
    <2>4. /\ new \in BackupStates /\ new.at = "first" /\ new.next = i + 1
          /\ new.first = [saving.first EXCEPT ![f] = vault[f]]
      <3> DEFINE read == [saving.first EXCEPT ![f] = vault[f]]
                 mid == [saving EXCEPT !.first = read]
      <3>1. read \in Contents /\ i + 1 \in 1 .. 5
        BY <1>1, <2>1, <2>2 DEF Contents
      <3>2. saving["first"] = saving.first
        BY <1>1 DEF BackupStates
      <3> HIDE DEF read, f, i
      <3>3. mid \in BackupStates /\ mid.at = "first" /\ mid.first = read /\ mid.second = saving.second
        BY <1>1, <2>1, <3>1 DEF BackupStates
      <3> HIDE DEF mid
      <3>4. /\ [mid EXCEPT !.next = i + 1] \in BackupStates
            /\ [mid EXCEPT !.next = i + 1].at = "first" /\ [mid EXCEPT !.next = i + 1].next = i + 1
            /\ [mid EXCEPT !.next = i + 1].first = read /\ [mid EXCEPT !.next = i + 1].second = saving.second
        BY <3>1, <3>3 DEF BackupStates
      <3> QED
        BY <3>2, <3>4 DEF mid, read
    <2> HIDE DEF new
    <2>5. /\ new.first[f] = vault[f]
          /\ \A g \in FileNames \ {f} : new.first[g] = saving.first[g]
          /\ ReadBefore(new.next) = ReadBefore(saving.next) \union {f}
      <3>1. ReadBefore(i + 1) = ReadBefore(i) \union {f}
        BY <2>1
      <3> HIDE DEF f
      <3> QED
        BY <1>1, <2>2, <2>4, <3>1 DEF Contents
    <2> HIDE DEF f, i
    <2>6. saving' = new /\ vault' = vault
      BY <2>3 DEF BackupDoes
    <2>7. PassesAreTrue' /\ ArchiveIsAMoment'
      BY <1>1, <2>1, <2>2, <2>4, <2>5, <2>6 DEF PassesAreTrue, ArchiveIsAMoment
    <2> QED
      BY <1>1, <2>1, <2>3, <2>4, <2>7, BackupKeeps
  <1>4. CASE ReadsFile("second")
    <2> DEFINE i == saving.next
               f == Sources[i]
               new == [saving EXCEPT !["second"][f] = vault[f], !.next = i + 1]
    <2>1. saving.at = "second" /\ i \in 1 .. 4 /\ archive' = archive /\ moments' = moments
      <3>1. saving.next \in 1 .. 5 /\ saving.at = "second" /\ saving.next <= 4 /\ UNCHANGED <<archive, moments>>
        BY <1>1, <1>4 DEF ReadsFile, BackupStates
      <3> QED
        BY <3>1
    <2>2. f \in FileNames /\ vault[f] \in File
      BY <1>1, <2>1 DEF Contents
    <2>3. BackupDoes(new)
      BY <1>4 DEF ReadsFile
    <2>4. /\ new \in BackupStates /\ new.at = "second" /\ new.next = i + 1 /\ new.first = saving.first
          /\ new.second = [saving.second EXCEPT ![f] = vault[f]]
      <3> DEFINE read == [saving.second EXCEPT ![f] = vault[f]]
                 mid == [saving EXCEPT !.second = read]
      <3>1. read \in Contents /\ i + 1 \in 1 .. 5
        BY <1>1, <2>1, <2>2 DEF Contents
      <3>2. saving["second"] = saving.second
        BY <1>1 DEF BackupStates
      <3> HIDE DEF read, f, i
      <3>3. mid \in BackupStates /\ mid.at = "second" /\ mid.second = read /\ mid.first = saving.first
        BY <1>1, <2>1, <3>1 DEF BackupStates
      <3> HIDE DEF mid
      <3>4. /\ [mid EXCEPT !.next = i + 1] \in BackupStates
            /\ [mid EXCEPT !.next = i + 1].at = "second" /\ [mid EXCEPT !.next = i + 1].next = i + 1
            /\ [mid EXCEPT !.next = i + 1].second = read /\ [mid EXCEPT !.next = i + 1].first = saving.first
        BY <3>1, <3>3 DEF BackupStates
      <3> QED
        BY <3>2, <3>4 DEF mid, read
    <2> HIDE DEF new
    <2>5. /\ new.second[f] = vault[f]
          /\ \A g \in FileNames \ {f} : new.second[g] = saving.second[g]
          /\ ReadBefore(new.next) = ReadBefore(saving.next) \union {f}
      <3>1. ReadBefore(i + 1) = ReadBefore(i) \union {f}
        BY <2>1
      <3> HIDE DEF f
      <3> QED
        BY <1>1, <2>2, <2>4, <3>1 DEF Contents
    <2> HIDE DEF f, i
    <2>6. saving' = new /\ vault' = vault
      BY <2>3 DEF BackupDoes
    <2>7. ASSUME NEW m \in moments, Between(m)  PROVE Between(m)'
      BY <1>1, <2>1, <2>2, <2>4, <2>5, <2>6, <2>7 DEF Between
    <2>8. PassesAreTrue' /\ ArchiveIsAMoment'
      BY <1>1, <2>1, <2>4, <2>6, <2>7 DEF PassesAreTrue, ArchiveIsAMoment
    <2> QED
      BY <1>1, <2>1, <2>3, <2>4, <2>8, BackupKeeps
  <1> QED
    BY <1>2, <1>3, <1>4

LEMMA PassEndsKeep ==
  ASSUME SnapshotInv, EndsPass("first", "second") \/ EndsPass("second", "compare") \/ TakesTooLong
  PROVE  SnapshotInv'
  <1>0. ASSUME NEW at \in {"second", "compare"}
        PROVE  LET new == [saving EXCEPT !.at = at, !.next = 1] IN
               /\ new \in BackupStates
               /\ new.at = at /\ new.next = 1 /\ new.first = saving.first /\ new.second = saving.second
    <2>1. 1 \in 1 .. 5 /\ at \in BackupSteps /\ saving \in BackupStates
      BY DEF BackupSteps, SnapshotInv, SnapshotTypes
    <2> QED
      BY <2>1, MovesTo, Zenon
  <1> USE SourceFacts, BelowIsAnOrder, ContentFacts
  <1>1. /\ vault \in Contents /\ saving \in BackupStates /\ moments \subseteq [Authorities -> File]
        /\ saving.first \in Contents /\ saving.second \in Contents
        /\ PassesAreTrue /\ ArchiveIsAMoment
    BY DEF SnapshotInv, SnapshotTypes, BackupStates
  <1>2. UNCHANGED <<archive, moments>>
    BY DEF EndsPass, TakesTooLong
  <1>3. CASE BackupDoes([Quiet EXCEPT !.at = "error"])
    <2>1. [Quiet EXCEPT !.at = "error"] \in BackupStates
      BY QuietFacts DEF BackupStates
    <2> QED
      BY <1>2, <1>3, <2>1, GivingUpKeeps, QuietFacts DEF BackupStates
  <1>4. ASSUME saving.at = "first", saving.next = 5,
               BackupDoes([saving EXCEPT !.at = "second", !.next = 1])
        PROVE  SnapshotInv'
    <2> DEFINE new == [saving EXCEPT !.at = "second", !.next = 1]
    <2>1. new \in BackupStates /\ new.at = "second" /\ new.next = 1 /\ new.first = saving.first
      BY <1>0, Zenon
    <2> HIDE DEF new
    <2>2. saving' = new /\ vault' = vault
      BY <1>4 DEF BackupDoes, new
    <2>3. PICK m \in moments : \A f \in Authorities : m[f] = vault[f] /\ vault[f] \in File
      BY <1>1, <1>4 DEF PassesAreTrue, Contents
    <2>4. \A f \in Authorities : Below(saving.first[f], vault[f])
      BY <1>1, <1>4 DEF PassesAreTrue
    <2>5. Between(m)'
      <3>1. saving'.at = "second" /\ ReadBefore(saving'.next) = {} /\ saving'.first = saving.first
        BY <2>1, <2>2
      <3> QED
        BY <2>2, <2>3, <2>4, <3>1 DEF Between
    <2>6. PassesAreTrue' /\ ArchiveIsAMoment'
      BY <1>1, <1>2, <1>4, <2>1, <2>2, <2>3, <2>5 DEF PassesAreTrue, ArchiveIsAMoment
    <2> QED
      BY <1>1, <1>2, <1>4, <2>1, <2>6, BackupKeeps DEF new
  <1>5. ASSUME saving.at = "second", saving.next = 5,
               BackupDoes([saving EXCEPT !.at = "compare", !.next = 1])
        PROVE  SnapshotInv'
    <2> DEFINE new == [saving EXCEPT !.at = "compare", !.next = 1]
    <2>1. /\ new \in BackupStates /\ new.at = "compare" /\ new.first = saving.first
          /\ new.second = saving.second
      BY <1>0, Zenon
    <2> HIDE DEF new
    <2>2. saving' = new /\ vault' = vault
      BY <1>5 DEF BackupDoes, new
    <2>3. ASSUME NEW m \in moments, Between(m)  PROVE Between(m)'
      BY <1>5, <2>1, <2>2, <2>3 DEF Between
    <2>4. PassesAreTrue' /\ ArchiveIsAMoment'
      BY <1>1, <1>2, <1>5, <2>1, <2>2, <2>3 DEF PassesAreTrue, ArchiveIsAMoment
    <2> QED
      BY <1>1, <1>2, <1>5, <2>1, <2>4, BackupKeeps DEF new
  <1> QED
    BY <1>3, <1>4, <1>5 DEF EndsPass, TakesTooLong

\* Two passes that agree have read one moment.
LEMMA EqualPassesAreAMoment ==
  ASSUME SnapshotInv, saving.at = "compare", saving.first = saving.second
  PROVE  Authority(saving.second) \in moments
  <1>1. PICK m \in moments : Between(m)
    BY DEF SnapshotInv, PassesAreTrue
  <1>2. /\ m \in [Authorities -> File]
        /\ saving.second \in Contents
        /\ \A f \in Authorities : saving.second[f] \in File
    BY SourceFacts DEF SnapshotInv, SnapshotTypes, BackupStates, Contents
  <1>3. \A f \in Authorities : m[f] = saving.second[f]
    BY <1>1, <1>2, BelowIsAnOrder DEF Between
  <1>4. m = Authority(saving.second)
    BY <1>2, <1>3 DEF Authority
  <1> QED
    BY <1>4

LEMMA ArchivingKeeps ==
  ASSUME SnapshotInv, Compares \/ Prepares \/ PublishesArchive \/ Syncs \/ RivalPublishes
  PROVE  SnapshotInv'
  <1> USE ContentFacts, QuietFacts, SnapshotAssumption
  <1>1. /\ vault \in Contents /\ saving \in BackupStates /\ moments \subseteq [Authorities -> File]
        /\ saving.first \in Contents /\ saving.second \in Contents
        /\ PassesAreTrue /\ ArchiveIsAMoment /\ CopiesAreTrue /\ RestoredIsWhole
    BY DEF SnapshotInv, SnapshotTypes, BackupStates
  <1>2. ASSUME NEW at \in {"idle", "error"}, NEW n \in 0 .. MaxAttempts,
               BackupDoes([Quiet EXCEPT !.at = at, !.attempt = n]), UNCHANGED <<archive, moments>>
        PROVE  SnapshotInv'
    <2> DEFINE new == [Quiet EXCEPT !.at = at, !.attempt = n]
    <2>1. new \in BackupStates /\ new.at = at
      <3>1. at \in BackupSteps
        BY DEF BackupSteps
      <3> QED
        BY <3>1, TriesAgain, Zenon
    <2> HIDE DEF new
    <2> QED
      BY <1>2, <2>1, GivingUpKeeps DEF new
  <1>3. ASSUME BackupDoes([Quiet EXCEPT !.at = "error"]), UNCHANGED <<archive, moments>>
        PROVE  SnapshotInv'
    <2>1. [Quiet EXCEPT !.at = "error"] \in BackupStates
      BY DEF BackupStates
    <2> QED
      BY <1>3, <2>1, GivingUpKeeps DEF BackupStates
  <1>4. ASSUME NEW to \in {"archive", "write", "created"},
               saving.at \in {"compare", "archive", "sync"},
               to \in {"archive", "write"} => Authority(saving.second) \in moments,
               to = "created" => saving.at = "sync",
               BackupDoes([saving EXCEPT !.at = to]), UNCHANGED <<archive, moments>>
        PROVE  SnapshotInv'
    <2> DEFINE new == [saving EXCEPT !.at = to]
    <2>1. new \in BackupStates /\ new.at = to /\ new.second = saving.second
      BY <1>1 DEF BackupStates
    <2> HIDE DEF new
    <2>2. saving' = new /\ vault' = vault
      BY <1>4 DEF BackupDoes, new
    <2>3. PassesAreTrue'
      BY <1>1, <1>4, <2>1, <2>2 DEF PassesAreTrue
    <2>4. ArchiveIsAMoment'
      BY <1>1, <1>4, <2>1, <2>2 DEF ArchiveIsAMoment
    <2> QED
      BY <1>1, <1>4, <2>1, <2>3, <2>4, BackupKeeps DEF new
  <1>5. CASE Compares
    <2>1. saving.at = "compare" /\ UNCHANGED <<archive, moments>>
      BY <1>5 DEF Compares
    <2>2. CASE saving.first = saving.second
      BY <1>4, <1>5, <2>1, <2>2, EqualPassesAreAMoment DEF Compares
    <2>3. CASE saving.first # saving.second
      <3> DEFINE at == IF saving.attempt = MaxAttempts THEN "error" ELSE "idle"
      <3>1. BackupDoes([Quiet EXCEPT !.at = at, !.attempt = saving.attempt])
        BY <1>5, <2>3 DEF Compares
      <3>2. at \in {"idle", "error"} /\ saving.attempt \in 0 .. MaxAttempts
        BY <1>1 DEF BackupStates
      <3> HIDE DEF at
      <3> QED
        BY <1>2, <2>1, <3>1, <3>2
    <2> QED
      BY <2>2, <2>3
  <1>6. CASE Prepares
    <2>1. saving.at = "archive" /\ UNCHANGED <<archive, moments>> /\ Authority(saving.second) \in moments
      BY <1>1, <1>6 DEF Prepares, PassesAreTrue
    <2>2. CASE archive = NoArchive
      <3>1. BackupDoes([saving EXCEPT !.at = "write"])
        BY <1>6, <2>2 DEF Prepares
      <3> QED
        BY <1>4, <2>1, <3>1
    <2>3. CASE archive # NoArchive
      <3> DEFINE new == [saving EXCEPT !.at = "error"]
      <3>1. BackupDoes(new)
        BY <1>6, <2>3 DEF Prepares
      <3>2. new \in BackupStates /\ new.at = "error"
        BY <1>1 DEF BackupStates
      <3> HIDE DEF new
      <3> QED
        BY <2>1, <3>1, <3>2, GivingUpKeeps
    <2> QED
      BY <2>2, <2>3
  <1>7. CASE PublishesArchive
    <2>1. CASE archive = NoArchive
      <3> DEFINE new == [saving EXCEPT !.at = "sync"]
      <3>1. /\ saving.at = "write" /\ moments' = moments /\ Authority(saving.second) \in moments
            /\ archive' = [by |-> "backup", files |-> saving.second]
            /\ saving' = new /\ UNCHANGED <<vault, writes, target, copying, crashes>>
        BY <1>1, <1>7, <2>1 DEF PublishesArchive, BackupDoes, PassesAreTrue
      <3>2. new \in BackupStates /\ new.at = "sync" /\ archive'.by = "backup" /\ archive'.files = saving.second
        BY <1>1, <3>1 DEF BackupStates
      <3> HIDE DEF new
      <3>3. copying.at # "staging" /\ target = Nothing
        BY <1>1, <2>1 DEF CopiesAreTrue
      <3>4. SnapshotTypes'
        BY <1>1, <3>1, <3>2 DEF SnapshotInv, SnapshotTypes
      <3>5. PassesAreTrue'
        BY <1>1, <3>1, <3>2 DEF PassesAreTrue
      <3> QED
        BY <3>1, <3>2, <3>3, <3>4, <3>5 DEF SnapshotInv, CopiesAreTrue, ArchiveIsAMoment, RestoredIsWhole
    <2>2. CASE archive # NoArchive
      BY <1>3, <1>7, <2>2 DEF PublishesArchive
    <2> QED
      BY <2>1, <2>2
  <1>8. CASE Syncs
    <2>1. saving.at = "sync" /\ moments' = moments
      BY <1>8 DEF Syncs
    <2>2. CASE UNCHANGED archive /\ BackupDoes([saving EXCEPT !.at = "created"])
      BY <1>4, <2>1, <2>2
    <2>3. CASE archive' = NoArchive /\ BackupDoes([Quiet EXCEPT !.at = "error"])
      <3> DEFINE new == [Quiet EXCEPT !.at = "error"]
      <3>1. saving' = new /\ UNCHANGED <<vault, writes, target, copying, crashes>>
        BY <2>3 DEF BackupDoes
      <3>2. new \in BackupStates /\ new.at = "error"
        BY DEF BackupStates
      <3> HIDE DEF new
      <3>3. copying.at # "staging" /\ target = Nothing
        BY <1>1, <2>1 DEF CopiesAreTrue
      <3>4. SnapshotTypes'
        BY <2>1, <2>3, <3>1, <3>2 DEF SnapshotInv, SnapshotTypes
      <3> QED
        BY <2>3, <3>1, <3>2, <3>3, <3>4 DEF SnapshotInv, PassesAreTrue, CopiesAreTrue, ArchiveIsAMoment, RestoredIsWhole
    <2> QED
      BY <1>8, <2>2, <2>3 DEF Syncs
  <1>9. CASE RivalPublishes
    <2> DEFINE files == [Nothing EXCEPT !["canonical"].revision = 1]
    <2>1. /\ archive = NoArchive /\ saving.at \in {"archive", "write"}
          /\ archive' = [by |-> "rival", files |-> files]
          /\ UNCHANGED <<vault, writes, saving, target, copying, crashes, moments>>
      BY <1>9 DEF RivalPublishes
    <2>2. files \in Contents
      BY DEF Contents, File, FileNames
    <2> HIDE DEF files
    <2>3. copying.at # "staging" /\ target = Nothing
      BY <1>1, <2>1 DEF CopiesAreTrue
    <2>4. SnapshotTypes'
      BY <2>1, <2>2 DEF SnapshotInv, SnapshotTypes
    <2> QED
      BY <1>1, <2>1, <2>3, <2>4 DEF SnapshotInv, PassesAreTrue, CopiesAreTrue, ArchiveIsAMoment, RestoredIsWhole, Between
  <1> QED
    BY <1>5, <1>6, <1>7, <1>8, <1>9

LEMMA RestoreKeeps ==
  ASSUME SnapshotInv, StartsRestore \/ Copies \/ Replaces \/ RestoreCrashes
  PROVE  SnapshotInv'
  <1> USE ContentFacts, QuietFacts, SnapshotAssumption, SourceFacts
  <1> DEFINE Copying == [at : {"idle", "staging"}, next : 1 .. 5, files : Contents]
  <1>1. /\ archive.files \in Contents /\ copying \in Copying /\ copying.files \in Contents
        /\ target \in Contents /\ CopiesAreTrue /\ RestoredIsWhole
    BY DEF SnapshotInv, SnapshotTypes
  <1>2. UNCHANGED <<vault, writes, saving, archive, moments>>
    BY DEF StartsRestore, Copies, Replaces, RestoreCrashes, CopyDoes
  <1>3. PassesAreTrue' /\ ArchiveIsAMoment'
    BY <1>2 DEF SnapshotInv, PassesAreTrue, ArchiveIsAMoment, Between
  <1>4. ASSUME copying' \in Copying, target' \in Contents, crashes' \in 0 .. MaxCrashes  PROVE SnapshotTypes'
    BY <1>2, <1>4 DEF SnapshotInv, SnapshotTypes
  <1> HIDE DEF Copying
  <1>5. CASE StartsRestore
    <2> DEFINE new == [Copy EXCEPT !.at = "staging"]
    <2>1. /\ archive # NoArchive /\ saving.at # "sync" /\ target = Nothing
          /\ copying' = new /\ UNCHANGED <<target, crashes>>
      BY <1>5 DEF StartsRestore, CopyDoes
    <2>2. new \in Copying /\ new.at = "staging" /\ new.next = 1
      BY DEF Copying
    <2> HIDE DEF new
    <2>3. SnapshotTypes'
      BY <1>1, <1>4, <2>1, <2>2 DEF SnapshotInv, SnapshotTypes
    <2> QED
      BY <1>1, <1>2, <1>3, <2>1, <2>2, <2>3 DEF SnapshotInv, CopiesAreTrue, RestoredIsWhole
  <1>6. CASE Copies
    <2> DEFINE i == copying.next
               f == Sources[i]
               new == [copying EXCEPT !.files[f] = archive.files[f], !.next = i + 1]
    <2>1. /\ copying.at = "staging" /\ i \in 1 .. 4 /\ copying' = new /\ UNCHANGED <<target, crashes>>
      BY <1>1, <1>6 DEF Copies, CopyDoes, Copying
    <2>2. f \in FileNames /\ archive.files[f] \in File
      BY <1>1, <2>1 DEF Contents
    <2>3. [copying.files EXCEPT ![f] = archive.files[f]] \in Contents
      BY <1>1, <2>2 DEF Contents
    <2>4. /\ new \in Copying /\ new.at = "staging" /\ new.next = i + 1
          /\ new.files = [copying.files EXCEPT ![f] = archive.files[f]]
      <3> DEFINE read == [copying.files EXCEPT ![f] = archive.files[f]]
                 mid == [copying EXCEPT !.files = read]
      <3>1. read \in Contents /\ i + 1 \in 1 .. 5
        BY <2>1, <2>3
      <3> HIDE DEF read, f, i
      <3>2. mid \in Copying /\ mid.at = "staging" /\ mid.files = read
        BY <1>1, <2>1, <3>1 DEF Copying
      <3> HIDE DEF mid
      <3>3. /\ [mid EXCEPT !.next = i + 1] \in Copying
            /\ [mid EXCEPT !.next = i + 1].at = "staging" /\ [mid EXCEPT !.next = i + 1].next = i + 1
            /\ [mid EXCEPT !.next = i + 1].files = read
        BY <3>1, <3>2 DEF Copying
      <3> QED
        BY <3>3 DEF mid, read
    <2>5. /\ new.files[f] = archive.files[f]
          /\ \A g \in FileNames \ {f} : new.files[g] = copying.files[g]
          /\ ReadBefore(new.next) = ReadBefore(copying.next) \union {f}
          /\ ReadBefore(copying.next) \subseteq FileNames
      <3>1. \A n \in 1 .. 4 : ReadBefore(n) \subseteq FileNames
        BY DEF ReadBefore
      <3> QED
        BY <1>1, <2>1, <2>2, <2>4, <3>1 DEF Contents
    <2> HIDE DEF new, f, i
    <2>6. SnapshotTypes'
      BY <1>1, <1>4, <2>1, <2>4 DEF SnapshotInv, SnapshotTypes
    <2>7. CopiesAreTrue'
      BY <1>1, <1>2, <2>1, <2>4, <2>5 DEF CopiesAreTrue
    <2> QED
      BY <1>1, <1>2, <1>3, <2>1, <2>6, <2>7 DEF SnapshotInv, RestoredIsWhole
  <1>7. CASE Replaces
    <2>1. /\ copying.at = "staging" /\ copying.next = 5 /\ crashes' = crashes /\ copying' = Copy
          /\ target' = IF target = Nothing /\ ValidSnapshot(copying.files) THEN copying.files ELSE target
      BY <1>7 DEF Replaces, CopyDoes
    <2>2. \A f \in FileNames : copying.files[f] = archive.files[f]
      BY <1>1, <2>1 DEF CopiesAreTrue
    <2>3. copying.files = archive.files
      BY <1>1, <2>2 DEF Contents
    <2>4. SnapshotTypes'
      BY <1>1, <1>4, <2>1 DEF SnapshotInv, SnapshotTypes, Copying
    <2>5. CopiesAreTrue' /\ RestoredIsWhole'
      BY <1>1, <1>2, <2>1, <2>3 DEF CopiesAreTrue, RestoredIsWhole
    <2> QED
      BY <1>3, <2>4, <2>5 DEF SnapshotInv
  <1>8. CASE RestoreCrashes
    <2>1. crashes' \in 0 .. MaxCrashes /\ copying' = Copy /\ target' = target
      BY <1>8 DEF RestoreCrashes, CopyDoes, SnapshotInv, SnapshotTypes
    <2>2. SnapshotTypes'
      BY <1>1, <1>4, <2>1 DEF Copying
    <2>3. CopiesAreTrue' /\ RestoredIsWhole'
      BY <1>1, <1>2, <2>1 DEF CopiesAreTrue, RestoredIsWhole
    <2> QED
      BY <1>3, <2>2, <2>3 DEF SnapshotInv
  <1> QED
    BY <1>5, <1>6, <1>7, <1>8

\* Passes, archive and copy fit the vault as it was in every state.
THEOREM SnapshotInvariant == SnapshotSpec => []SnapshotInv
  <1>1. ASSUME SnapshotInv, UNCHANGED snapshotVars  PROVE SnapshotInv'
    BY <1>1 DEF snapshotVars, SnapshotInv, SnapshotTypes, PassesAreTrue, CopiesAreTrue, Between,
       ArchiveIsAMoment, RestoredIsWhole
  <1>2. SnapshotInv /\ [SnapshotNext]_snapshotVars => SnapshotInv'
    BY <1>1, OwnerStepsKeep, PassesKeep, PassEndsKeep, ArchivingKeeps, RestoreKeeps DEF SnapshotNext
  <1> QED
    BY <1>2, SnapshotStart, PTL DEF SnapshotSpec

\* Two passes that agree are a moment of the vault, however many owners write
\* meanwhile, and a vault is restored whole or not at all.
THEOREM BackupWhole == SnapshotSpec => []BackupIsWhole
  <1>1. SnapshotInv => BackupIsWhole
    BY DEF SnapshotInv, BackupIsWhole
  <1> QED
    BY <1>1, SnapshotInvariant, PTL

\* No call replaces or removes the archive of another.
THEOREM ArchiveFinal == SnapshotSpec => ArchiveIsFinal
  <1> DEFINE Kept == /\ archive.by = "rival" => archive' = archive
                     /\ archive.by = "backup" => archive' \in {archive, NoArchive}
  <1>1. ASSUME SnapshotInv, SnapshotNext  PROVE Kept
    <2>1. archive.by # "nobody" => archive # NoArchive
      BY QuietFacts
    <2>2. saving.at = "sync" => archive.by = "backup"
      BY <1>1 DEF SnapshotInv, CopiesAreTrue
    <2>3. CASE archive' = archive
      BY <2>3
    <2>4. CASE PublishesArchive
      BY <2>1, <2>4 DEF PublishesArchive
    <2>5. CASE Syncs
      BY <2>2, <2>5 DEF Syncs
    <2>6. CASE RivalPublishes
      BY <2>1, <2>6 DEF RivalPublishes
    <2> QED
      BY <1>1, <2>3, <2>4, <2>5, <2>6
         DEF SnapshotNext, Registers, RollsBack, Remembers, Tracks, Sets, Renews, OwnerWrites,
             StartsAttempt, ReadsFile, EndsPass, TakesTooLong, Compares, Prepares,
             StartsRestore, Copies, Replaces, RestoreCrashes, CopyDoes
  <1>2. SnapshotInv /\ [SnapshotNext]_snapshotVars => [Kept]_snapshotVars
    BY <1>1
  <1> QED
    BY <1>2, SnapshotInvariant, PTL DEF SnapshotSpec, ArchiveIsFinal

-----------------------------------------------------------------------------
(* Maintenance.                                                            *)

PassSteps == {"idle", "enqueue", "claimed", "ran", "stage", "finish", "publish", "complete",
              "unclaim", "unclaim_failed", "failing"}
Doc == [status : {"ABSENT", "QUEUED", "PROCESSING", "COMPLETED", "FAILED"}, try : Nat, source : Nat]
Report == [graph : Nat, source : Nat, good : BOOLEAN]
PassStates == [at : PassSteps, i : Intents \union {0}, doc : Doc, made : Report]

MaintenanceTypes ==
  /\ source \in 1 .. MaxSource /\ leased \subseteq Intents /\ faults \in 0 .. MaxFaults
  /\ intent \in [IntentDirectories -> [Intents -> Doc]]
  /\ staged \in [Intents -> Report] /\ reports \in [Intents -> Report]
  /\ pass \in [Passes -> PassStates]

\* A pass that has claimed an intent, and one inside the group of writes.
Active(w) == pass[w].at \notin {"idle", "enqueue"}
HoldsIndex(w) == pass[w].at \in {"publish", "complete", "unclaim", "unclaim_failed"}

\* The pass whose try is the one in the queue: it alone can own the lease.
Current(w) == /\ Active(w) /\ Lies("queued", pass[w].i)
              /\ pass[w].doc.try = intent["queued"][pass[w].i].try

\* What a pass took with it: a new intent, or one it claimed and that is still
\* the same document, unless somebody claimed it again.
Claim(w) ==
  /\ pass[w].at = "enqueue" => pass[w].i \in Intents /\ pass[w].doc.status = "QUEUED"
  /\ Active(w) =>
       /\ pass[w].i \in Intents /\ Known(pass[w].i) /\ pass[w].doc.status = "PROCESSING"
       /\ Lies("queued", pass[w].i) => /\ pass[w].doc.try <= intent["queued"][pass[w].i].try
                                       /\ pass[w].doc.source = intent["queued"][pass[w].i].source

\* Each try of an intent is claimed once.
ClaimsAreDistinct ==
  /\ \A i \in Intents : Lies("queued", i) => intent["queued"][i].status \in {"QUEUED", "PROCESSING"}
  /\ \A w \in Passes : Claim(w)
  /\ \A v, w \in Passes :
       Active(v) /\ Active(w) /\ pass[v].i = pass[w].i /\ pass[v].doc.try = pass[w].doc.try => v = w

\* Who writes in the group was and remains the current one.
IndexIsLocked ==
  /\ \A v, w \in Passes : HoldsIndex(v) /\ HoldsIndex(w) => v = w
  /\ \A w \in Passes :
       /\ HoldsIndex(w) => Current(w)
       /\ pass[w].at = "unclaim" => Lies("completed", pass[w].i)
       /\ pass[w].at = "unclaim_failed" => Lies("failed", pass[w].i)

\* How far a pass has come says what it made and, while it is the current one,
\* whether the report is out.
Work(w) ==
  /\ pass[w].at = "claimed" => pass[w].made = NoReport
  /\ pass[w].at \in {"ran", "stage", "publish"} => pass[w].made # NoReport
  /\ pass[w].at \in {"stage", "finish", "publish"} /\ pass[w].made # NoReport =>
       ValidFor(pass[w].made, pass[w].doc)
  /\ Current(w) =>
       /\ pass[w].at \in {"ran", "stage", "finish", "publish"} /\ pass[w].made # NoReport =>
            reports[pass[w].i] = NoReport
       /\ (pass[w].at = "finish" /\ pass[w].made = NoReport) \/ pass[w].at \in {"complete", "unclaim"} =>
            ValidFor(reports[pass[w].i], pass[w].doc)

WorkIsOrdered == \A w \in Passes : Work(w)

\* A published report is of one source, the one of its intent.
ReportsFit ==
  \A i \in Intents : reports[i] # NoReport =>
    /\ Known(i) /\ reports[i].graph = reports[i].source
    /\ Lies("queued", i) => reports[i].source = intent["queued"][i].source

MaintenanceInv ==
  /\ MaintenanceTypes /\ ClaimsAreDistinct /\ IndexIsLocked /\ WorkIsOrdered /\ ReportsFit
  /\ CompletedHasReport

LEMMA RestFacts ==
  /\ NoIntent \in Doc /\ NoIntent.status = "ABSENT"
  /\ NoReport \in Report /\ NoReport.graph = 0 /\ NoReport.source = 0
  /\ Resting \in PassStates /\ Resting.at = "idle" /\ Resting.made = NoReport
  BY DEF NoIntent, NoReport, Resting, Doc, Report, PassStates, PassSteps

LEMMA MaintenanceStart == MaintenanceInit => MaintenanceInv
  <1> SUFFICES ASSUME MaintenanceInit  PROVE MaintenanceInv
    OBVIOUS
  <1> DEFINE done == [status |-> "COMPLETED", try |-> 1, source |-> 1]
             good == [graph |-> 1, source |-> 1, good |-> TRUE]
  <1>1. PICK past \in SUBSET Intents :
          /\ source = 1
          /\ intent = [d \in IntentDirectories |-> [i \in Intents |->
                         IF d = "completed" /\ i \in past THEN done ELSE NoIntent]]
          /\ leased = {}
          /\ staged = [i \in Intents |-> NoReport]
          /\ reports = [i \in Intents |-> IF i \in past THEN good ELSE NoReport]
          /\ pass = [w \in Passes |-> Resting]
          /\ faults \in 0 .. MaxFaults
    BY DEF MaintenanceInit
  <1>2. done \in Doc /\ done # NoIntent /\ done.source = 1 /\ good \in Report /\ good # NoReport
    BY RestFacts DEF Doc, Report, NoReport
  <1>3. ValidFor(good, done)
    BY <1>2 DEF ValidFor
  <1> HIDE DEF done
  <1>4. MaintenanceTypes
    <2>1. intent \in [IntentDirectories -> [Intents -> Doc]]
      BY <1>1, <1>2, RestFacts
    <2>2. reports \in [Intents -> Report] /\ staged \in [Intents -> Report]
      BY <1>1, <1>2, RestFacts
    <2>3. source \in 1 .. MaxSource
      BY <1>1, MaintenanceAssumption
    <2> QED
      BY <1>1, <2>1, <2>2, <2>3, RestFacts DEF MaintenanceTypes
  <1>5. \A i \in Intents : ~Lies("queued", i) /\ (Lies("completed", i) <=> i \in past)
    BY <1>1, <1>2 DEF Lies, IntentDirectories
  <1>6. \A i \in past : reports[i] = good /\ intent["completed"][i] = done /\ Known(i)
    BY <1>1, <1>5 DEF Known, IntentDirectories
  <1>7. \A i \in Intents \ past : reports[i] = NoReport
    BY <1>1
  <1>8. \A w \in Passes : pass[w].at = "idle"
    BY <1>1, RestFacts
  <1>9. ClaimsAreDistinct /\ IndexIsLocked /\ WorkIsOrdered
    BY <1>5, <1>8 DEF ClaimsAreDistinct, Claim, IndexIsLocked, WorkIsOrdered, Work, Active, HoldsIndex, Current
  <1>10. ReportsFit
    BY <1>5, <1>6, <1>7 DEF ReportsFit
  <1>11. CompletedHasReport
    BY <1>3, <1>5, <1>6 DEF CompletedHasReport
  <1> QED
    BY <1>4, <1>9, <1>10, <1>11 DEF MaintenanceInv

\* What the writes to the intents and to the state of a pass change.
LEMMA IntentWritten ==
  ASSUME MaintenanceTypes, NEW d \in IntentDirectories, NEW i \in Intents, NEW doc \in Doc,
         intent' = [intent EXCEPT ![d][i] = doc]
  PROVE  /\ intent' \in [IntentDirectories -> [Intents -> Doc]]
         /\ intent'[d][i] = doc
         /\ \A e \in IntentDirectories, j \in Intents : e # d \/ j # i => intent'[e][j] = intent[e][j]
  BY DEF MaintenanceTypes

LEMMA PassWritten ==
  ASSUME MaintenanceTypes, NEW w \in Passes, NEW new \in PassStates, pass' = [pass EXCEPT ![w] = new]
  PROVE  /\ pass' \in [Passes -> PassStates]
         /\ pass'[w] = new /\ \A v \in Passes \ {w} : pass'[v] = pass[v]
  BY DEF MaintenanceTypes

LEMMA PassGoes ==
  ASSUME MaintenanceTypes, NEW w \in Passes, NEW at \in PassSteps, Goes(w, at)
  PROVE  /\ pass' \in [Passes -> PassStates] /\ \A v \in Passes \ {w} : pass'[v] = pass[v]
         /\ pass'[w].at = at /\ pass'[w].i = pass[w].i /\ pass'[w].doc = pass[w].doc
         /\ pass'[w].made = pass[w].made
  <1> DEFINE new == [pass[w] EXCEPT !.at = at]
  <1>1. pass[w] \in PassStates
    BY DEF MaintenanceTypes
  <1>2. /\ new \in PassStates /\ new.at = at /\ new.i = pass[w].i /\ new.doc = pass[w].doc
        /\ new.made = pass[w].made
    BY <1>1 DEF PassStates
  <1>3. pass' = [pass EXCEPT ![w] = new]
    BY DEF Goes
  <1> HIDE DEF new
  <1> QED
    BY <1>2, <1>3, PassWritten

LEMMA PassRests ==
  ASSUME MaintenanceTypes, NEW w \in Passes, Rests(w)
  PROVE  /\ pass' \in [Passes -> PassStates] /\ \A v \in Passes \ {w} : pass'[v] = pass[v]
         /\ pass'[w].at = "idle"
  BY RestFacts, PassWritten DEF Rests

LEMMA OwnerIsCurrent ==
  ASSUME MaintenanceInv, NEW w \in Passes, Active(w), Owns(w)
  PROVE  Current(w)
  BY RestFacts DEF Owns, Current, Lies

\* A step that writes neither intents nor reports.
LEMMA PassMoves ==
  ASSUME MaintenanceInv, MaintenanceTypes', NEW w \in Passes, UNCHANGED <<intent, reports>>,
         \A v \in Passes \ {w} : pass'[v] = pass[v],
         pass'[w].at = "enqueue" => pass'[w].i \in Intents /\ pass'[w].doc.status = "QUEUED",
         Active(w)' => Active(w) /\ pass'[w].i = pass[w].i /\ pass'[w].doc = pass[w].doc,
         HoldsIndex(w)' => ~IndexLocked /\ Current(w) /\ pass'[w].at \notin {"unclaim", "unclaim_failed"},
         Work(w)'
  PROVE  MaintenanceInv'
  <1>1. \A i \in Intents, d \in IntentDirectories : Lies(d, i)' = Lies(d, i)
    BY DEF Lies
  <1>2. \A i \in Intents : Known(i)' = Known(i)
    BY <1>1 DEF Known
  <1>3. \A v \in Passes \ {w} :
          /\ Active(v)' = Active(v) /\ HoldsIndex(v)' = HoldsIndex(v) /\ Current(v)' = Current(v)
    BY DEF Active, HoldsIndex, Current, Lies
  <1>4. ClaimsAreDistinct'
    <2>1. ClaimsAreDistinct
      BY DEF MaintenanceInv
    <2>2. \A i \in Intents : Lies("queued", i)' => intent'["queued"][i].status \in {"QUEUED", "PROCESSING"}
      BY <2>1 DEF ClaimsAreDistinct, Lies
    <2>3. \A v \in Passes \ {w} : Claim(v)'
      BY <1>3, <2>1 DEF ClaimsAreDistinct, Claim, Known, Lies
    <2>4. Claim(w)'
      BY <2>1 DEF ClaimsAreDistinct, Claim, Known, Lies, Active
    <2>5. ASSUME NEW u \in Passes, NEW v \in Passes, Active(u)', Active(v)', pass'[u].i = pass'[v].i,
                 pass'[u].doc.try = pass'[v].doc.try
          PROVE  u = v
      BY <1>3, <2>1, <2>5 DEF ClaimsAreDistinct
    <2> QED
      BY <2>2, <2>3, <2>4, <2>5 DEF ClaimsAreDistinct
  <1>5. IndexIsLocked'
    <2>1. IndexIsLocked
      BY DEF MaintenanceInv
    <2>2. HoldsIndex(w)' => \A v \in Passes : ~HoldsIndex(v)
      BY DEF IndexLocked, HoldsIndex
    <2>3. HoldsIndex(w)' => Current(w)'
      BY DEF Current, Lies, Active, HoldsIndex
    <2>4. \A u, v \in Passes : HoldsIndex(u)' /\ HoldsIndex(v)' => u = v
      BY <1>3, <2>1, <2>2 DEF IndexIsLocked
    <2>5. ASSUME NEW v \in Passes \ {w}
          PROVE  /\ HoldsIndex(v)' => Current(v)'
                 /\ pass'[v].at = "unclaim" => Lies("completed", pass[v].i)'
                 /\ pass'[v].at = "unclaim_failed" => Lies("failed", pass[v].i)'
      BY <1>3, <2>1 DEF IndexIsLocked, Lies
    <2>6. pass'[w].at \notin {"unclaim", "unclaim_failed"}
      BY DEF HoldsIndex
    <2> QED
      BY <2>3, <2>4, <2>5, <2>6 DEF IndexIsLocked
  <1>6. WorkIsOrdered'
    <2>1. \A v \in Passes \ {w} : Work(v)'
      BY <1>3 DEF MaintenanceInv, WorkIsOrdered, Work
    <2> QED
      BY <2>1 DEF WorkIsOrdered
  <1>7. ReportsFit' /\ CompletedHasReport'
    BY <1>1, <1>2 DEF MaintenanceInv, ReportsFit, CompletedHasReport, Lies, Known
  <1> QED
    BY <1>4, <1>5, <1>6, <1>7 DEF MaintenanceInv

LEMMA NothingMoves ==
  ASSUME MaintenanceInv, MaintenanceTypes', UNCHANGED <<intent, reports, pass>>
  PROVE  MaintenanceInv'
  BY DEF MaintenanceInv, ClaimsAreDistinct, Claim, IndexIsLocked, WorkIsOrdered, Work, ReportsFit,
         CompletedHasReport, Active, HoldsIndex, Current, Lies, Known

LEMMA ClocksKeep ==
  ASSUME MaintenanceInv, CanonicalWrite \/ \E i \in Intents : LeaseRunsOut(i)
  PROVE  MaintenanceInv'
  <1>1. MaintenanceTypes
    BY DEF MaintenanceInv
  <1>2. CASE CanonicalWrite
    <2>1. source' \in 1 .. MaxSource /\ UNCHANGED <<work, pass, faults>>
      BY <1>1, <1>2, MaintenanceAssumption DEF CanonicalWrite, MaintenanceTypes
    <2> QED
      BY <1>1, <2>1, NothingMoves DEF MaintenanceTypes, work
  <1>3. ASSUME NEW i \in Intents, LeaseRunsOut(i)  PROVE MaintenanceInv'
    <2>1. /\ leased' \subseteq Intents /\ faults' \in 0 .. MaxFaults
          /\ UNCHANGED <<source, intent, staged, reports, pass>>
      <3>1. leased' = leased \ {i} /\ UNCHANGED <<source, intent, staged, reports, pass>>
        BY <1>3 DEF LeaseRunsOut
      <3>2. faults' = faults \/ (faults < MaxFaults /\ faults' = faults + 1)
        <4> DEFINE late == \E w \in Passes : pass[w].i = i /\ pass[w].at # "enqueue" /\ Owns(w)
        <4>1. (late => faults < MaxFaults) /\ faults' = IF late THEN faults + 1 ELSE faults
          BY <1>3 DEF LeaseRunsOut
        <4> HIDE DEF late
        <4> QED
          BY <4>1, Zenon
      <3> QED
        BY <1>1, <3>1, <3>2, MaintenanceAssumption DEF MaintenanceTypes
    <2> QED
      BY <1>1, <2>1, NothingMoves DEF MaintenanceTypes
  <1> QED
    BY <1>2, <1>3

\* The steps of a pass between its claim and its writes.
LEMMA PassStepsKeep ==
  ASSUME MaintenanceInv, NEW w \in Passes,
         \/ \E i \in Intents : ReadsSource(w, i)
         \/ Resumes(w) \/ (\E good \in BOOLEAN : Runs(w, good)) \/ Accepts(w)
         \/ Stages(w) \/ Finishes(w) \/ Raises(w) \/ TimesOut(w) \/ Dies(w)
  PROVE  MaintenanceInv'
  <1>1. /\ MaintenanceTypes /\ pass \in [Passes -> PassStates] /\ pass[w] \in PassStates
        /\ Claim(w) /\ Work(w)
    BY DEF MaintenanceInv, MaintenanceTypes, ClaimsAreDistinct, WorkIsOrdered
  <1>2. ASSUME Rests(w), UNCHANGED <<intent, reports>>, MaintenanceTypes'  PROVE MaintenanceInv'
    <2>1. pass'[w].at = "idle" /\ \A v \in Passes \ {w} : pass'[v] = pass[v]
      BY <1>1, <1>2, PassRests
    <2> QED
      BY <1>2, <2>1, PassMoves DEF Active, HoldsIndex, Work, Current
  <1>3. ASSUME Rests(w), UNCHANGED <<source, work, faults>>  PROVE MaintenanceInv'
    <2>1. MaintenanceTypes'
      BY <1>1, <1>3, PassRests DEF MaintenanceTypes, work
    <2> QED
      BY <1>2, <1>3, <2>1 DEF work
  <1>4. ASSUME Goes(w, "failing"), Active(w), UNCHANGED <<source, work, faults>>  PROVE MaintenanceInv'
    <2>1. /\ pass' \in [Passes -> PassStates] /\ \A v \in Passes \ {w} : pass'[v] = pass[v]
          /\ pass'[w].at = "failing" /\ pass'[w].i = pass[w].i /\ pass'[w].doc = pass[w].doc
      BY <1>1, <1>4, PassGoes DEF PassSteps
    <2>2. MaintenanceTypes'
      BY <1>1, <1>4, <2>1 DEF MaintenanceTypes, work
    <2> QED
      BY <1>4, <2>1, <2>2, PassMoves DEF Active, HoldsIndex, Work, work
  <1>5. ASSUME NEW i \in Intents, ReadsSource(w, i)  PROVE MaintenanceInv'
    <2> DEFINE doc == [status |-> "QUEUED", try |-> 0, source |-> source]
               one == [Resting EXCEPT !.at = "enqueue"]
               two == [one EXCEPT !.i = i]
               new == [two EXCEPT !.doc = doc]
    <2>1. pass' = [pass EXCEPT ![w] = new] /\ UNCHANGED <<source, work, faults>>
      BY <1>5 DEF ReadsSource
    <2>2. doc \in Doc /\ doc.status = "QUEUED"
      BY <1>1, MaintenanceAssumption DEF Doc, MaintenanceTypes
    <2> HIDE DEF doc
    <2>3. one \in PassStates /\ one.at = "enqueue"
      BY RestFacts DEF PassStates, PassSteps
    <2> HIDE DEF one
    <2>4. two \in PassStates /\ two.at = "enqueue" /\ two.i = i
      BY <2>3 DEF PassStates
    <2> HIDE DEF two
    <2>5. new \in PassStates /\ new.at = "enqueue" /\ new.i = i /\ new.doc = doc
      BY <2>2, <2>4 DEF PassStates
    <2> HIDE DEF new
    <2>6. /\ pass' \in [Passes -> PassStates] /\ pass'[w] = new
          /\ \A v \in Passes \ {w} : pass'[v] = pass[v]
      BY <1>1, <2>1, <2>5, PassWritten
    <2>7. MaintenanceTypes'
      BY <1>1, <2>1, <2>6 DEF MaintenanceTypes, work
    <2> QED
      BY <2>1, <2>2, <2>5, <2>6, <2>7, PassMoves DEF Active, HoldsIndex, Work, Current, work
  <1>6. CASE Resumes(w)
    <2> DEFINE i == pass[w].i
    <2>1. pass[w].at = "claimed" /\ pass[w].made = NoReport /\ UNCHANGED <<source, work, faults>> /\ i \in Intents
      BY <1>1, <1>6 DEF Resumes, Work, Claim, Active
    <2>2. CASE ValidFor(reports[i], pass[w].doc) /\ Goes(w, "finish")
      <3>1. /\ pass' \in [Passes -> PassStates] /\ \A v \in Passes \ {w} : pass'[v] = pass[v]
            /\ pass'[w].at = "finish" /\ pass'[w].i = i /\ pass'[w].doc = pass[w].doc
            /\ pass'[w].made = NoReport
        BY <1>1, <2>1, <2>2, PassGoes DEF PassSteps
      <3>2. MaintenanceTypes'
        BY <1>1, <2>1, <3>1 DEF MaintenanceTypes, work
      <3>3. Work(w)'
        BY <2>1, <2>2, <3>1 DEF Work, ValidFor, work
      <3> QED
        BY <2>1, <3>1, <3>2, <3>3, PassMoves DEF Active, HoldsIndex, work
    <2>3. CASE /\ ~ValidFor(reports[i], pass[w].doc) /\ ValidFor(staged[i], pass[w].doc)
               /\ pass' = [pass EXCEPT ![w].at = "finish", ![w].made = staged[i]]
      <3> DEFINE one == [pass[w] EXCEPT !.at = "finish"]
                 new == [one EXCEPT !.made = staged[i]]
      <3>1. one \in PassStates /\ one.at = "finish" /\ one.i = i /\ one.doc = pass[w].doc
        BY <1>1 DEF PassStates, PassSteps
      <3>2. staged[i] \in Report
        BY <1>1, <2>1 DEF MaintenanceTypes
      <3>3. pass' = [pass EXCEPT ![w] = new]
        BY <1>1, <2>3
      <3> HIDE DEF one
      <3>4. new \in PassStates /\ new.at = "finish" /\ new.i = i /\ new.doc = pass[w].doc /\ new.made = staged[i]
        BY <3>1, <3>2 DEF PassStates
      <3> HIDE DEF new
      <3>5. /\ pass' \in [Passes -> PassStates] /\ pass'[w] = new
            /\ \A v \in Passes \ {w} : pass'[v] = pass[v]
        BY <1>1, <3>3, <3>4, PassWritten
      <3>6. MaintenanceTypes'
        BY <1>1, <2>1, <3>5 DEF MaintenanceTypes, work
      <3>7. Current(w) => reports[i] = NoReport
        BY <2>3 DEF MaintenanceInv, ReportsFit, ClaimsAreDistinct, Claim, Current, ValidFor
      <3>8. Work(w)'
        <4>1. Current(w)' => Current(w)
          BY <2>1, <3>4, <3>5 DEF Current, Active, Lies, work
        <4>2. ValidFor(pass'[w].made, pass'[w].doc)
          BY <2>3, <3>4, <3>5
        <4>3. pass'[w].made # NoReport
          BY <4>2 DEF ValidFor
        <4>4. Current(w)' => reports'[pass'[w].i] = NoReport
          BY <2>1, <3>4, <3>5, <3>7, <4>1 DEF work
        <4> QED
          BY <3>4, <3>5, <4>2, <4>3, <4>4 DEF Work, ValidFor
      <3> QED
        BY <2>1, <3>4, <3>5, <3>6, <3>8, PassMoves DEF Active, HoldsIndex, work
    <2> QED
      BY <1>6, <2>2, <2>3 DEF Resumes
  <1>7. ASSUME NEW good \in BOOLEAN, Runs(w, good)  PROVE MaintenanceInv'
    <2> DEFINE i == pass[w].i
               half == [NoReport EXCEPT !.graph = source]
               made == [half EXCEPT !.good = good]
               one == [pass[w] EXCEPT !.at = "ran"]
               new == [one EXCEPT !.made = made]
    <2>1. /\ pass[w].at = "claimed" /\ UNCHANGED <<source, work, faults>> /\ ~ValidFor(reports[i], pass[w].doc)
          /\ i \in Intents /\ source \in 1 .. MaxSource
      BY <1>1, <1>7 DEF Runs, Claim, Active, MaintenanceTypes
    <2>2. pass' = [pass EXCEPT ![w] = new]
      BY <1>1, <1>7 DEF Runs
    <2>3. one \in PassStates /\ one.at = "ran" /\ one.i = i /\ one.doc = pass[w].doc
      BY <1>1 DEF PassStates, PassSteps
    <2>4. half \in Report /\ half.graph = source
      BY <2>1, RestFacts, MaintenanceAssumption DEF Report
    <2> HIDE DEF one, half
    <2>5. made \in Report /\ made.graph = source
      BY <2>4 DEF Report
    <2>6. made # NoReport
      <3>1. source # 0
        BY <2>1, MaintenanceAssumption
      <3> QED
        BY <2>5, <3>1, RestFacts
    <2> HIDE DEF made
    <2>7. new \in PassStates /\ new.at = "ran" /\ new.i = i /\ new.doc = pass[w].doc /\ new.made = made
      BY <2>3, <2>5 DEF PassStates
    <2> HIDE DEF new
    <2>8. /\ pass' \in [Passes -> PassStates] /\ pass'[w] = new
          /\ \A v \in Passes \ {w} : pass'[v] = pass[v]
      BY <1>1, <2>2, <2>7, PassWritten
    <2>9. MaintenanceTypes'
      BY <1>1, <2>1, <2>8 DEF MaintenanceTypes, work
    <2>10. Current(w) => reports[i] = NoReport
      BY <2>1 DEF MaintenanceInv, ReportsFit, ClaimsAreDistinct, Claim, Current, ValidFor
    <2>11. Work(w)'
      <3>1. Current(w)' => Current(w)
        BY <2>1, <2>7, <2>8 DEF Current, Active, Lies, work
      <3>2. Current(w)' => reports'[pass'[w].i] = NoReport
        BY <2>1, <2>7, <2>8, <2>10, <3>1 DEF work
      <3> QED
        BY <2>6, <2>7, <2>8, <3>2 DEF Work
    <2> QED
      BY <2>1, <2>7, <2>8, <2>9, <2>11, PassMoves DEF Active, HoldsIndex, work
  <1>8. CASE Accepts(w)
    <2>1. pass[w].at = "ran" /\ UNCHANGED <<source, work, faults>> /\ Active(w) /\ source \in 1 .. MaxSource
      BY <1>1, <1>8 DEF Accepts, Active, MaintenanceTypes
    <2>2. CASE pass' = [pass EXCEPT ![w].at = "failing"]
      BY <1>4, <2>1, <2>2 DEF Goes
    <2>3. CASE /\ source = pass[w].doc.source /\ pass[w].made.graph = source
               /\ pass' = [pass EXCEPT ![w].at = "stage", ![w].made.source = source]
      <3> DEFINE made == [pass[w].made EXCEPT !.source = source]
                 one == [pass[w] EXCEPT !.at = "stage"]
                 new == [one EXCEPT !.made = made]
      <3>1. /\ one \in PassStates /\ one.at = "stage" /\ one.i = pass[w].i /\ one.doc = pass[w].doc
            /\ one.made = pass[w].made
        BY <1>1 DEF PassStates, PassSteps
      <3>2. made \in Report /\ made.source = source /\ made.graph = source
        BY <1>1, <2>1, <2>3, MaintenanceAssumption DEF PassStates, Report
      <3>3. pass' = [pass EXCEPT ![w] = new]
        BY <1>1, <2>3
      <3>4. made # NoReport
        <4>1. source # 0
          BY <2>1, MaintenanceAssumption
        <4> QED
          BY <3>2, <4>1, RestFacts
      <3> HIDE DEF one, made
      <3>5. new \in PassStates /\ new.at = "stage" /\ new.i = pass[w].i /\ new.doc = pass[w].doc /\ new.made = made
        BY <3>1, <3>2 DEF PassStates
      <3> HIDE DEF new
      <3>6. /\ pass' \in [Passes -> PassStates] /\ pass'[w] = new
            /\ \A v \in Passes \ {w} : pass'[v] = pass[v]
        BY <1>1, <3>3, <3>5, PassWritten
      <3>7. MaintenanceTypes'
        BY <1>1, <2>1, <3>6 DEF MaintenanceTypes, work
      <3>8. Work(w)'
        <4>1. Current(w)' => Current(w)
          BY <2>1, <3>5, <3>6 DEF Current, Active, Lies, work
        <4>2. Current(w) => reports[pass[w].i] = NoReport
          BY <1>1, <2>1 DEF Work
        <4>3. ValidFor(made, pass[w].doc)
          BY <2>3, <3>2, <3>4 DEF ValidFor
        <4>4. ValidFor(pass'[w].made, pass'[w].doc)
          BY <3>5, <3>6, <4>3
        <4>5. Current(w)' => reports'[pass'[w].i] = NoReport
          BY <2>1, <3>5, <3>6, <4>1, <4>2 DEF work
        <4> QED
          BY <3>4, <3>5, <3>6, <4>4, <4>5 DEF Work, ValidFor
      <3> QED
        BY <2>1, <3>5, <3>6, <3>7, <3>8, PassMoves DEF Active, HoldsIndex, work
    <2> QED
      BY <1>8, <2>2, <2>3 DEF Accepts
  <1>9. CASE Stages(w)
    <2>1. pass[w].at = "stage" /\ UNCHANGED <<source, intent, leased, reports, faults>>
      BY <1>9 DEF Stages
    <2>2. CASE Rests(w) /\ UNCHANGED staged
      BY <1>3, <2>1, <2>2 DEF work
    <2>3. CASE staged' = [staged EXCEPT ![pass[w].i] = pass[w].made] /\ Goes(w, "finish")
      <3>1. /\ pass' \in [Passes -> PassStates] /\ \A v \in Passes \ {w} : pass'[v] = pass[v]
            /\ pass'[w].at = "finish" /\ pass'[w].i = pass[w].i /\ pass'[w].doc = pass[w].doc
            /\ pass'[w].made = pass[w].made
        BY <1>1, <2>3, PassGoes DEF PassSteps
      <3>2. pass[w].made \in Report
        BY <1>1 DEF PassStates
      <3>3. MaintenanceTypes'
        BY <1>1, <2>1, <2>3, <3>1, <3>2 DEF MaintenanceTypes
      <3>4. Current(w)' => Current(w)
        BY <2>1, <3>1 DEF Current, Active, Lies
      <3>5. Work(w)'
        BY <1>1, <2>1, <3>1, <3>4 DEF Work, ValidFor
      <3> QED
        BY <2>1, <3>1, <3>3, <3>5, PassMoves DEF Active, HoldsIndex
    <2> QED
      BY <1>9, <2>2, <2>3 DEF Stages
  <1>10. CASE Finishes(w)
    <2>1. pass[w].at = "finish" /\ ~IndexLocked /\ UNCHANGED <<source, work, faults>> /\ Active(w)
      BY <1>10 DEF Finishes, Active
    <2>2. CASE Rests(w)
      BY <1>3, <2>1, <2>2
    <2>3. ASSUME NEW at \in {"complete", "publish"}, Owns(w), Goes(w, at),
                 at = "complete" <=> pass[w].made = NoReport
          PROVE  MaintenanceInv'
      <3>1. /\ pass' \in [Passes -> PassStates] /\ \A v \in Passes \ {w} : pass'[v] = pass[v]
            /\ pass'[w].at = at /\ pass'[w].i = pass[w].i /\ pass'[w].doc = pass[w].doc
            /\ pass'[w].made = pass[w].made
        BY <1>1, <2>3, PassGoes DEF PassSteps
      <3>2. MaintenanceTypes'
        BY <1>1, <2>1, <3>1 DEF MaintenanceTypes, work
      <3>3. Current(w)
        BY <2>1, <2>3, OwnerIsCurrent
      <3>4. Work(w)'
        BY <1>1, <2>1, <2>3, <3>1, <3>3 DEF Work, ValidFor, work
      <3> QED
        BY <2>1, <3>1, <3>2, <3>3, <3>4, PassMoves DEF Active, HoldsIndex, work
    <2> QED
      BY <1>10, <2>2, <2>3 DEF Finishes
  <1>11. CASE Raises(w)
    BY <1>4, <1>11 DEF Raises, Active
  <1>12. CASE TimesOut(w)
    BY <1>3, <1>4, <1>12 DEF TimesOut, Active
  <1>13. CASE Dies(w)
    <2>1. faults' \in 0 .. MaxFaults /\ Rests(w) /\ UNCHANGED <<source, work>>
      BY <1>1, <1>13, MaintenanceAssumption DEF Dies, MaintenanceTypes
    <2>2. MaintenanceTypes'
      BY <1>1, <2>1, PassRests DEF MaintenanceTypes, work
    <2> QED
      BY <1>2, <2>1, <2>2 DEF work
  <1> QED
    BY <1>5, <1>6, <1>7, <1>8, <1>9, <1>10, <1>11, <1>12, <1>13

\* The steps that write intents or reports.
LEMMA PublicationKeeps ==
  ASSUME MaintenanceInv, NEW w \in Passes, Publishes(w)
  PROVE  MaintenanceInv' /\ \A i \in Intents : reports[i] # NoReport => reports'[i] = reports[i]
  <1> DEFINE i == pass[w].i
  <1>1. /\ MaintenanceTypes /\ pass[w] \in PassStates /\ pass[w].at = "publish" /\ HoldsIndex(w)
        /\ UNCHANGED <<source, intent, leased, staged, faults>>
        /\ reports' = [reports EXCEPT ![i] = pass[w].made]
    BY DEF Publishes, MaintenanceInv, MaintenanceTypes, HoldsIndex
  <1>2. /\ Current(w) /\ Claim(w) /\ Work(w) /\ Active(w) /\ i \in Intents
        /\ \A u, v \in Passes : HoldsIndex(u) /\ HoldsIndex(v) => u = v
    BY <1>1 DEF MaintenanceInv, ClaimsAreDistinct, IndexIsLocked, WorkIsOrdered, Claim, Active
  <1>3. /\ pass' \in [Passes -> PassStates] /\ \A v \in Passes \ {w} : pass'[v] = pass[v]
        /\ pass'[w].at = "complete" /\ pass'[w].i = i /\ pass'[w].doc = pass[w].doc
        /\ pass'[w].made = pass[w].made
    BY <1>1, PassGoes DEF Publishes, PassSteps
  <1>4. /\ reports[i] = NoReport /\ pass[w].made # NoReport /\ ValidFor(pass[w].made, pass[w].doc)
    BY <1>1, <1>2 DEF Work
  <1>5. /\ reports' \in [Intents -> Report] /\ reports'[i] = pass[w].made
        /\ \A j \in Intents \ {i} : reports'[j] = reports[j]
    BY <1>1, <1>2 DEF MaintenanceTypes, PassStates
  <1>6. \A d \in IntentDirectories, j \in Intents : Lies(d, j)' = Lies(d, j)
    BY <1>1 DEF Lies
  <1>7. /\ \A j \in Intents : Known(j)' = Known(j)
        /\ \A v \in Passes : Active(v)' = Active(v) /\ Current(v)' = Current(v) /\ HoldsIndex(v)' = HoldsIndex(v)
    <2>1. \A j \in Intents : Known(j)' = Known(j)
      BY <1>6 DEF Known
    <2>2. Active(w)' = Active(w) /\ HoldsIndex(w)' = HoldsIndex(w)
      BY <1>1, <1>3 DEF Active, HoldsIndex
    <2>3. \A v \in Passes \ {w} : Active(v)' = Active(v) /\ HoldsIndex(v)' = HoldsIndex(v)
      BY <1>3 DEF Active, HoldsIndex
    <2>4. Current(w)' = Current(w)
      BY <1>1, <1>3, <2>2 DEF Current, Lies
    <2>5. \A v \in Passes \ {w} : Current(v)' = Current(v)
      BY <1>1, <1>3, <2>3 DEF Current, Lies
    <2> QED
      BY <2>1, <2>2, <2>3, <2>4, <2>5
  <1> HIDE DEF i
  <1>8. MaintenanceTypes'
    BY <1>1, <1>3, <1>5 DEF MaintenanceTypes
  <1>9. ClaimsAreDistinct'
    <2>1. \A v \in Passes : pass'[v].i = pass[v].i /\ pass'[v].doc = pass[v].doc
                            /\ (pass'[v].at = "enqueue" => pass[v].at = "enqueue")
      BY <1>3 DEF i
    <2> QED
      BY <1>1, <1>7, <2>1 DEF MaintenanceInv, ClaimsAreDistinct, Claim, Lies, Known
  <1>10. IndexIsLocked'
    <2>1. \A v \in Passes : pass'[v].i = pass[v].i
                            /\ (pass'[v].at \in {"unclaim", "unclaim_failed"} => pass'[v].at = pass[v].at)
      BY <1>3 DEF i
    <2> QED
      BY <1>1, <1>7, <2>1 DEF MaintenanceInv, IndexIsLocked, Lies
  <1>11. WorkIsOrdered'
    <2>1. Work(w)'
      BY <1>3, <1>4, <1>5 DEF Work, ValidFor
    <2>2. ASSUME NEW v \in Passes \ {w}  PROVE Work(v)'
      <3>1. Work(v) /\ pass'[v] = pass[v] /\ Claim(v)
        BY <1>3 DEF MaintenanceInv, WorkIsOrdered, ClaimsAreDistinct
      <3>2. CASE Current(v)
        <4>1. pass[v].i # i
          BY <1>2, <3>2 DEF MaintenanceInv, ClaimsAreDistinct, Current, i
        <4>2. pass[v].i \in Intents
          BY <3>1, <3>2 DEF Claim, Current
        <4>3. reports'[pass[v].i] = reports[pass[v].i]
          BY <1>5, <4>1, <4>2
        <4> QED
          BY <1>7, <3>1, <4>3 DEF Work, ValidFor
      <3>3. CASE ~Current(v)
        BY <1>7, <3>1, <3>3 DEF Work, ValidFor
      <3> QED
        BY <3>2, <3>3
    <2> QED
      BY <2>1, <2>2 DEF WorkIsOrdered
  <1>12. ReportsFit'
    <2>1. Known(i) /\ pass[w].made.graph = pass[w].made.source
          /\ (Lies("queued", i) => pass[w].made.source = intent["queued"][i].source)
      BY <1>2, <1>4 DEF Claim, ValidFor, i
    <2>2. \A j \in Intents \ {i} : reports'[j] # NoReport =>
            /\ Known(j) /\ reports'[j].graph = reports'[j].source
            /\ Lies("queued", j) => reports'[j].source = intent["queued"][j].source
      BY <1>5 DEF MaintenanceInv, ReportsFit
    <2> QED
      BY <1>1, <1>5, <1>7, <2>1, <2>2 DEF ReportsFit, Lies
  <1>13. CompletedHasReport'
    <2>1. ~Lies("completed", i)
      BY <1>2, <1>4 DEF MaintenanceInv, CompletedHasReport, ValidFor
    <2>2. \A j \in Intents \ {i} : Lies("completed", j) => ValidFor(reports'[j], intent["completed"][j])
      BY <1>5 DEF MaintenanceInv, CompletedHasReport
    <2> QED
      BY <1>1, <2>1, <2>2 DEF CompletedHasReport, Lies, ValidFor
  <1>14. \A j \in Intents : reports[j] # NoReport => reports'[j] = reports[j]
    BY <1>4, <1>5
  <1> QED
    BY <1>8, <1>9, <1>10, <1>11, <1>12, <1>13, <1>14 DEF MaintenanceInv

\* In a step that writes intents nobody else is in the group of writes, no
\* intent is forgotten, and what is in the queue is new or was there before.
LEMMA IntentsMove ==
  ASSUME MaintenanceInv, MaintenanceTypes', NEW w \in Passes, reports' = reports,
         \A v \in Passes \ {w} : pass'[v] = pass[v] /\ ~HoldsIndex(v),
         \A j \in Intents : Known(j) => Known(j)',
         \A j \in Intents : Lies("queued", j)' =>
           /\ intent'["queued"][j].status \in {"QUEUED", "PROCESSING"}
           /\ \/ ~Known(j)
              \/ /\ Lies("queued", j) /\ intent'["queued"][j].source = intent["queued"][j].source
                 /\ intent["queued"][j].try <= intent'["queued"][j].try,
         Claim(w)', Work(w)', CompletedHasReport',
         \A v \in Passes \ {w} :
           ~(Active(v) /\ Active(w)' /\ pass[v].i = pass'[w].i /\ pass[v].doc.try = pass'[w].doc.try),
         HoldsIndex(w)' => Current(w)',
         pass'[w].at = "unclaim" => Lies("completed", pass[w].i)' /\ pass'[w].i = pass[w].i,
         pass'[w].at = "unclaim_failed" => Lies("failed", pass[w].i)' /\ pass'[w].i = pass[w].i
  PROVE  MaintenanceInv' /\ \A j \in Intents : Settled(j) => Settled(j)'
  <1>1. \A v \in Passes \ {w} : Active(v)' = Active(v) /\ ~HoldsIndex(v)'
    BY DEF Active, HoldsIndex
  <1>2. ASSUME NEW v \in Passes \ {w}  PROVE Claim(v)' /\ (Current(v)' => Current(v))
    <2>1. Claim(v) /\ pass'[v] = pass[v] /\ pass[v] \in PassStates
      BY DEF MaintenanceInv, MaintenanceTypes, ClaimsAreDistinct
    <2>2. CASE Active(v)
      <3> DEFINE j == pass[v].i
      <3>1. j \in Intents /\ Known(j) /\ Known(j)' /\ pass[v].doc.status = "PROCESSING"
        BY <2>1, <2>2 DEF Claim
      <3>2. Lies("queued", j)' =>
              /\ Lies("queued", j) /\ intent'["queued"][j].source = intent["queued"][j].source
              /\ intent["queued"][j].try <= intent'["queued"][j].try
        BY <3>1
      <3>3. Lies("queued", j) => /\ pass[v].doc.try <= intent["queued"][j].try
                                 /\ pass[v].doc.source = intent["queued"][j].source
        BY <2>1, <2>2 DEF Claim
      <3>4. /\ pass[v].doc.try \in Nat /\ intent["queued"][j].try \in Nat /\ intent'["queued"][j].try \in Nat
        BY <2>1, <3>1 DEF MaintenanceInv, MaintenanceTypes, PassStates, Doc, IntentDirectories
      <3>5. Lies("queued", j)' => /\ pass[v].doc.try <= intent'["queued"][j].try
                                  /\ pass[v].doc.source = intent'["queued"][j].source
                                  /\ (pass[v].doc.try = intent'["queued"][j].try =>
                                        pass[v].doc.try = intent["queued"][j].try)
        BY <3>2, <3>3, <3>4
      <3>6. pass'[v].i = j
        BY <2>1
      <3>7. Claim(v)'
        BY <1>1, <2>1, <2>2, <3>1, <3>5, <3>6 DEF Claim, Active, Known, Lies
      <3>8. Current(v)' => Current(v)
        BY <1>1, <2>1, <2>2, <3>2, <3>5, <3>6 DEF Current, Lies
      <3> QED
        BY <3>7, <3>8
    <2>3. CASE ~Active(v)
      BY <1>1, <2>1, <2>3 DEF Claim, Current
    <2> QED
      BY <2>2, <2>3
  <1>3. ClaimsAreDistinct'
    <2>1. ASSUME NEW u \in Passes, NEW v \in Passes, Active(u)', Active(v)', pass'[u].i = pass'[v].i,
                 pass'[u].doc.try = pass'[v].doc.try
          PROVE  u = v
      <3>1. CASE u = w \/ v = w
        BY <1>1, <2>1, <3>1
      <3>2. CASE u # w /\ v # w
        BY <1>1, <2>1, <3>2 DEF MaintenanceInv, ClaimsAreDistinct
      <3> QED
        BY <3>1, <3>2
    <2>2. \A v \in Passes : Claim(v)'
      BY <1>2
    <2> QED
      BY <2>1, <2>2 DEF ClaimsAreDistinct
  <1>4. IndexIsLocked'
    <2>1. \A u, v \in Passes : HoldsIndex(u)' /\ HoldsIndex(v)' => u = v
      BY <1>1
    <2>2. \A v \in Passes : HoldsIndex(v)' => Current(v)'
      BY <1>1
    <2>3. \A v \in Passes \ {w} : pass'[v].at \notin {"unclaim", "unclaim_failed"}
      BY <1>1 DEF HoldsIndex
    <2>4. /\ pass'[w].at = "unclaim" => Lies("completed", pass[w].i)' /\ pass'[w].i = pass[w].i
          /\ pass'[w].at = "unclaim_failed" => Lies("failed", pass[w].i)' /\ pass'[w].i = pass[w].i
      OBVIOUS
    <2> QED
      BY <2>1, <2>2, <2>3, <2>4 DEF IndexIsLocked, Lies
  <1>5. WorkIsOrdered'
    <2>1. \A v \in Passes \ {w} : Work(v)'
      BY <1>2 DEF MaintenanceInv, WorkIsOrdered, Work, ValidFor
    <2> QED
      BY <2>1 DEF WorkIsOrdered
  <1>6. ReportsFit'
    BY DEF MaintenanceInv, ReportsFit, Known, Lies
  <1>7. \A j \in Intents : Settled(j) => Settled(j)'
    BY DEF Settled
  <1> QED
    BY <1>3, <1>4, <1>5, <1>6, <1>7 DEF MaintenanceInv

\* What is not the queue of i stays known and in place.
LEMMA DirectoriesKeep ==
  ASSUME MaintenanceTypes, NEW d \in IntentDirectories, NEW i \in Intents, NEW doc \in Doc,
         intent' = [intent EXCEPT ![d][i] = doc], doc # NoIntent
  PROVE  /\ Lies(d, i)'
         /\ \A e \in IntentDirectories, j \in Intents : Lies(e, j) => Lies(e, j)'
         /\ \A j \in Intents : Known(j) => Known(j)'
  <1>1. \A e \in IntentDirectories, j \in Intents : Lies(e, j) => Lies(e, j)'
    BY IntentWritten DEF Lies
  <1>2. Lies(d, i)'
    BY IntentWritten DEF Lies
  <1> QED
    BY <1>1, <1>2 DEF Known

LEMMA SchedulingKeeps ==
  ASSUME MaintenanceInv, NEW w \in Passes, Schedules(w)
  PROVE  MaintenanceInv' /\ \A j \in Intents : Settled(j) => Settled(j)'
  <1> DEFINE i == pass[w].i
  <1>1. /\ MaintenanceTypes /\ pass[w] \in PassStates /\ pass[w].at = "enqueue"
        /\ UNCHANGED <<source, leased, staged, reports, faults>>
        /\ \A v \in Passes : ~HoldsIndex(v)
    BY DEF Schedules, MaintenanceInv, MaintenanceTypes, IndexLocked, HoldsIndex
  <1>2. i \in Intents /\ pass[w].doc \in Doc /\ pass[w].doc.status = "QUEUED"
    BY <1>1 DEF MaintenanceInv, ClaimsAreDistinct, Claim, PassStates
  <1>3. /\ pass' \in [Passes -> PassStates] /\ \A v \in Passes \ {w} : pass'[v] = pass[v]
        /\ pass'[w].at = "idle"
    BY <1>1, PassRests DEF Schedules
  <1>4. ~Active(w)' /\ ~HoldsIndex(w)' /\ Claim(w)' /\ Work(w)'
    BY <1>3 DEF Active, HoldsIndex, Claim, Work, Current
  <1>5. CASE intent' = intent
    <2>1. MaintenanceTypes'
      BY <1>1, <1>3, <1>5 DEF MaintenanceTypes
    <2>2. \A j \in Intents : Known(j)' = Known(j) /\ Lies("queued", j)' = Lies("queued", j)
      BY <1>5 DEF Known, Lies
    <2>3. MaintenanceInv'
      BY <1>1, <1>3, <1>4, <1>5, <2>1, PassMoves
    <2> QED
      BY <2>2, <2>3 DEF Settled
  <1>6. CASE ~Known(i) /\ intent' = [intent EXCEPT !["queued"][i] = pass[w].doc]
    <2>1. /\ intent' \in [IntentDirectories -> [Intents -> Doc]]
          /\ intent'["queued"][i] = pass[w].doc
          /\ \A e \in IntentDirectories, j \in Intents : e # "queued" \/ j # i => intent'[e][j] = intent[e][j]
          /\ \A j \in Intents : Known(j) => Known(j)'
      BY <1>1, <1>2, <1>6, IntentWritten, DirectoriesKeep, RestFacts DEF IntentDirectories
    <2>2. MaintenanceTypes'
      BY <1>1, <1>3, <2>1 DEF MaintenanceTypes
    <2>3. ASSUME NEW j \in Intents, Lies("queued", j)'
          PROVE  /\ intent'["queued"][j].status \in {"QUEUED", "PROCESSING"}
                 /\ \/ ~Known(j)
                    \/ /\ Lies("queued", j) /\ intent'["queued"][j].source = intent["queued"][j].source
                       /\ intent["queued"][j].try <= intent'["queued"][j].try
      <3>1. CASE j = i
        BY <1>2, <1>6, <2>1, <3>1
      <3>2. CASE j # i
        <4>1. intent'["queued"][j] = intent["queued"][j] /\ intent["queued"][j].try \in Nat
          BY <1>1, <2>1, <3>2 DEF IntentDirectories, MaintenanceTypes, Doc
        <4> QED
          BY <2>3, <4>1 DEF MaintenanceInv, ClaimsAreDistinct, Lies
      <3> QED
        BY <3>1, <3>2
    <2>4. CompletedHasReport'
      BY <1>1, <2>1 DEF MaintenanceInv, CompletedHasReport, Lies, IntentDirectories
    <2> HIDE DEF i
    <2> QED
      BY <1>1, <1>3, <1>4, <2>1, <2>2, <2>3, <2>4, IntentsMove DEF HoldsIndex
  <1> QED
    BY <1>5, <1>6 DEF Schedules

LEMMA ClaimingKeeps ==
  ASSUME MaintenanceInv, NEW w \in Passes, NEW i \in Intents, Claims(w, i)
  PROVE  MaintenanceInv' /\ \A j \in Intents : Settled(j) => Settled(j)'
  <1> DEFINE old == intent["queued"][i]
             half == [old EXCEPT !.status = "PROCESSING"]
             doc == [half EXCEPT !.try = old.try + 1]
             one == [Resting EXCEPT !.at = "claimed"]
             two == [one EXCEPT !.i = i]
             new == [two EXCEPT !.doc = doc]
  <1>1. /\ MaintenanceTypes /\ pass[w].at = "idle" /\ Lies("queued", i)
        /\ intent' = [intent EXCEPT !["queued"][i] = doc]
        /\ leased' = leased \union {i}
        /\ pass' = [pass EXCEPT ![w] = new]
        /\ UNCHANGED <<source, staged, reports, faults>>
        /\ \A v \in Passes : ~HoldsIndex(v)
    BY DEF Claims, ClaimsWhen, FirstInQueue, MaintenanceInv, IndexLocked, HoldsIndex
  <1>2. old \in Doc
    BY <1>1 DEF MaintenanceTypes, IntentDirectories
  <1>3. half \in Doc /\ half.status = "PROCESSING" /\ half.source = old.source /\ old.try + 1 \in Nat
    BY <1>2 DEF Doc
  <1> HIDE DEF half
  <1>4. doc \in Doc /\ doc.status = "PROCESSING" /\ doc.source = old.source /\ doc.try = old.try + 1
    BY <1>3 DEF Doc
  <1> HIDE DEF doc
  <1>5. one \in PassStates /\ one.at = "claimed" /\ one.made = NoReport
    BY RestFacts DEF PassStates, PassSteps
  <1> HIDE DEF one
  <1>6. two \in PassStates /\ two.at = "claimed" /\ two.i = i /\ two.made = NoReport
    BY <1>5 DEF PassStates
  <1> HIDE DEF two
  <1>7. new \in PassStates /\ new.at = "claimed" /\ new.i = i /\ new.doc = doc /\ new.made = NoReport
    BY <1>4, <1>6 DEF PassStates
  <1> HIDE DEF new
  <1>8. /\ pass' \in [Passes -> PassStates] /\ pass'[w] = new
        /\ \A v \in Passes \ {w} : pass'[v] = pass[v]
    BY <1>1, <1>7, PassWritten
  <1>9. /\ intent' \in [IntentDirectories -> [Intents -> Doc]]
        /\ intent'["queued"][i] = doc
        /\ \A e \in IntentDirectories, j \in Intents : e # "queued" \/ j # i => intent'[e][j] = intent[e][j]
        /\ \A j \in Intents : Known(j) => Known(j)'
        /\ Known(i)'
    BY <1>1, <1>4, IntentWritten, DirectoriesKeep, RestFacts DEF IntentDirectories, Known
  <1>10. MaintenanceTypes'
    BY <1>1, <1>8, <1>9 DEF MaintenanceTypes
  <1>11. ASSUME NEW j \in Intents, Lies("queued", j)'
         PROVE  /\ intent'["queued"][j].status \in {"QUEUED", "PROCESSING"}
                /\ Lies("queued", j) /\ intent'["queued"][j].source = intent["queued"][j].source
                /\ intent["queued"][j].try <= intent'["queued"][j].try
    <2>1. CASE j = i
      BY <1>1, <1>2, <1>4, <1>9, <2>1 DEF Doc
    <2>2. CASE j # i
      <3>1. intent'["queued"][j] = intent["queued"][j] /\ intent["queued"][j].try \in Nat
        BY <1>1, <1>9, <2>2 DEF IntentDirectories, MaintenanceTypes, Doc
      <3> QED
        BY <1>11, <3>1 DEF MaintenanceInv, ClaimsAreDistinct, Lies
    <2> QED
      BY <2>1, <2>2
  <1>12. Claim(w)'
    <2>1. doc.try <= intent'["queued"][i].try /\ doc.source = intent'["queued"][i].source
      BY <1>4, <1>9 DEF Doc
    <2> QED
      BY <1>4, <1>7, <1>8, <1>9, <2>1 DEF Claim, Known, Lies
  <1>13. Work(w)' /\ ~HoldsIndex(w)'
    BY <1>7, <1>8 DEF Work, HoldsIndex
  <1>14. CompletedHasReport'
    BY <1>1, <1>9 DEF MaintenanceInv, CompletedHasReport, Lies, IntentDirectories
  <1>15. ASSUME NEW v \in Passes \ {w}, Active(v), pass[v].i = i  PROVE pass[v].doc.try # doc.try
    <2>1. pass[v].doc.try <= old.try /\ pass[v].doc.try \in Nat /\ old.try \in Nat
      BY <1>1, <1>2, <1>15 DEF MaintenanceInv, ClaimsAreDistinct, Claim, MaintenanceTypes, PassStates, Doc
    <2> QED
      BY <1>4, <2>1
  <1>16. pass'[w].at = "claimed"
    BY <1>7, <1>8
  <1> HIDE DEF old
  <1> QED
    BY <1>1, <1>7, <1>8, <1>9, <1>10, <1>11, <1>12, <1>13, <1>14, <1>15, <1>16, IntentsMove

\* The steps inside the group of writes, and the failure that opens it.
LEMMA ClosingKeeps ==
  ASSUME MaintenanceInv, NEW w \in Passes, Completes(w) \/ Unclaims(w) \/ Fails(w)
  PROVE  MaintenanceInv' /\ \A j \in Intents : Settled(j) => Settled(j)'
  <1>1. /\ MaintenanceTypes /\ pass[w] \in PassStates /\ Claim(w) /\ Work(w)
        /\ UNCHANGED <<source, reports, faults>>
    BY DEF MaintenanceInv, MaintenanceTypes, ClaimsAreDistinct, WorkIsOrdered, Completes, Unclaims, Fails
  <1>2. PICK i \in Intents : i = pass[w].i /\ Active(w) /\ Known(i) /\ pass[w].doc.status = "PROCESSING"
    BY <1>1 DEF Claim, Active, Completes, Unclaims, Fails
  <1>3. \A v \in Passes \ {w} : ~HoldsIndex(v)
    <2>1. HoldsIndex(w) \/ ~IndexLocked
      BY DEF HoldsIndex, Completes, Unclaims, Fails
    <2> QED
      BY <2>1 DEF MaintenanceInv, IndexIsLocked, IndexLocked, HoldsIndex
  <1>4. /\ pass[w].doc.try \in Nat /\ pass[w].doc \in Doc
        /\ \A j \in Intents : intent["queued"][j] \in Doc /\ intent["queued"][j].try \in Nat
    BY <1>1 DEF MaintenanceTypes, PassStates, Doc, IntentDirectories
  <1>5. ASSUME NEW d \in {"completed", "failed"}, NEW doc \in Doc, NEW at \in {"unclaim", "unclaim_failed"},
               doc.status # "ABSENT", doc.source = pass[w].doc.source, Current(w),
               d = "completed" => ValidFor(reports[i], pass[w].doc) /\ at = "unclaim",
               d = "failed" => at = "unclaim_failed",
               intent' = [intent EXCEPT ![d][i] = doc], Goes(w, at), UNCHANGED <<leased, staged>>
        PROVE  MaintenanceInv' /\ \A j \in Intents : Settled(j) => Settled(j)'
    <2>1. /\ intent' \in [IntentDirectories -> [Intents -> Doc]]
          /\ intent'[d][i] = doc /\ Lies(d, i)'
          /\ \A e \in IntentDirectories, j \in Intents : e # d \/ j # i => intent'[e][j] = intent[e][j]
          /\ \A j \in Intents : Known(j) => Known(j)'
      <3>1. doc # NoIntent /\ d \in IntentDirectories
        BY <1>5, RestFacts DEF IntentDirectories
      <3> QED
        <4>1. /\ intent' \in [IntentDirectories -> [Intents -> Doc]]
              /\ intent'[d][i] = doc
              /\ \A e \in IntentDirectories, j \in Intents : e # d \/ j # i => intent'[e][j] = intent[e][j]
          BY <1>1, <1>5, <3>1 DEF MaintenanceTypes
        <4>2. Lies(d, i)' /\ \A j \in Intents : Known(j) => Known(j)'
          BY <1>1, <1>5, <3>1, DirectoriesKeep
        <4> QED
          BY <4>1, <4>2
    <2>2. /\ pass' \in [Passes -> PassStates] /\ \A v \in Passes \ {w} : pass'[v] = pass[v]
          /\ pass'[w].at = at /\ pass'[w].i = i /\ pass'[w].doc = pass[w].doc /\ pass'[w].made = pass[w].made
      BY <1>1, <1>2, <1>5, PassGoes DEF PassSteps
    <2>3. MaintenanceTypes'
      BY <1>1, <1>5, <2>1, <2>2 DEF MaintenanceTypes
    <2>4. \A j \in Intents : intent'["queued"][j] = intent["queued"][j]
      BY <2>1 DEF IntentDirectories
    <2>5. ASSUME NEW j \in Intents, Lies("queued", j)'
          PROVE  /\ intent'["queued"][j].status \in {"QUEUED", "PROCESSING"}
                 /\ Lies("queued", j) /\ intent'["queued"][j].source = intent["queued"][j].source
                 /\ intent["queued"][j].try <= intent'["queued"][j].try
      <3>1. intent'["queued"][j] = intent["queued"][j] /\ intent["queued"][j].try \in Nat
        BY <1>4, <2>4
      <3> QED
        BY <2>5, <3>1 DEF MaintenanceInv, ClaimsAreDistinct, Lies
    <2>6. CompletedHasReport'
      <3>1. d = "completed" => ValidFor(reports[i], doc)
        BY <1>5 DEF ValidFor
      <3> QED
        BY <1>1, <2>1, <3>1 DEF MaintenanceInv, CompletedHasReport, Lies, IntentDirectories, ValidFor
    <2>7. Active(w)' /\ Current(w)'
      BY <1>2, <1>5, <2>2, <2>4 DEF Active, Current, Lies
    <2>8. Claim(w)'
      BY <1>1, <1>2, <2>1, <2>2, <2>4 DEF Claim, Active, Lies, Known
    <2>9. Work(w)'
      BY <1>1, <1>2, <1>5, <2>2 DEF Work, ValidFor
    <2>10. \A v \in Passes \ {w} :
             ~(Active(v) /\ Active(w)' /\ pass[v].i = pass'[w].i /\ pass[v].doc.try = pass'[w].doc.try)
      BY <1>2, <2>2 DEF MaintenanceInv, ClaimsAreDistinct
    <2>11. /\ at = "unclaim" => Lies("completed", i)'
           /\ at = "unclaim_failed" => Lies("failed", i)'
      BY <1>5, <2>1
    <2>12. /\ pass'[w].at = "unclaim" => Lies("completed", pass[w].i)' /\ pass'[w].i = pass[w].i
           /\ pass'[w].at = "unclaim_failed" => Lies("failed", pass[w].i)' /\ pass'[w].i = pass[w].i
      BY <1>2, <2>2, <2>11 DEF Lies
    <2>13. HoldsIndex(w)' => Current(w)'
      BY <2>7
    <2> QED
      BY <1>1, <1>3, <2>1, <2>2, <2>3, <2>5, <2>6, <2>8, <2>9, <2>10, <2>12, <2>13, IntentsMove
  <1>6. ASSUME Rests(w), NEW doc \in Doc, intent' = [intent EXCEPT !["queued"][i] = doc],
               \/ doc = NoIntent /\ (Lies("completed", i) \/ Lies("failed", i))
               \/ /\ doc.status = "QUEUED" /\ doc.try = intent["queued"][i].try
                  /\ doc.source = intent["queued"][i].source /\ Lies("queued", i),
               leased' \subseteq leased, staged' \in [Intents -> Report]
        PROVE  MaintenanceInv' /\ \A j \in Intents : Settled(j) => Settled(j)'
    <2>1. /\ intent' \in [IntentDirectories -> [Intents -> Doc]]
          /\ intent'["queued"][i] = doc
          /\ \A e \in IntentDirectories, j \in Intents : e # "queued" \/ j # i => intent'[e][j] = intent[e][j]
      <3>1. "queued" \in IntentDirectories
        BY DEF IntentDirectories
      <3> QED
        BY <1>1, <1>6, <3>1 DEF MaintenanceTypes
    <2>2. /\ pass' \in [Passes -> PassStates] /\ \A v \in Passes \ {w} : pass'[v] = pass[v]
          /\ pass'[w].at = "idle"
      BY <1>1, <1>6, PassRests
    <2>3. MaintenanceTypes'
      BY <1>1, <1>6, <2>1, <2>2 DEF MaintenanceTypes
    <2>4. \A j \in Intents : Known(j) => Known(j)'
      <3>1. Known(i)'
        <4>1. CASE Lies("queued", i) /\ doc.status = "QUEUED"
          BY <2>1, <4>1, RestFacts DEF Known, Lies, IntentDirectories
        <4>2. CASE Lies("completed", i) \/ Lies("failed", i)
          BY <2>1, <4>2 DEF Known, Lies, IntentDirectories
        <4> QED
          BY <1>6, <4>1, <4>2
      <3> QED
        BY <2>1, <3>1 DEF Known, Lies, IntentDirectories
    <2>5. ASSUME NEW j \in Intents, Lies("queued", j)'
          PROVE  /\ intent'["queued"][j].status \in {"QUEUED", "PROCESSING"}
                 /\ Lies("queued", j) /\ intent'["queued"][j].source = intent["queued"][j].source
                 /\ intent["queued"][j].try <= intent'["queued"][j].try
      <3>1. CASE j = i
        BY <1>4, <1>6, <2>1, <2>5, <3>1 DEF Lies
      <3>2. CASE j # i
        <4>1. intent'["queued"][j] = intent["queued"][j] /\ intent["queued"][j].try \in Nat
          BY <1>4, <2>1, <3>2 DEF IntentDirectories
        <4> QED
          BY <2>5, <4>1 DEF MaintenanceInv, ClaimsAreDistinct, Lies
      <3> QED
        BY <3>1, <3>2
    <2>6. CompletedHasReport'
      BY <1>1, <2>1 DEF MaintenanceInv, CompletedHasReport, Lies, IntentDirectories
    <2>7. ~Active(w)' /\ ~HoldsIndex(w)' /\ Claim(w)' /\ Work(w)'
      BY <2>2 DEF Active, HoldsIndex, Claim, Work, Current
    <2> QED
      BY <1>1, <1>3, <2>2, <2>3, <2>4, <2>5, <2>6, <2>7, IntentsMove
  <1>7. CASE Completes(w)
    <2> DEFINE doc == [pass[w].doc EXCEPT !.status = "COMPLETED"]
    <2>1. /\ pass[w].at = "complete" /\ intent' = [intent EXCEPT !["completed"][i] = doc]
          /\ Goes(w, "unclaim") /\ UNCHANGED <<leased, staged>>
      BY <1>2, <1>7 DEF Completes
    <2>2. doc \in Doc /\ doc.status = "COMPLETED" /\ doc.source = pass[w].doc.source
      BY <1>4 DEF Doc
    <2>3. Current(w)
      BY <2>1 DEF MaintenanceInv, IndexIsLocked, HoldsIndex
    <2>4. ValidFor(reports[i], pass[w].doc)
      BY <1>1, <1>2, <2>1, <2>3 DEF Work
    <2> HIDE DEF doc
    <2> QED
      BY <1>5, <2>1, <2>2, <2>3, <2>4
  <1>8. CASE Unclaims(w)
    <2>1. /\ pass[w].at \in {"unclaim", "unclaim_failed"}
          /\ intent' = [intent EXCEPT !["queued"][i] = NoIntent]
          /\ leased' = leased \ {i} /\ Rests(w)
      BY <1>2, <1>8 DEF Unclaims
    <2>2. Lies("completed", i) \/ Lies("failed", i)
      BY <1>2, <2>1 DEF MaintenanceInv, IndexIsLocked
    <2>3. staged' \in [Intents -> Report]
      BY <1>1, <1>8, RestFacts DEF Unclaims, MaintenanceTypes
    <2> QED
      <3>1. NoIntent \in Doc /\ leased' \subseteq leased
        BY <2>1, RestFacts
      <3> QED
        BY <1>6, <2>1, <2>2, <2>3, <3>1
  <1>9. CASE Fails(w)
    <2>1. pass[w].at = "failing" /\ ~IndexLocked /\ staged' = staged /\ staged \in [Intents -> Report]
      BY <1>1, <1>9 DEF Fails, MaintenanceTypes
    <2>2. CASE Rests(w) /\ UNCHANGED <<intent, leased>>
      <3>1. /\ pass' \in [Passes -> PassStates] /\ \A v \in Passes \ {w} : pass'[v] = pass[v]
            /\ pass'[w].at = "idle"
        BY <1>1, <2>2, PassRests
      <3>2. MaintenanceTypes'
        BY <1>1, <2>1, <2>2, <3>1 DEF MaintenanceTypes
      <3>3. MaintenanceInv'
        BY <1>1, <2>2, <3>1, <3>2, PassMoves DEF Active, HoldsIndex, Work, Current
      <3> QED
        BY <2>2, <3>3 DEF Settled, Known, Lies
    <2>3. CASE Owns(w) /\ intent' = [intent EXCEPT !["queued"][i].status = "QUEUED"] /\ Rests(w) /\ UNCHANGED leased
      <3> DEFINE doc == [intent["queued"][i] EXCEPT !.status = "QUEUED"]
      <3>1. Current(w)
        BY <1>2, <2>3, OwnerIsCurrent
      <3>2. doc \in Doc /\ doc.status = "QUEUED" /\ doc.try = intent["queued"][i].try
            /\ doc.source = intent["queued"][i].source
        BY <1>2, <1>4 DEF Doc
      <3>3. intent' = [intent EXCEPT !["queued"][i] = doc]
        BY <2>3
      <3> HIDE DEF doc
      <3> QED
        BY <1>2, <1>6, <2>1, <2>3, <3>1, <3>2, <3>3 DEF Current
    <2>4. CASE /\ Owns(w) /\ intent' = [intent EXCEPT !["failed"][i] = [pass[w].doc EXCEPT !.status = "FAILED"]]
               /\ Goes(w, "unclaim_failed") /\ UNCHANGED leased
      <3> DEFINE doc == [pass[w].doc EXCEPT !.status = "FAILED"]
      <3>1. Current(w)
        BY <1>2, <2>4, OwnerIsCurrent
      <3>2. doc \in Doc /\ doc.status = "FAILED" /\ doc.source = pass[w].doc.source
        BY <1>4 DEF Doc
      <3> HIDE DEF doc
      <3>3. intent' = [intent EXCEPT !["failed"][i] = doc]
        BY <2>4 DEF doc
      <3> QED
        BY <1>5, <2>1, <2>4, <3>1, <3>2, <3>3
    <2> QED
      BY <1>2, <1>9, <2>2, <2>3, <2>4 DEF Fails
  <1> QED
    BY <1>7, <1>8, <1>9

LEMMA MaintenanceStepKeeps ==
  ASSUME MaintenanceInv, [MaintenanceNext]_maintenanceVars
  PROVE  MaintenanceInv'
  <1>1. CASE UNCHANGED maintenanceVars
    BY <1>1, NothingMoves DEF maintenanceVars, MaintenanceInv, MaintenanceTypes
  <1>2. ASSUME NEW w \in Passes, PassStep(w) \/ Raises(w) \/ TimesOut(w) \/ Dies(w)  PROVE MaintenanceInv'
    <2>1. CASE \E i \in Intents : Claims(w, i)
      BY <2>1, ClaimingKeeps
    <2>2. CASE Schedules(w) \/ Publishes(w) \/ Completes(w) \/ Unclaims(w) \/ Fails(w)
      BY <2>2, SchedulingKeeps, PublicationKeeps, ClosingKeeps
    <2> QED
      BY <1>2, <2>1, <2>2, PassStepsKeep DEF PassStep
  <1> QED
    BY <1>1, <1>2, ClocksKeep DEF MaintenanceNext

\* Every try of an intent is claimed once, who writes is the current owner, and
\* how far it has come says whether the report is out.
THEOREM MaintenanceInvariant == MaintenanceSpec => []MaintenanceInv
  <1>1. MaintenanceInv /\ [MaintenanceNext]_maintenanceVars => MaintenanceInv'
    BY MaintenanceStepKeeps
  <1> QED
    BY <1>1, MaintenanceStart, PTL DEF MaintenanceSpec

\* A published report is of one revision, and an intent in completed/ has its
\* report, whatever step a pass died in and however often leases ran out.
THEOREM ReportsSound == MaintenanceSpec => []ReportsAreSound
  <1>1. MaintenanceInv => ReportsAreSound
    BY DEF MaintenanceInv, ReportsFit, ReportsAreSound, ReportIsOfOneSource
  <1> QED
    BY <1>1, MaintenanceInvariant, PTL

\* No published report is replaced, and no settled intent comes back.
THEOREM ReportFinal == MaintenanceSpec => ReportIsFinal
  <1> DEFINE Final == \A i \in Intents : /\ reports[i] # NoReport => reports'[i] = reports[i]
                                         /\ Settled(i) => Settled(i)'
  <1>1. ASSUME MaintenanceInv, MaintenanceNext  PROVE Final
    <2>1. CASE UNCHANGED <<intent, reports>>
      BY <2>1 DEF Settled, Known, Lies
    <2>2. CASE \E w \in Passes : Publishes(w)
      <3>1. PICK w \in Passes : Publishes(w)
        BY <2>2
      <3>2. intent' = intent
        BY <3>1 DEF Publishes
      <3> QED
        BY <1>1, <3>1, <3>2, PublicationKeeps DEF Settled, Known, Lies
    <2>3. CASE \E w \in Passes : Schedules(w) \/ Completes(w) \/ Unclaims(w) \/ Fails(w)
                                 \/ \E i \in Intents : Claims(w, i)
      <3>1. reports' = reports
        BY <2>3 DEF Schedules, Completes, Unclaims, Fails, Claims, ClaimsWhen
      <3>2. \A j \in Intents : Settled(j) => Settled(j)'
        BY <1>1, <2>3, SchedulingKeeps, ClosingKeeps, ClaimingKeeps
      <3> QED
        BY <3>1, <3>2
    <2> QED
      BY <1>1, <2>1, <2>2, <2>3
         DEF MaintenanceNext, PassStep, CanonicalWrite, LeaseRunsOut, ReadsSource, Resumes, Runs, Accepts,
             Stages, Finishes, Raises, TimesOut, Dies, work
  <1>2. MaintenanceInv /\ [MaintenanceNext]_maintenanceVars => [Final]_maintenanceVars
    BY <1>1
  <1> QED
    BY <1>2, MaintenanceInvariant, PTL DEF MaintenanceSpec, ReportIsFinal
=============================================================================

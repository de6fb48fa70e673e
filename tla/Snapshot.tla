------------------------------ MODULE Snapshot ------------------------------
(***************************************************************************)
(* Backup and restore (src/scripts/memory_backup.py): the four sources are *)
(* read one after the other while their owners go on writing; two passes   *)
(* that agree make an archive, which is put in place under a lock, read    *)
(* again, and restored only into a vault that does not exist yet.          *)
(***************************************************************************)
EXTENDS Integers

CONSTANTS Scopes,        \* projects that are registered
          MaxAttempts,   \* MAX_SNAPSHOT_ATTEMPTS
          MaxWrites,     \* bound on what the owners write
          MaxCrashes     \* bound on crashes of a restore

ASSUME SnapshotAssumption ==
  MaxAttempts \in Nat \ {0} /\ MaxWrites \in Nat /\ MaxCrashes \in Nat

VARIABLES vault,     \* the sources
          writes,
          saving,    \* create_backup: what it does, its attempt and passes
          archive,   \* the file at the archive path, and who put it there
          target,    \* the vault restored into
          copying,   \* restore_backup: what it does and its staged copy
          crashes,
          moments    \* history: the authorities' contents during the attempt

snapshotVars == <<vault, writes, saving, archive, target, copying, crashes, moments>>

\* SOURCE_ARCHIVE_PATHS, in the order they are read.
Sources == <<"canonical", "registry", "settings", "state">>
Authorities == {"canonical", "registry", "state"}
NoFile == [revision |-> 0, scopes |-> {}]
Nothing == [f \in {"canonical", "registry", "settings", "state"} |-> NoFile]
Authority(files) == [f \in Authorities |-> files[f]]
Quiet == [at |-> "idle", attempt |-> 0, next |-> 1, first |-> Nothing, second |-> Nothing]
NoArchive == [by |-> "nobody", files |-> Nothing]
Copy == [at |-> "idle", next |-> 1, files |-> Nothing]

SnapshotInit ==
  /\ vault = [Nothing EXCEPT !["canonical"].revision = 1]
  /\ writes = 0 /\ saving = Quiet /\ archive = NoArchive
  /\ target = Nothing /\ copying = Copy /\ crashes = 0 /\ moments = {}

-----------------------------------------------------------------------------
(* The owners of the sources, external to this file.  Every write of an    *)
(* authority raises its revision; the settings may go back to what they    *)
(* were.                                                                   *)

OwnerWrites(f, content) ==
  /\ writes < MaxWrites /\ writes' = writes + 1
  /\ vault' = [vault EXCEPT ![f] = content]
  /\ moments' = moments \union {Authority(vault')}
  /\ UNCHANGED <<saving, archive, target, copying, crashes>>

Renews(f, scopes) == OwnerWrites(f, [revision |-> vault[f].revision + 1, scopes |-> scopes])

Registers(p) ==
  /\ p \notin vault["registry"].scopes
  /\ Renews("registry", vault["registry"].scopes \union {p})
RollsBack(p) ==
  /\ p \in vault["registry"].scopes
  /\ Renews("registry", vault["registry"].scopes \ {p})
Remembers(p) ==
  /\ p \in vault["registry"].scopes
  /\ Renews("canonical", vault["canonical"].scopes \union {p})
Tracks(p) ==
  /\ p \in vault["registry"].scopes
  /\ Renews("state", vault["state"].scopes \union {p})
Sets(n) ==
  /\ n # vault["settings"].revision
  /\ OwnerWrites("settings", [revision |-> n, scopes |-> {}])

-----------------------------------------------------------------------------
(* create_backup                                                           *)

Present(files, f) == files[f] # NoFile

\* _validate_snapshot: memory and state name registered projects only.
ValidSnapshot(files) ==
  /\ Present(files, "canonical")
  /\ files["canonical"].scopes \subseteq files["registry"].scopes
  /\ Present(files, "state") => /\ Present(files, "registry")
                                /\ files["state"].scopes \subseteq files["registry"].scopes

BackupDoes(new) ==
  /\ saving' = new
  /\ UNCHANGED <<vault, writes, target, copying, crashes>>

StartsAttempt ==
  /\ saving.at = "idle" /\ saving.attempt < MaxAttempts
  /\ moments' = {Authority(vault)}
  /\ BackupDoes([Quiet EXCEPT !.at = "first", !.attempt = saving.attempt + 1])
  /\ UNCHANGED archive

\* _read_source_file, one file of a pass.
ReadsFile(pass) ==
  /\ saving.at = pass /\ saving.next <= 4
  /\ LET f == Sources[saving.next] IN
     BackupDoes([saving EXCEPT ![pass][f] = vault[f], !.next = @ + 1])
  /\ UNCHANGED <<archive, moments>>

\* An invalid pass ends the call, torn or not.
EndsPass(pass, then) ==
  /\ saving.at = pass /\ saving.next = 5
  /\ BackupDoes(IF ValidSnapshot(saving[pass]) THEN [saving EXCEPT !.at = then, !.next = 1]
                ELSE [Quiet EXCEPT !.at = "error"])
  /\ UNCHANGED <<archive, moments>>

\* SNAPSHOT_ATTEMPT_BUDGET_SECONDS
TakesTooLong ==
  /\ saving.at \in {"first", "second"} /\ saving.next = 5
  /\ BackupDoes([Quiet EXCEPT !.at = "error"])
  /\ UNCHANGED <<archive, moments>>

\* Bug: only the canonical memory of the two passes is compared.
ComparesCanonical ==
  /\ saving.at = "compare"
  /\ BackupDoes(IF saving.first["canonical"] = saving.second["canonical"] THEN [saving EXCEPT !.at = "archive"]
                ELSE [Quiet EXCEPT !.at = IF saving.attempt = MaxAttempts THEN "error" ELSE "idle",
                                   !.attempt = saving.attempt])
  /\ UNCHANGED <<archive, moments>>

\* _changed_source_paths
Compares ==
  /\ saving.at = "compare"
  /\ BackupDoes(IF saving.first = saving.second THEN [saving EXCEPT !.at = "archive"]
                ELSE [Quiet EXCEPT !.at = IF saving.attempt = MaxAttempts THEN "error" ELSE "idle",
                                   !.attempt = saving.attempt])
  /\ UNCHANGED <<archive, moments>>

\* The first look at the archive path.
Prepares ==
  /\ saving.at = "archive"
  /\ BackupDoes([saving EXCEPT !.at = IF archive = NoArchive THEN "write" ELSE "error"])
  /\ UNCHANGED <<archive, moments>>

\* Bug: the path is not looked at again under the lock.
PublishesOver ==
  /\ saving.at = "write"
  /\ archive' = [by |-> "backup", files |-> saving.second]
  /\ BackupDoes([saving EXCEPT !.at = "sync"])
  /\ UNCHANGED moments

\* _atomic_create_archive, under the lock of the path.
PublishesArchive ==
  /\ saving.at = "write"
  /\ IF archive = NoArchive
     THEN /\ archive' = [by |-> "backup", files |-> saving.second]
          /\ BackupDoes([saving EXCEPT !.at = "sync"])
     ELSE UNCHANGED archive /\ BackupDoes([Quiet EXCEPT !.at = "error"])
  /\ UNCHANGED moments

\* The directory entry is made durable; failing that, the archive is taken
\* away again.
Syncs ==
  /\ saving.at = "sync"
  /\ \/ UNCHANGED archive /\ BackupDoes([saving EXCEPT !.at = "created"])
     \/ archive' = NoArchive /\ BackupDoes([Quiet EXCEPT !.at = "error"])
  /\ UNCHANGED moments

\* Another call for the same path.
RivalPublishes ==
  /\ archive = NoArchive /\ saving.at \in {"archive", "write"}
  /\ archive' = [by |-> "rival", files |-> [Nothing EXCEPT !["canonical"].revision = 1]]
  /\ UNCHANGED <<vault, writes, saving, target, copying, crashes, moments>>

-----------------------------------------------------------------------------
(* restore_backup                                                          *)

CopyDoes(new) ==
  /\ copying' = new
  /\ UNCHANGED <<vault, writes, saving, archive, moments>>

\* The archive of a call that is over was verified; an existing vault is left
\* alone.
StartsRestore ==
  /\ copying.at = "idle" /\ archive # NoArchive /\ saving.at \notin {"sync"}
  /\ target = Nothing
  /\ CopyDoes([Copy EXCEPT !.at = "staging"])
  /\ UNCHANGED <<target, crashes>>

\* Bug: the files are written into the vault itself.
CopiesInPlace ==
  /\ copying.at = "staging" /\ copying.next <= 4
  /\ LET f == Sources[copying.next] IN
     /\ CopyDoes([copying EXCEPT !.files[f] = archive.files[f], !.next = @ + 1])
     /\ target' = [target EXCEPT ![f] = archive.files[f]]
  /\ UNCHANGED crashes

\* One file of the staging directory.
Copies ==
  /\ copying.at = "staging" /\ copying.next <= 4
  /\ LET f == Sources[copying.next] IN
     CopyDoes([copying EXCEPT !.files[f] = archive.files[f], !.next = @ + 1])
  /\ UNCHANGED <<target, crashes>>

\* The staged copy is read once more and becomes the vault in one rename.
Replaces ==
  /\ copying.at = "staging" /\ copying.next = 5
  /\ target' = IF target = Nothing /\ ValidSnapshot(copying.files) THEN copying.files ELSE target
  /\ CopyDoes(Copy)
  /\ UNCHANGED crashes

RestoreCrashes ==
  /\ copying.at = "staging" /\ crashes < MaxCrashes
  /\ crashes' = crashes + 1 /\ CopyDoes(Copy)
  /\ UNCHANGED target

-----------------------------------------------------------------------------
SnapshotNext ==
  \/ \E p \in Scopes : Registers(p) \/ RollsBack(p) \/ Remembers(p) \/ Tracks(p)
  \/ \E n \in {1, 2} : Sets(n)
  \/ StartsAttempt \/ ReadsFile("first") \/ ReadsFile("second")
  \/ EndsPass("first", "second") \/ EndsPass("second", "compare") \/ TakesTooLong
  \/ Compares \/ Prepares \/ PublishesArchive \/ Syncs \/ RivalPublishes
  \/ StartsRestore \/ Copies \/ Replaces \/ RestoreCrashes

SnapshotSpec == SnapshotInit /\ [][SnapshotNext]_snapshotVars

-----------------------------------------------------------------------------
(* Properties                                                              *)

\* The authorities of an archive stood together in the vault at one moment
\* of the attempt that made it, however their owners wrote meanwhile.
ArchiveIsAMoment ==
  archive.by = "backup" /\ saving.at \in {"sync", "created"} => Authority(archive.files) \in moments

\* A vault is restored whole or not at all, whenever the restore dies.
RestoredIsWhole == target = Nothing \/ target = archive.files

\* Both: a backup is of one moment and comes back as it was.
BackupIsWhole == ArchiveIsAMoment /\ RestoredIsWhole

\* Of two calls for one path the second never replaces the archive of the
\* first, nor takes it away when its own one fails.
ArchiveIsFinal ==
  [][/\ archive.by = "rival" => archive' = archive
     /\ archive.by = "backup" => archive' \in {archive, NoArchive}]_snapshotVars
=============================================================================

------------------------------- MODULE Backups -------------------------------
(***************************************************************************)
(* The backups of services/backup_service.py, run by the commands of        *)
(* scripts/backup_cli.py: each is a process of its own (a person's, or a    *)
(* scheduled one), and nothing excludes another.                            *)
(*                                                                          *)
(* A backup is a file and an entry of backup_metadata.json, which is read   *)
(* as a whole, changed in memory, truncated and written anew.  One          *)
(* retention category is modelled; backups are numbered by created_at.      *)
(***************************************************************************)
EXTENDS Integers, FiniteSets

CONSTANTS Processes,
          MaxBackups,    \* bound on the backups that are created
          MaxCommands,   \* bound on the commands that are run
          Keep           \* retention_policy of the category

ASSUME BackupAssumption == MaxBackups \in Nat /\ MaxCommands \in Nat /\ Keep \in Nat \ {0}

VARIABLES files,      \* backups whose file exists
          index,      \* status of the backups that the metadata file lists
          torn,       \* the metadata file is empty, or half written
          command,    \* what each process does
          created,    \* backups begun so far
          commands,   \* commands to be run
          exclusive,     \* one command at a time
          crashes,     \* whether processes may die
          completed   \* history: backups whose file was ever whole

backupVars ==
  <<files, index, torn, command, created, commands, exclusive, crashes, completed>>

Backup == 1..MaxBackups

Status == {"absent", "completed", "failed", "verified"}

Index == [Backup -> Status]

\* What a process is about to do, with the backup it is about and the index as
\* it remembers it.
Command ==
  [at : {"none", "dumping", "reading", "writing", "checking", "unlinking", "truncated"},
   what : {"create", "verify", "prune"}, backup : 0..MaxBackups, status : Status,
   loaded : Index]

NoIndex == [b \in Backup |-> "absent"]

NoCommand ==
  [at |-> "none", what |-> "create", backup |-> 0, status |-> "absent", loaded |-> NoIndex]

BackupTypeOK ==
  /\ files \in SUBSET Backup
  /\ index \in Index
  /\ torn \in BOOLEAN /\ exclusive \in BOOLEAN /\ crashes \in BOOLEAN
  /\ command \in [Processes -> Command]
  /\ created \in 0..MaxBackups
  /\ commands \in 0..MaxCommands
  /\ completed \in SUBSET Backup

BackupInit ==
  /\ files = {} /\ index = NoIndex /\ torn = FALSE
  /\ command = [p \in Processes |-> NoCommand]
  /\ created = 0 /\ commands = MaxCommands
  /\ exclusive \in BOOLEAN /\ crashes \in BOOLEAN
  /\ completed = {}

Usable(i) == {b \in Backup : i[b] \in {"completed", "verified"}}

Begin(p) ==
  /\ command[p].at = "none" /\ commands > 0
  /\ exclusive => \A q \in Processes : command[q].at = "none"
  /\ commands' = commands - 1

Do(p, next) == command' = [command EXCEPT ![p] = next]

-----------------------------------------------------------------------------
\* The identifier is the time, to the second; two in one second would share it.
create_backup(p) ==
  /\ Begin(p)
  /\ created < MaxBackups
  /\ created' = created + 1
  /\ Do(p, [NoCommand EXCEPT !.at = "dumping", !.backup = created + 1])
  /\ UNCHANGED <<files, index, torn, exclusive, crashes, completed>>

\* pg_dump, compression, encryption, checksum and upload.  If only the last of
\* them fails, the backup is FAILED and has a file and a checksum all the same.
dump(p) ==
  /\ command[p].at = "dumping"
  /\ LET b == command[p].backup IN
     \E status \in {"completed", "failed"}, made \in SUBSET {b} :
       /\ status = "completed" => made = {b}
       /\ files' = files \cup made
       /\ completed' = completed \cup made
       /\ Do(p, [command[p] EXCEPT !.at = "reading", !.status = status])
  /\ UNCHANGED <<index, torn, created, commands, exclusive, crashes>>

\* verify_backup looks its backup up in the index and compares checksums.
verify_backup(p) ==
  /\ Begin(p)
  /\ ~torn
  /\ \E b \in Backup :
       /\ index[b] # "absent"
       /\ Do(p, [NoCommand EXCEPT !.at = "checking", !.what = "verify", !.backup = b])
  /\ UNCHANGED <<files, index, torn, created, exclusive, crashes, completed>>

check(p) ==
  /\ command[p].at = "checking"
  /\ Do(p, IF command[p].backup \in files
           THEN [command[p] EXCEPT !.at = "reading", !.status = "verified"]
           ELSE NoCommand)
  /\ UNCHANGED <<files, index, torn, created, commands, exclusive, crashes, completed>>

\* list_backups, at the start of prune_backups.
prune_backups(p) ==
  /\ Begin(p)
  /\ ~torn
  /\ Do(p, [NoCommand EXCEPT !.at = "unlinking", !.what = "prune", !.loaded = index])
  /\ UNCHANGED <<files, index, torn, created, exclusive, crashes, completed>>

\* All but the newest ones of those that are usable.
ToDeleteOldestKept(i) ==
  {b \in Usable(i) : Cardinality({c \in Usable(i) : c < b}) >= Keep}

ToDelete(i) == {b \in Usable(i) : Cardinality({c \in Usable(i) : c > b}) >= Keep}

\* Their files are deleted one by one; a death may leave some.
unlink(p) ==
  /\ command[p].at = "unlinking"
  /\ \E done \in SUBSET ToDelete(command[p].loaded) :
       /\ files' = files \ done
       /\ \/ /\ done = ToDelete(command[p].loaded)
             /\ Do(p, [command[p] EXCEPT !.at = "reading"])
          \/ crashes /\ Do(p, NoCommand)
  /\ UNCHANGED <<index, torn, created, commands, exclusive, crashes, completed>>

\* As if the deleted backups stayed in the index.
PrunedUnfiltered(listed) == index

\* What prune_backups writes: the entries that it has listed and not deleted, as
\* they are by now.  One that was added meanwhile is lost.
Pruned(listed) ==
  [b \in Backup |-> IF listed[b] # "absent" /\ b \notin ToDelete(listed)
                    THEN index[b] ELSE "absent"]

\* The metadata file is loaded, once more if the command has done so already;
\* that fails if it is torn, in create_backup for the second time in its
\* exception handler.
load(p) ==
  LET c == command[p]
      changed == IF c.what = "prune" THEN Pruned(c.loaded)
                 ELSE [index EXCEPT ![c.backup] = c.status]
  IN /\ c.at = "reading"
     /\ Do(p, IF torn THEN NoCommand ELSE [c EXCEPT !.at = "writing", !.loaded = changed])
     /\ UNCHANGED <<files, index, torn, created, commands, exclusive, crashes, completed>>

\* open(..., "w"): until it is written, others find the file empty.
truncate(p) ==
  /\ command[p].at = "writing"
  /\ torn' = TRUE
  /\ Do(p, [command[p] EXCEPT !.at = "truncated"])
  /\ UNCHANGED <<files, index, created, commands, exclusive, crashes, completed>>

\* json.dump.
save(p) ==
  /\ command[p].at = "truncated"
  /\ index' = command[p].loaded
  /\ torn' = FALSE
  /\ Do(p, NoCommand)
  /\ UNCHANGED <<files, created, commands, exclusive, crashes, completed>>

\* A process dies, possibly with the metadata file empty.
Death(p) ==
  /\ crashes
  /\ command[p].at # "none"
  /\ Do(p, NoCommand)
  /\ UNCHANGED <<files, index, torn, created, commands, exclusive, crashes, completed>>

BackupNext ==
  \E p \in Processes :
    \/ create_backup(p) \/ dump(p)
    \/ verify_backup(p) \/ check(p)
    \/ prune_backups(p) \/ unlink(p)
    \/ load(p) \/ truncate(p) \/ save(p)
    \/ Death(p)

BackupSpec == BackupInit /\ [][BackupNext]_backupVars

-----------------------------------------------------------------------------
(* Properties *)

\* However commands overlap, fail or die, and whatever the index has lost, the
\* newest whole files are there: pruning deletes a backup only for the sake of
\* as many newer ones.
NewestKept ==
  \A b \in completed \ files : Cardinality({c \in completed : c > b}) >= Keep

\* As long as commands are run one by one and none dies, the index and the
\* directory agree: what is listed as usable can be restored, and what could be
\* restored is listed.
IndexFaithful ==
  exclusive /\ ~crashes /\ (\A p \in Processes : command[p].at = "none")
    => /\ Usable(index) \subseteq files
       /\ \A b \in files : index[b] # "absent"

\* There is always something to restore, and in order the index tells what.
BackupsUsable == NewestKept /\ IndexFaithful
=============================================================================

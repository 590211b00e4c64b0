-------------------------------- MODULE Backups --------------------------------
(***************************************************************************)
(* Backups: those taken automatically, by hand and for the WebDAV server   *)
(* (module::auto_backup, feat::backup, core::backup::create_backup), what  *)
(* is kept of them, the WebDAV credentials and the clients made with them  *)
(* (core::backup, cmd::webdav), and a restore, which saves credentials.    *)
(* Time is the clock in seconds, the name of a backup holds the second.    *)
(***************************************************************************)
EXTENDS Naturals, FiniteSets

CONSTANTS
  Callers, Credentials, None,
  MinInterval,      \* MIN_BACKUP_INTERVAL_SECS
  Keep,             \* AUTO_BACKUP_KEEP
  MaxTime,          \* bound: the clock
  Scopes,           \* sets of operations: a behaviour begins those of one of them
  MaxCalls          \* bound: calls made

VARIABLES
  scope,            \* the operations this behaviour begins
  now,              \* the clock
  last_backup,      \* the end of the last automatic backup, 0 for none
  exec_lock,
  temp,             \* the seconds an archive in the temporary directory is named after
  backups,          \* archives in the backup directory
  leftover,         \* those a failed move or an incomplete clean-up left, kept to state a property
  reported,         \* [from, to] of the automatic backups, kept likewise
  credentials,      \* WebDAV credentials in the committed settings
  config,           \* WebDavClient.config, or None
  clients,          \* [operation -> credentials of its client, or None]
  calls,            \* [Callers -> call under way]
  begun,            \* number of calls
  overtaken         \* other credentials got past the last reset of the clients, kept likewise

bvars == <<scope, now, last_backup, exec_lock, temp, backups, leftover, reported, credentials,
           config, clients, calls, begun, overtaken>>
automatic == <<last_backup, exec_lock, reported>>
kept == <<backups, leftover>>
archives == <<temp, kept>>
webdav == <<credentials, config, clients, overtaken>>

Triggers == {"scheduled", "change"}
Operations == {"upload", "download"}
Idle == [op |-> "none", step |-> "none", at |-> 0, keeps |-> None, with |-> None]

Init ==
  /\ scope \in Scopes
  /\ now = 1
  /\ last_backup = 0
  /\ exec_lock = None
  /\ temp = {}
  /\ backups \in {{}, {[at |-> 0, by |-> "local"]}}
  /\ leftover = {}
  /\ reported = {}
  /\ credentials \in Credentials
  /\ config = None
  /\ clients = [op \in Operations |-> None]
  /\ calls = [c \in Callers |-> Idle]
  /\ begun = 0
  /\ overtaken = FALSE

At(c, op, step) == calls[c].op = op /\ calls[c].step = step
Goes(c, step) == calls' = [calls EXCEPT ![c].step = step]
Ends(c) == calls' = [calls EXCEPT ![c] = Idle]

Begins(op, step, keeps) ==
  /\ op \in scope
  /\ begun < MaxCalls
  /\ begun' = begun + 1
  /\ \E c \in Callers :
       /\ calls[c] = Idle
       /\ calls' = [calls EXCEPT ![c] = [op |-> op, step |-> step, at |-> 0, keeps |-> keeps, with |-> None]]

\* Only automatic backups look at the time.
Tick ==
  /\ scope \cap Triggers # {}
  /\ now < MaxTime
  /\ now' = now + 1
  /\ UNCHANGED <<scope, automatic, archives, webdav, calls, begun>>

-----------------------------------------------------------------------------
(* execute_trigger.  The scheduler runs one backup at a time; a change of a global *)
(* file spawns one for each.  Settings that disable either take triggers away only. *)

\* should_run_now
ShouldRunNow == last_backup = 0 \/ now >= last_backup + MinInterval

Trigger(t) ==
  /\ t = "scheduled" => \A c \in Callers : calls[c].op # "scheduled"
  /\ ShouldRunNow
  /\ Begins(t, "locking", None)
  /\ UNCHANGED <<scope, now, automatic, archives, webdav>>

\* Mutation of LocksExecution: what was found before the lock was held still counts.
LocksWithoutLooking(c) ==
  /\ calls[c].op \in Triggers /\ calls[c].step = "locking"
  /\ exec_lock = None
  /\ exec_lock' = c
  /\ Goes(c, "creating")
  /\ UNCHANGED <<scope, now, last_backup, reported, archives, webdav, begun>>

\* It looks at the time again: another trigger may have held the lock.
LocksExecution(c) ==
  /\ calls[c].op \in Triggers /\ calls[c].step = "locking"
  /\ exec_lock = None
  /\ IF ShouldRunNow THEN exec_lock' = c /\ Goes(c, "creating") ELSE Ends(c) /\ UNCHANGED exec_lock
  /\ UNCHANGED <<scope, now, last_backup, reported, archives, webdav, begun>>

-----------------------------------------------------------------------------
(* create_backup and what becomes of the archive *)

BackUp ==
  /\ \E op \in {"local", "upload"} : Begins(op, "creating", None)
  /\ UNCHANGED <<scope, now, automatic, archives, webdav>>

\* The archive is named after the second: File::create cuts one of that name short.
CreateBackup(c) ==
  /\ calls[c].step = "creating"
  /\ temp' = temp \cup {now}
  /\ calls' = [calls EXCEPT ![c].step = "writing", ![c].at = now]
  /\ UNCHANGED <<scope, now, automatic, kept, webdav, begun>>

FreesLock(c) == exec_lock' = IF exec_lock = c THEN None ELSE exec_lock

\* An archive that could not be written is left where it is.
CreateFails(c) ==
  /\ calls[c].step = "writing"
  /\ FreesLock(c)
  /\ Ends(c)
  /\ UNCHANGED <<scope, now, last_backup, reported, archives, webdav, begun>>

Archive(c) == [at |-> calls[c].at, by |-> calls[c].op]

\* move_file
MoveFile(c) ==
  /\ calls[c].op # "upload" /\ calls[c].step = "writing"
  /\ calls[c].at \in temp
  /\ temp' = temp \ {calls[c].at}
  /\ backups' = backups \cup {Archive(c)}
  /\ leftover' = leftover \ {Archive(c)}
  /\ IF calls[c].op \in Triggers THEN Goes(c, "reporting") ELSE Ends(c)
  /\ UNCHANGED <<scope, now, automatic, webdav, begun>>

\* Whoever comes second to a name finds nothing under it.  A rename that fails falls back to
\* a copy: when that, or the removal after it, fails the archive may be in both directories.
MoveFails(c) ==
  /\ calls[c].op # "upload" /\ calls[c].step = "writing"
  /\ \/ UNCHANGED kept
     \/ /\ calls[c].at \in temp
        /\ backups' = backups \cup {Archive(c)}
        /\ leftover' = leftover \cup {Archive(c)}
  /\ temp' \in {temp, temp \ {calls[c].at}}
  /\ FreesLock(c)
  /\ Ends(c)
  /\ UNCHANGED <<scope, now, last_backup, reported, webdav, begun>>

Reports(c) ==
  /\ calls[c].step = "reporting"
  /\ last_backup' = now
  /\ reported' = reported \cup {[from |-> calls[c].at, to |-> now]}
  /\ Goes(c, "cleaning")
  /\ UNCHANGED <<scope, now, exec_lock, archives, webdav, begun>>

Autos == {b \in backups : b.by \in Triggers}

\* What a clean-up may find too many: those that are not among the Keep newest.
Surpluses ==
  {old \in SUBSET Autos :
     Cardinality(Autos \ old) = Keep /\ \A b \in old, k \in Autos \ old : b.at <= k.at}

\* cleanup_auto_backups.  A directory that cannot be read is left as it is, and so is each
\* archive that cannot be removed; the backup succeeds all the same.
CleanUp(c) ==
  /\ calls[c].step = "cleaning"
  /\ IF Keep = 0 \/ Cardinality(Autos) <= Keep THEN leftover' = {} /\ UNCHANGED backups
     ELSE \E old \in Surpluses : \E failed \in SUBSET old :
            backups' = backups \ (old \ failed) /\ leftover' = failed
  /\ FreesLock(c)
  /\ Ends(c)
  /\ UNCHANGED <<scope, now, last_backup, reported, temp, webdav, begun>>

\* delete_local_backup
DeleteLocal(b) ==
  /\ backups' = backups \ {b}
  /\ leftover' = leftover \ {b}
  /\ begun < MaxCalls /\ begun' = begun + 1
  /\ UNCHANGED <<scope, now, automatic, temp, webdav, calls>>

-----------------------------------------------------------------------------
(* WebDavClient *)

OperationOf(c) == IF calls[c].op = "restore" THEN "download" ELSE "upload"

\* get_client takes the client that is there, or the configuration for a new one,
\* which it stores when the server has answered; the configuration is that of the last
\* client, or the credentials in the settings.
GetClient(c) ==
  /\ At(c, "upload", "writing") \/ At(c, "restore", "asking")
  /\ IF clients[OperationOf(c)] # None THEN Goes(c, "transferring")
     ELSE calls' = [calls EXCEPT ![c].step = IF config = None THEN "configuring" ELSE "making",
                                 ![c].with = IF config = None THEN credentials ELSE config]
  /\ UNCHANGED <<scope, now, automatic, archives, webdav, begun>>

StoreConfig(c) ==
  /\ calls[c].step = "configuring"
  /\ config' = calls[c].with
  /\ Goes(c, "making")
  /\ UNCHANGED <<scope, now, automatic, archives, credentials, clients, overtaken, begun>>

MakeClient(c) ==
  /\ calls[c].step = "making"
  /\ clients' = [clients EXCEPT ![OperationOf(c)] = calls[c].with]
  /\ calls' = [calls EXCEPT ![c].step = "transferring", ![c].with = None]
  /\ UNCHANGED <<scope, now, automatic, archives, credentials, config, overtaken, begun>>

\* A client that is being made goes past a reset.
Passes(d) == calls[d].step \in {"configuring", "making"} /\ calls[d].with # credentials
Overtaken(c) == overtaken' = \E d \in Callers \ {c} : Passes(d)

\* Mutation of Reset: the clients stay.
ResetConfig(c) == config' = None /\ Overtaken(c) /\ UNCHANGED clients

Reset(c) == config' = None /\ Overtaken(c) /\ clients' = [op \in Operations |-> None]

\* One that cannot be built resets nothing, one that the server refuses resets them all.  A
\* failed upload resets them again, and leaves its archive in the temporary directory.
MakeFails(c) ==
  /\ calls[c].step = "making"
  /\ \/ Reset(c)
     \/ calls[c].op = "restore" /\ UNCHANGED <<config, clients, overtaken>>
  /\ Ends(c)
  /\ UNCHANGED <<scope, now, automatic, archives, credentials, begun>>

UploadEnds(c) ==
  /\ At(c, "upload", "transferring")
  /\ \/ Reset(c) /\ UNCHANGED temp
     \/ temp' \in {temp, temp \ {calls[c].at}} /\ UNCHANGED <<config, clients, overtaken>>
  /\ Ends(c)
  /\ UNCHANGED <<scope, now, automatic, kept, credentials, begun>>

-----------------------------------------------------------------------------
(* save_webdav_config and the restores *)

SaveCredentials(k) ==
  /\ Begins("credentials", "saving", None)
  /\ credentials' = k
  /\ UNCHANGED <<scope, now, automatic, archives, config, clients, overtaken>>

\* Settings that cannot be saved stay in memory, the clients stay what they are.
CredentialsSaved(c) ==
  /\ At(c, "credentials", "saving")
  /\ \/ Goes(c, "resetting") /\ UNCHANGED overtaken
     \/ Ends(c) /\ overtaken' = TRUE
  /\ UNCHANGED <<scope, now, automatic, archives, credentials, config, clients, begun>>

CredentialsReset(c) ==
  /\ At(c, "credentials", "resetting")
  /\ Reset(c)
  /\ Ends(c)
  /\ UNCHANGED <<scope, now, automatic, archives, credentials, begun>>

\* A restore reads the credentials first; one of a local archive downloads nothing.
Restore ==
  /\ \/ Begins("restore", "asking", credentials)
     \/ backups # {} /\ Begins("restore", "extracting", credentials)
  /\ UNCHANGED <<scope, now, automatic, archives, webdav>>

\* The archive holds no credentials; it is unpacked, by one restore at a time, and the file
\* gets those that were read.  Each of these may fail.
Downloaded(c) ==
  /\ At(c, "restore", "transferring")
  /\ Goes(c, "extracting") \/ Ends(c)
  /\ UNCHANGED <<scope, now, automatic, archives, webdav, begun>>

Extracted(c) ==
  /\ At(c, "restore", "extracting")
  /\ \A d \in Callers : ~At(d, "restore", "finalizing")
  /\ Goes(c, "finalizing") \/ Ends(c)
  /\ UNCHANGED <<scope, now, automatic, archives, webdav, begun>>

\* finalize_restored_verge_config: the settings in memory become the restored ones, with
\* the credentials that were read; no client is reset.
Finalized(c) ==
  /\ At(c, "restore", "finalizing")
  /\ credentials' = calls[c].keeps
  /\ overtaken' = (overtaken \/ credentials' # credentials)
  /\ Ends(c)
  /\ UNCHANGED <<scope, now, automatic, archives, config, clients, begun>>

-----------------------------------------------------------------------------
CallStep(c) ==
  \/ LocksExecution(c) \/ CreateBackup(c) \/ CreateFails(c) \/ MoveFile(c) \/ MoveFails(c)
  \/ Reports(c) \/ CleanUp(c)
  \/ GetClient(c) \/ StoreConfig(c) \/ MakeClient(c) \/ MakeFails(c) \/ UploadEnds(c)
  \/ CredentialsSaved(c) \/ CredentialsReset(c) \/ Downloaded(c) \/ Extracted(c) \/ Finalized(c)

Next ==
  \/ Tick \/ BackUp \/ Restore
  \/ \E t \in Triggers : Trigger(t)
  \/ \E b \in backups : DeleteLocal(b)
  \/ \E k \in Credentials : SaveCredentials(k)
  \/ \E c \in Callers : CallStep(c)

BackupSpec == Init /\ [][Next]_bvars

-----------------------------------------------------------------------------
\* Automatic backups that were reported lie MIN_BACKUP_INTERVAL_SECS apart, whatever
\* triggers waited for the lock, and while none is under way no more than
\* AUTO_BACKUP_KEEP are kept beside those a failed move left or the last clean-up could
\* not remove (execute_trigger, cleanup_auto_backups).
AutoBackupsAreRationed ==
  /\ \A x, y \in reported :
       x = y \/ x.from >= y.to + MinInterval \/ y.from >= x.to + MinInterval
  /\ exec_lock = None /\ Keep # 0 => Cardinality(Autos \ leftover) <= Keep

\* When no credentials are being saved a client serves those in the settings.  Excepted are,
\* until the clients are reset again: credentials that could not be saved, or that a restore
\* took back, and clients that were being made while those before them were reset (WebDavClient).
ClientsAreCurrent ==
  ~overtaken /\ (\A c \in Callers : calls[c].op # "credentials") =>
    \A op \in Operations : clients[op] \in {None, credentials}
=============================================================================

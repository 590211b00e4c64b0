----------------------------- MODULE TunReconcile -----------------------------
(***************************************************************************)
(* TUN is turned off when the run state cannot carry it (feat::tun).       *)
(* Each recorded change of the run state is published after its lock is    *)
(* free, and each publication spawns a reconciliation; a patch of the      *)
(* setting reconciles by itself.  Reconciliations queue for the lock of    *)
(* the configuration with the writers of the settings, unless one is       *)
(* turning TUN off already.  They are all alike and only counted.          *)
(***************************************************************************)
EXTENDS Naturals

CONSTANTS
  MaxChanges,       \* bound: changes of the run state
  MaxPatches        \* bound: patches of the setting and restored backups

VARIABLES
  admin,            \* the process is elevated
  health, pending, allowed, mode, op,      \* RunState
  tun,              \* enable_tun_mode as committed
  staged,           \* what the writer at work makes of it
  lock,             \* who holds CONFIG_WRITE_LOCK, or "free"
  disabling,        \* DISABLING_TUN
  owed,             \* changes recorded and not published
  spawned,          \* reconciliations that have not looked at DISABLING_TUN
  queued,           \* reconciliations that wait for the lock
  starting,         \* start-up has not reconciled yet
  changes, patches,
  failed            \* a writer failed since the last one that did not, kept to state a property

tunvars == <<admin, health, pending, allowed, mode, op, tun, staged, lock, disabling, owed,
             spawned, queued, starting, changes, patches, failed>>
runstate == <<admin, health, pending, allowed, mode, op>>
tasks == <<owed, spawned, queued>>
counts == <<changes, patches>>

Healths == {"unknown", "ready", "absent", "mismatch", "unavailable"}

Init ==
  /\ admin \in BOOLEAN
  /\ health = "unknown" /\ pending = FALSE /\ allowed = FALSE /\ mode = "none" /\ op = FALSE
  /\ tun \in BOOLEAN /\ staged = FALSE
  /\ lock = "free" /\ disabling = FALSE
  /\ owed = 0 /\ spawned = 0 /\ queued = 0
  /\ starting = TRUE
  /\ changes = 0 /\ patches = 0 /\ failed = FALSE

-----------------------------------------------------------------------------
(* runstate::health *)

ServiceUsable == health = "ready" /\ ~op
TunCapable == admin \/ ServiceUsable

NeedsAttention ==
  ~op /\ (pending \/ (~allowed /\ health \in {"mismatch", "unavailable"}))

ShouldBeDisabled == tun /\ ~TunCapable /\ health # "unknown" /\ ~op /\ ~NeedsAttention

\* A change is recorded under the lock of the store and published when that is free.
Changes ==
  /\ changes < MaxChanges /\ changes' = changes + 1
  /\ \/ health' \in Healths /\ UNCHANGED <<pending, allowed, mode, op>>
     \/ pending' = ~pending /\ UNCHANGED <<health, allowed, mode, op>>
     \/ allowed' = ~allowed /\ UNCHANGED <<health, pending, mode, op>>
     \/ op' = ~op /\ UNCHANGED <<health, pending, allowed, mode>>
     \/ mode' \in {"none", "sidecar", "service"} /\ UNCHANGED <<health, pending, allowed, op>>
  /\ <<health, pending, allowed, mode, op>>' # <<health, pending, allowed, mode, op>>
  /\ owed' = owed + 1
  /\ UNCHANGED <<admin, tun, staged, lock, disabling, spawned, queued, starting, patches, failed>>

Publish ==
  /\ owed > 0 /\ owed' = owed - 1
  /\ spawned' = spawned + 1
  /\ UNCHANGED <<runstate, tun, staged, lock, disabling, queued, starting, counts, failed>>

-----------------------------------------------------------------------------
(* The writers of the settings. *)

\* reconcile_startup_tun_availability
StartUp ==
  /\ starting /\ lock = "free"
  /\ starting' = FALSE
  /\ tun' = (tun /\ ~(health = "absent" /\ ShouldBeDisabled))
  /\ UNCHANGED <<runstate, staged, lock, disabling, tasks, counts, failed>>

\* apply_verge_patch_locked: the draft is committed when its effects have been applied.
PatchBegins ==
  /\ ~starting /\ lock = "free"
  /\ patches < MaxPatches /\ patches' = patches + 1
  /\ lock' = "patch" /\ staged' \in BOOLEAN
  /\ UNCHANGED <<runstate, tun, disabling, tasks, starting, changes, failed>>

\* Mutation of PatchEnds: the patch is not followed by a reconciliation.
PatchEndsOnly ==
  /\ lock = "patch" /\ lock' = "free" /\ staged' = FALSE
  /\ \/ tun' = staged /\ failed' = FALSE
     \/ failed' = TRUE /\ UNCHANGED tun
  /\ UNCHANGED <<runstate, disabling, tasks, starting, counts>>

\* patch_verge reconciles when it has succeeded.
PatchEnds ==
  /\ lock = "patch" /\ lock' = "free" /\ staged' = FALSE
  /\ \/ tun' = staged /\ spawned' = spawned + 1 /\ failed' = FALSE
     \/ failed' = TRUE /\ UNCHANGED <<tun, spawned>>
  /\ UNCHANGED <<runstate, disabling, owed, queued, starting, counts>>

\* finalize_restored_verge_config commits the restored settings, then patches them in: if
\* that fails nothing reconciles them.
Restores ==
  /\ ~starting /\ lock = "free"
  /\ patches < MaxPatches /\ patches' = patches + 1
  /\ tun' \in BOOLEAN
  /\ lock' = "patch" /\ staged' = tun'
  /\ UNCHANGED <<runstate, disabling, tasks, starting, changes, failed>>

-----------------------------------------------------------------------------
(* reconcile_tun_availability *)

LooksAtFlag ==
  /\ spawned > 0 /\ spawned' = spawned - 1
  /\ queued' = IF disabling THEN queued ELSE queued + 1
  /\ UNCHANGED <<runstate, tun, staged, lock, disabling, owed, starting, counts, failed>>

\* Under the lock the state and the setting are read anew.
Locks ==
  /\ queued > 0 /\ queued' = queued - 1
  /\ lock = "free"
  /\ lock' = IF mode # "none" /\ ShouldBeDisabled THEN "decided" ELSE "free"
  /\ UNCHANGED <<runstate, tun, staged, disabling, owed, spawned, starting, counts, failed>>

SetsFlag ==
  /\ lock = "decided" /\ lock' = "disables"
  /\ disabling' = TRUE
  /\ UNCHANGED <<runstate, tun, staged, tasks, starting, counts, failed>>

\* The flag falls before the lock is free.
Disables ==
  /\ lock = "disables" /\ lock' = "ends"
  /\ \/ tun' = FALSE /\ UNCHANGED failed
     \/ failed' = TRUE /\ UNCHANGED tun
  /\ disabling' = FALSE
  /\ UNCHANGED <<runstate, staged, tasks, starting, counts>>

Unlocks ==
  /\ lock = "ends" /\ lock' = "free"
  /\ UNCHANGED <<runstate, tun, staged, disabling, tasks, starting, counts, failed>>

Next ==
  \/ Changes \/ Publish \/ StartUp \/ PatchBegins \/ PatchEnds \/ Restores
  \/ LooksAtFlag \/ Locks \/ SetsFlag \/ Disables \/ Unlocks

TunSpec == Init /\ [][Next]_tunvars

-----------------------------------------------------------------------------
Quiet == ~starting /\ lock = "free" /\ owed + spawned + queued = 0

\* When nothing is left to do TUN is on only where it works or where the user is still to
\* decide, though requests are dropped while it is turned off, unless turning it off or a
\* write of the settings has failed (reconcile_tun_availability, patch_verge).
UnusableTunIsOff == Quiet /\ mode # "none" /\ ~failed => ~ShouldBeDisabled
=============================================================================

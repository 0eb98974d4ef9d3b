------------------------------ MODULE PluginTrial ------------------------------
(***************************************************************************)
(* The deployment of one locally authored plugin ("agent-...") and its     *)
(* recovery: ny_author_deploy and ny_author_recover of ny_author.c, with   *)
(* the package markers (ny_package.c), the state database (ny_state.c) and *)
(* the plugin requests of the owner (ny_plugins.c) they share state with.  *)
(*                                                                         *)
(* A new version is tried on the live data of the plugin before it is      *)
(* activated; a journal lets the next request undo a trial that failed or  *)
(* that a crash interrupted.  Every owner request holds g_plugins_lock     *)
(* until it returns, so there is one manager; the plugin runs beside it.   *)
(*                                                                         *)
(* One step is one durable write, which happens as a whole or fails, or    *)
(* one call of the scheduler.  A crash loses what is not durable.          *)
(***************************************************************************)
EXTENDS Naturals, FiniteSets

CONSTANTS
  Permissions,   \* what an author may ask for
  Mutating,      \* of these, nas.write and nas.manage
  Data,          \* what the private data may be
  MaxVersions    \* bound of the model: deployments

ASSUME MutatingAssumption == Mutating \subseteq Permissions
ASSUME VersionsAssumption == MaxVersions \in Nat

VARIABLES
  current,     \* marker "current": the active version, 0 if there is none
  last_good,   \* marker "last-good"
  installed,   \* the versions in the package store
  requested,   \* the permissions their manifests ask for
  revision,    \* of store domain "plugin-author": numbers the versions
  data,        \* the keys <storage>/data/ of the state database
  backup,      \* the keys author-backup/<id>/
  grants,      \* the grants of the plugin (ny_permission.c)
  journal,     \* store domain "plugin-author-transaction"
  plugin,      \* the slot of the plugin (ny_scheduler.c)
  manager      \* the request that holds g_plugins_lock

packages == <<current, last_good, installed, requested, revision>>
durable == <<packages, data, backup, grants, journal>>
vars == <<durable, plugin, manager>>

(***************************************************************************)
(* Data                                                                    *)
(***************************************************************************)
Versions == 1..MaxVersions

JournalType == [pending : BOOLEAN, previousVersion : 0..MaxVersions,
                previousGrants : SUBSET Permissions, wasRunning : BOOLEAN]
NoJournal == [pending |-> FALSE, previousVersion |-> 0, previousGrants |-> {},
              wasRunning |-> FALSE]

PluginType == [state : {"none", "starting", "running", "failed"},
               version : 0..MaxVersions, permissions : SUBSET Permissions]
NoPlugin == [state |-> "none", version |-> 0, permissions |-> {}]

\* What the owner asks for.
Ops == {"deploy", "start", "stop", "activate", "rollback", "permit"}

\* Where the manager is: "recover" begins every request; then the request
\* itself, or a step of a deployment or of a recovery; "starting" is the wait
\* for a start, whichever of the four calls it is.
ManagerPC ==
  {"idle", "recover", "starting"} \cup Ops \cup
  {"install", "reap", "backup", "journal", "grant", "launch", "confirm",
   "refresh", "commit", "restart"} \cup
  {"undoStop", "undoData", "undoCode", "undoGrants", "undoJournal", "undoStart"}

\* op is what to do after a recovery, "none" when a deployment called it.
ManagerType ==
  [pc : ManagerPC, op : Ops \cup {"none"},
   from : {"none", "deploy", "recover", "restart", "start"},
   version : 0..MaxVersions, request : SUBSET Permissions,
   old_version : 0..MaxVersions, was_running : BOOLEAN]
Idle == [pc |-> "idle", op |-> "none", from |-> "none", version |-> 0,
         request |-> {}, old_version |-> 0, was_running |-> FALSE]

Init ==
  /\ current = 0 /\ last_good = 0
  /\ installed = {} /\ requested = [v \in Versions |-> {}]
  /\ revision = 0
  /\ data \in Data /\ backup \in Data
  /\ grants \in SUBSET Permissions
  /\ journal = NoJournal
  /\ plugin = NoPlugin
  /\ manager = Idle

At(pc) == manager.pc = pc
Goto(pc) == manager' = [manager EXCEPT !.pc = pc]
Return == manager' = Idle

\* Code of the plugin may run.
Live == plugin.state \in {"starting", "running"}

(***************************************************************************)
(* The plugin                                                              *)
(***************************************************************************)
\* put of @nyabula/storage
Write ==
  /\ Live
  /\ data' \in Data
  /\ UNCHANGED <<packages, backup, grants, journal, plugin, manager>>

\* A callback fails; the slot stays until somebody stops the plugin.
PluginFails ==
  /\ plugin.state = "running"
  /\ plugin' = [plugin EXCEPT !.state = "failed"]
  /\ UNCHANGED <<durable, manager>>

\* The last step of a request that was waiting for a recovery
AfterRecovery == IF manager.op = "none" THEN Return ELSE Goto(manager.op)

\* A step failed before the journal was written, or after it.
Abandon ==
  IF manager.was_running /\ manager.old_version # 0 THEN Goto("restart") ELSE Return
UndoTrial == manager' = [manager EXCEPT !.pc = "recover", !.op = "none"]

\* ny_scheduler_start_installed_report(path, storage, mask): the manifest and
\* the grants are read, then the slot is taken.
Launch(v, mask, from) ==
  /\ v # 0
  /\ plugin' = [state |-> "starting", version |-> v,
                permissions |-> requested[v] \cap grants \cap mask]
  /\ manager' = [manager EXCEPT !.pc = "starting", !.from = from]

\* ny_on_start ends, well or not; the starter reaps the slot of a failed start.
Started ==
  /\ At("starting")
  /\ plugin' = [plugin EXCEPT !.state = "running"]
  /\ CASE manager.from = "deploy"  -> Goto("confirm")
       [] manager.from = "recover" -> AfterRecovery
       [] OTHER                    -> Return
  /\ UNCHANGED durable

NotStarted ==
  /\ At("starting")
  /\ plugin' = NoPlugin
  /\ IF manager.from = "deploy" THEN UndoTrial ELSE Return
  /\ UNCHANGED durable

(***************************************************************************)
(* ny_author_recover.  Any of its steps may fail: the journal stays pending *)
(* and the next request begins the recovery again.                         *)
(***************************************************************************)
Request(op) ==
  /\ At("idle")
  /\ manager' = [Idle EXCEPT !.pc = "recover", !.op = op]
  /\ UNCHANGED <<durable, plugin>>

Recover ==
  /\ At("recover")
  /\ \/ IF journal.pending THEN Goto("undoStop") ELSE AfterRecovery
     \/ Return
  /\ UNCHANGED <<durable, plugin>>

\* A definition with a faulty form before it is one a run shows its property
\* to depend on.
LeaveRunning == plugin
Stopped == NoPlugin

UndoStop ==
  /\ At("undoStop")
  /\ \/ plugin' = Stopped /\ Goto("undoData")
     \/ UNCHANGED plugin /\ Return
  /\ UNCHANGED durable

UndoData ==
  /\ At("undoData")
  /\ \/ data' = backup /\ Goto("undoCode")
     \/ UNCHANGED data /\ Return
  /\ UNCHANGED <<packages, backup, grants, journal, plugin>>

\* ny_package_rollback when a version that is not the previous one is active,
\* ny_package_deactivate when there was none.
KeepTried == current
RestoredVersion ==
  CASE journal.previousVersion = 0       -> 0
    [] journal.previousVersion = current -> current
    [] OTHER                             -> last_good

UndoCode ==
  /\ At("undoCode")
  /\ \/ /\ journal.previousVersion # 0 => RestoredVersion # 0
        /\ current' = RestoredVersion
        /\ Goto("undoGrants")
     \/ UNCHANGED current /\ Return
  /\ UNCHANGED <<last_good, installed, requested, revision, data, backup, grants,
                 journal, plugin>>

\* The permissions are granted and revoked one by one.
UndoGrants ==
  LET wrong == (grants \ journal.previousGrants) \cup (journal.previousGrants \ grants) IN
  /\ At("undoGrants")
  /\ \/ /\ \E p \in wrong :
             grants' = IF p \in grants THEN grants \ {p} ELSE grants \cup {p}
        /\ UNCHANGED manager
     \/ wrong = {} /\ Goto("undoJournal") /\ UNCHANGED grants
     \/ UNCHANGED grants /\ Return
  /\ UNCHANGED <<packages, data, backup, journal, plugin>>

UndoJournal ==
  /\ At("undoJournal")
  /\ \/ /\ journal' = [journal EXCEPT !.pending = FALSE]
        /\ IF journal.wasRunning /\ journal.previousVersion # 0
             THEN Goto("undoStart") ELSE AfterRecovery
     \/ UNCHANGED journal /\ Return
  /\ UNCHANGED <<packages, data, backup, grants, plugin>>

UndoStart ==
  /\ At("undoStart")
  /\ \/ Launch(current, Permissions, "recover")
     \/ UNCHANGED plugin /\ Return
  /\ UNCHANGED durable

RecoveryStep ==
  \/ Recover \/ UndoStop \/ UndoData \/ UndoCode \/ UndoGrants
  \/ UndoJournal \/ UndoStart

(***************************************************************************)
(* ny_author_deploy                                                        *)
(***************************************************************************)
NewVersion == revision + 1

\* The active version is inspected and the revision of the policy becomes the
\* new version.  The request is refused if it does not name the active version
\* as its base.
Deploy ==
  /\ At("deploy")
  /\ \/ /\ revision < MaxVersions
        /\ revision' = revision + 1
        /\ \E request \in SUBSET Permissions :
             manager' = [manager EXCEPT !.pc = "install", !.op = "none",
               !.version = NewVersion, !.request = request,
               !.old_version = current, !.was_running = plugin.state = "running"]
     \/ UNCHANGED revision /\ Return
  /\ UNCHANGED <<current, last_good, installed, requested, data, backup, grants,
                 journal, plugin>>

\* The package is signed and installed beside the others.
Install ==
  LET v == manager.version IN
  /\ At("install")
  /\ \/ /\ installed' = installed \cup {v}
        /\ requested' = [requested EXCEPT ![v] = manager.request]
        /\ Goto("reap")
     \/ UNCHANGED <<installed, requested>> /\ Return
  /\ UNCHANGED <<current, last_good, revision, data, backup, grants, journal, plugin>>

\* The grants of before are read, and the plugin is stopped.
Reap ==
  /\ At("reap")
  /\ \/ plugin' = NoPlugin /\ Goto("backup")
     \/ UNCHANGED plugin /\ Return
  /\ UNCHANGED durable

KeepBackup == backup
CopiedData == data

Backup ==
  /\ At("backup")
  /\ \/ backup' = CopiedData /\ Goto("journal")
     \/ UNCHANGED backup /\ Abandon
  /\ UNCHANGED <<packages, data, grants, journal, plugin>>

Journal ==
  /\ At("journal")
  /\ \/ /\ journal' = [pending |-> TRUE, previousVersion |-> manager.old_version,
                        previousGrants |-> grants, wasRunning |-> manager.was_running]
        /\ Goto("grant")
     \/ UNCHANGED journal /\ Abandon
  /\ UNCHANGED <<packages, data, backup, grants, plugin>>

Grant ==
  /\ At("grant")
  /\ \/ /\ \E p \in manager.request \ grants : grants' = grants \cup {p}
        /\ UNCHANGED manager
     \/ manager.request \subseteq grants /\ Goto("launch") /\ UNCHANGED grants
     \/ UndoTrial /\ UNCHANGED grants
  /\ UNCHANGED <<packages, data, backup, journal, plugin>>

\* The version on trial is started from its own directory, without the
\* permissions to change what is on a disk.
EveryPermission == Permissions
TrialMask == Permissions \ Mutating

LaunchTrial ==
  /\ At("launch")
  /\ \/ Launch(manager.version, TrialMask, "deploy")
     \/ UNCHANGED plugin /\ UndoTrial
  /\ UNCHANGED durable

\* ny_package_activate_locked writes both markers in one transaction.
Activated(v, update_last_good) ==
  /\ current' = v
  /\ last_good' = IF update_last_good /\ current \notin {0, v} THEN current ELSE last_good

\* ny_ui_tree finds a page, and the version becomes the active one.
Confirm ==
  /\ At("confirm")
  /\ \/ Activated(manager.version, TRUE) /\ Goto("refresh")
     \/ UNCHANGED <<current, last_good>> /\ UndoTrial
  /\ UNCHANGED <<installed, requested, revision, data, backup, grants, journal, plugin>>

\* ny_scheduler_refresh_permissions on the plugin, if it still accepts them
Refreshed(granted) ==
  IF Live THEN [plugin EXCEPT !.permissions = requested[plugin.version] \cap granted]
          ELSE plugin

Refresh ==
  /\ At("refresh")
  /\ \/ plugin' = Refreshed(grants) /\ Goto("commit")
     \/ UNCHANGED plugin /\ UndoTrial
  /\ UNCHANGED durable

Commit ==
  /\ At("commit")
  /\ \/ journal' = [journal EXCEPT !.pending = FALSE] /\ Return
     \/ UNCHANGED journal /\ UndoTrial
  /\ UNCHANGED <<packages, data, backup, grants, plugin>>

\* Nothing was tried yet: the plugin that was stopped is started again.
Restart ==
  /\ At("restart")
  /\ \/ Launch(current, Permissions, "restart")
     \/ UNCHANGED plugin /\ Return
  /\ UNCHANGED durable

DeployStep ==
  \/ Deploy \/ Install \/ Reap \/ Backup \/ Journal \/ Grant \/ LaunchTrial
  \/ Confirm \/ Refresh \/ Commit \/ Restart

(***************************************************************************)
(* The other requests of ny_plugins_request                                *)
(***************************************************************************)
\* plugin.start reaps what is left of the plugin unless it is running.
Start ==
  /\ At("start")
  /\ \/ plugin.state # "running" /\ Launch(current, Permissions, "start")
     \/ plugin' = (IF plugin.state = "running" THEN plugin ELSE NoPlugin) /\ Return
  /\ UNCHANGED durable

Stop ==
  /\ At("stop")
  /\ plugin' = NoPlugin
  /\ Return
  /\ UNCHANGED durable

\* -EBUSY while the plugin is running
NotRunning == plugin.state # "running"

Activate ==
  /\ At("activate")
  /\ \/ NotRunning /\ \E v \in installed : Activated(v, TRUE)
     \/ UNCHANGED <<current, last_good>>
  /\ Return
  /\ UNCHANGED <<installed, requested, revision, data, backup, grants, journal, plugin>>

Rollback ==
  /\ At("rollback")
  /\ \/ NotRunning /\ last_good # 0 /\ Activated(last_good, FALSE)
     \/ UNCHANGED <<current, last_good>>
  /\ Return
  /\ UNCHANGED <<installed, requested, revision, data, backup, grants, journal, plugin>>

\* plugin.grant and plugin.revoke, of what some installed version asks for;
\* the refresh may fail when the grants are stored.
Permit ==
  /\ At("permit")
  /\ \/ /\ \E v \in installed : \E p \in requested[v] :
             grants' \in {grants \cup {p}, grants \ {p}}
        /\ plugin' \in {Refreshed(grants'), plugin}
     \/ UNCHANGED <<grants, plugin>>
  /\ Return
  /\ UNCHANGED <<packages, data, backup, journal>>

OwnerStep == Start \/ Stop \/ Activate \/ Rollback \/ Permit

\* The power fails, or the system restarts: no plugin is started at boot.
Crash ==
  /\ plugin' = NoPlugin
  /\ Return
  /\ UNCHANGED durable

Next ==
  \/ Write \/ PluginFails \/ Started \/ NotStarted
  \/ \E op \in Ops : Request(op)
  \/ RecoveryStep \/ DeployStep \/ OwnerStep
  \/ Crash

Spec == Init /\ [][Next]_vars

(***************************************************************************)
(* Properties                                                              *)
(***************************************************************************)
TypeInv ==
  /\ current \in 0..MaxVersions /\ last_good \in 0..MaxVersions
  /\ installed \subseteq Versions /\ requested \in [Versions -> SUBSET Permissions]
  /\ revision \in 0..MaxVersions
  /\ data \in Data /\ backup \in Data
  /\ grants \subseteq Permissions
  /\ journal \in JournalType
  /\ plugin \in PluginType
  /\ manager \in ManagerType

\* The code that runs is the active version, except during a trial: a version
\* whose trial failed, or was interrupted, never serves the owner afterwards.
RunsActive == Live /\ ~journal.pending => plugin.version = current

\* A version that is not active yet never has the permissions to change what
\* is on a disk, whatever is granted to the plugin.
TrialWithheld ==
  Live /\ plugin.permissions \cap Mutating # {} => plugin.version = current

\* When a recovery closes the journal, the code, the data and the grants are
\* those of before the trial, however often it was interrupted on the way.
RecoveryRestores ==
  [][At("undoJournal") /\ journal.pending /\ ~journal'.pending =>
       /\ current' = journal.previousVersion
       /\ data' = backup
       /\ grants' = journal.previousGrants]_vars

\* The deployment implements PluginVersions: while a trial is pending, what
\* counts is what the journal and the backup hold.
Released == INSTANCE PluginVersions WITH
  code   <- IF journal.pending THEN journal.previousVersion ELSE current,
  data   <- IF journal.pending THEN backup ELSE data,
  grants <- IF journal.pending THEN journal.previousGrants ELSE grants

ImplementsVersions == Released!Spec

(***************************************************************************)
(* The inductive invariant of module PluginTrialProofs                     *)
(***************************************************************************)
\* The manager is between the journal's two writes of a deployment: before
\* the new version is activated, and after.
Trying == At("grant") \/ At("launch") \/ At("confirm")
            \/ (At("starting") /\ manager.from = "deploy")
Tried == At("refresh") \/ At("commit")

\* Every version is numbered before it is installed, and no two are the same.
NumberInv ==
  /\ current <= revision /\ last_good <= revision /\ manager.version <= revision
  /\ \A v \in installed : v <= revision

\* The version to go back to is the active one or the last good one.
RollbackInv ==
  journal.pending /\ journal.previousVersion \notin {0, current}
    => last_good = journal.previousVersion

\* A deployment knows what was active, has its data in the backup before it
\* writes the journal, and only adds grants after that.
DeployInv ==
  /\ At("install") \/ At("reap") \/ At("backup") \/ At("journal") =>
       /\ ~journal.pending
       /\ manager.version # 0 /\ manager.old_version = current
       /\ manager.version # current
  /\ At("backup") \/ At("journal") => ~Live
  /\ At("journal") => backup = data
  /\ Trying \/ Tried =>
       /\ journal.pending
       /\ manager.version # 0 /\ manager.version # journal.previousVersion
       /\ journal.previousGrants \subseteq grants
  /\ Trying => current = journal.previousVersion
  /\ Tried => current = manager.version

\* What a recovery has restored at each of its steps
UndoInv ==
  /\ At("undoStop") \/ At("undoData") \/ At("undoCode") \/ At("undoGrants")
       \/ At("undoJournal") => journal.pending
  /\ At("undoData") \/ At("undoCode") \/ At("undoGrants") \/ At("undoJournal") => ~Live
  /\ At("undoCode") \/ At("undoGrants") \/ At("undoJournal") => data = backup
  /\ At("undoGrants") \/ At("undoJournal") => current = journal.previousVersion
  /\ At("undoJournal") => grants = journal.previousGrants

\* Which version the slot has: the manager starts no other request while it
\* waits for a start, and no request but a recovery while a trial is pending.
SlotInv ==
  /\ plugin.state = "starting" <=> At("starting")
  /\ Live => plugin.version # 0
  /\ At("confirm") \/ Tried \/ (At("starting") /\ manager.from = "deploy")
       => (Live => plugin.version = manager.version)
  /\ manager.pc \in Ops \cup {"restart", "undoStart"}
       \/ (At("starting") /\ manager.from # "deploy") => ~journal.pending

TrialInv ==
  NumberInv /\ RollbackInv /\ DeployInv /\ UndoInv /\ SlotInv /\ RunsActive /\ TrialWithheld

================================================================================

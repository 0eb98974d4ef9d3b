--------------------------- MODULE PluginTrialProofs ---------------------------
(***************************************************************************)
(* Theorems about PluginTrial: its types, the inductive invariant that a   *)
(* deployment and its recovery keep, and that they implement PluginVersions.*)
(***************************************************************************)
EXTENDS PluginTrial, TLAPS

USE VersionsAssumption, MutatingAssumption DEF At

(***************************************************************************)
(* Types                                                                   *)
(***************************************************************************)
LEMMA ConstantTypes ==
  /\ Idle \in ManagerType /\ NoPlugin \in PluginType /\ NoJournal \in JournalType
  /\ Versions \subseteq 0..MaxVersions
BY DEF Idle, ManagerType, ManagerPC, Ops, NoPlugin, PluginType, NoJournal,
       JournalType, Versions

\* The moves of the manager keep its type.
LEMMA ManagerMoves ==
  ASSUME manager \in ManagerType
  PROVE  /\ \A pc \in ManagerPC : Goto(pc) => manager' \in ManagerType
         /\ Return => manager' \in ManagerType
         /\ UndoTrial => manager' \in ManagerType
         /\ Abandon => manager' \in ManagerType
         /\ AfterRecovery => manager' \in ManagerType
<1>1. ASSUME NEW pc \in ManagerPC, Goto(pc) PROVE manager' \in ManagerType
  BY <1>1 DEF ManagerType, Goto
<1>2. Return => manager' \in ManagerType
  BY ConstantTypes DEF Return
<1>3. UndoTrial => manager' \in ManagerType
  BY DEF UndoTrial, ManagerType, ManagerPC
<1>4. Abandon => manager' \in ManagerType
  BY <1>1, <1>2 DEF Abandon, ManagerPC
<1>5. AfterRecovery => manager' \in ManagerType
  BY <1>1, <1>2 DEF AfterRecovery, ManagerPC, ManagerType
<1> QED
  BY <1>1, <1>2, <1>3, <1>4, <1>5

\* A start and a refresh give the slot a plugin.
LEMMA LaunchTypes ==
  ASSUME TypeInv, NEW v \in 0..MaxVersions, NEW mask,
         NEW from \in {"deploy", "recover", "restart", "start"},
         Launch(v, mask, from)
  PROVE  plugin' \in PluginType /\ manager' \in ManagerType
<1>1. requested[v] \cap grants \cap mask \subseteq Permissions
  BY DEF TypeInv
<1>2. plugin' \in PluginType
  BY <1>1 DEF Launch, PluginType
<1>3. manager' \in ManagerType
  BY DEF Launch, TypeInv, ManagerType, ManagerPC
<1> QED
  BY <1>2, <1>3

LEMMA RefreshTypes ==
  ASSUME TypeInv, NEW granted \in SUBSET Permissions
  PROVE  Refreshed(granted) \in PluginType
<1>1. requested[plugin.version] \cap granted \subseteq Permissions
  OBVIOUS
<1> QED
  BY <1>1 DEF Refreshed, TypeInv, PluginType

LEMMA TypeInit == Init => TypeInv
<1> SUFFICES ASSUME Init PROVE TypeInv
  OBVIOUS
<1> QED
  BY ConstantTypes DEF Init, TypeInv, Versions

LEMMA PluginKeepsTypes ==
  ASSUME TypeInv, Write \/ PluginFails \/ Started \/ NotStarted \/ Crash
  PROVE  TypeInv'
<1>1. CASE Write
  BY <1>1 DEF Write, TypeInv, packages
<1>2. CASE PluginFails
  BY <1>2 DEF PluginFails, TypeInv, durable, packages, PluginType
<1>3. CASE Started
  <2>1. plugin' \in PluginType
    BY <1>3 DEF Started, TypeInv, PluginType
  <2>2. manager' \in ManagerType
    BY <1>3, ManagerMoves DEF Started, TypeInv, ManagerPC
  <2> QED
    BY <1>3, <2>1, <2>2 DEF Started, TypeInv, durable, packages
<1>4. CASE NotStarted
  <2>1. manager' \in ManagerType
    BY <1>4, ManagerMoves DEF NotStarted, TypeInv
  <2> QED
    BY <1>4, <2>1, ConstantTypes DEF NotStarted, TypeInv, durable, packages
<1>5. CASE Crash
  BY <1>5, ConstantTypes DEF Crash, Return, TypeInv, durable, packages
<1> QED
  BY <1>1, <1>2, <1>3, <1>4, <1>5

LEMMA RecoveryKeepsTypes ==
  ASSUME TypeInv, RecoveryStep \/ \E op \in Ops : Request(op)
  PROVE  TypeInv'
<1> USE DEF TypeInv
<1>1. CASE \E op \in Ops : Request(op)
  <2> PICK op \in Ops : Request(op)
    BY <1>1
  <2>1. op \in ManagerPC /\ "recover" \in ManagerPC
    BY DEF ManagerPC
  <2>2. manager' = [Idle EXCEPT !.pc = "recover", !.op = op]
    BY DEF Request
  <2>3. manager' \in ManagerType
    BY <2>1, <2>2, ConstantTypes DEF ManagerType
  <2> QED
    BY <2>3 DEF Request, durable, packages
<1>2. CASE Recover
  BY <1>2, ManagerMoves DEF Recover, ManagerPC, durable, packages
<1>3. CASE UndoStop
  BY <1>3, ManagerMoves, ConstantTypes DEF UndoStop, Stopped, ManagerPC, durable, packages
<1>4. CASE UndoData
  BY <1>4, ManagerMoves DEF UndoData, ManagerPC, packages
<1>5. CASE UndoCode
  <2>1. RestoredVersion \in 0..MaxVersions
    BY DEF RestoredVersion
  <2> QED
    BY <1>5, <2>1, ManagerMoves DEF UndoCode, ManagerPC
<1>6. CASE UndoGrants
  <2>1. journal.previousGrants \subseteq Permissions
    BY DEF JournalType
  <2>2. grants' \subseteq Permissions
    BY <1>6, <2>1 DEF UndoGrants
  <2>3. manager' \in ManagerType
    BY <1>6, ManagerMoves DEF UndoGrants, ManagerPC
  <2> QED
    BY <1>6, <2>2, <2>3 DEF UndoGrants, packages
<1>7. CASE UndoJournal
  <2>1. journal' \in JournalType
    BY <1>7 DEF UndoJournal, JournalType
  <2>2. manager' \in ManagerType
    BY <1>7, ManagerMoves DEF UndoJournal, ManagerPC
  <2> QED
    BY <1>7, <2>1, <2>2 DEF UndoJournal, packages
<1>8. CASE UndoStart
  BY <1>8, ManagerMoves, LaunchTypes DEF UndoStart, durable, packages
<1> QED
  BY <1>1, <1>2, <1>3, <1>4, <1>5, <1>6, <1>7, <1>8 DEF RecoveryStep

\* A deployment installs under the number it took, never under 0.
LEMMA DeployKeepsTypes ==
  ASSUME TypeInv, DeployInv, DeployStep
  PROVE  TypeInv'
<1> USE DEF TypeInv
<1>1. CASE Deploy
  <2>1. CASE UNCHANGED revision /\ Return
    BY <1>1, <2>1, ManagerMoves DEF Deploy
  <2>2. CASE /\ revision < MaxVersions
             /\ revision' = revision + 1
             /\ \E request \in SUBSET Permissions :
                  manager' = [manager EXCEPT !.pc = "install", !.op = "none",
                    !.version = NewVersion, !.request = request,
                    !.old_version = current, !.was_running = plugin.state = "running"]
    <3>1. revision' \in 0..MaxVersions /\ NewVersion \in 0..MaxVersions
      BY <2>2 DEF NewVersion
    <3>2. "install" \in ManagerPC
      BY DEF ManagerPC
    <3>3. (plugin.state = "running") \in BOOLEAN
      OBVIOUS
    <3>4. manager' \in ManagerType
      BY <2>2, <3>1, <3>2, <3>3 DEF ManagerType
    <3> QED
      BY <1>1, <3>1, <3>4 DEF Deploy
  <2> QED
    BY <1>1, <2>1, <2>2 DEF Deploy
<1>2. CASE Install
  <2>1. CASE UNCHANGED <<installed, requested>> /\ Return
    BY <1>2, <2>1, ManagerMoves DEF Install
  <2>2. CASE /\ installed' = installed \cup {manager.version}
             /\ requested' = [requested EXCEPT ![manager.version] = manager.request]
             /\ Goto("reap")
    <3>1. manager.request \in SUBSET Permissions /\ manager.version \in 0..MaxVersions
      BY DEF ManagerType
    <3>2. requested' \in [Versions -> SUBSET Permissions]
      BY <2>2, <3>1
    <3>3. manager' \in ManagerType
      BY <2>2, ManagerMoves DEF ManagerPC
    <3>4. manager.version # 0
      BY <1>2 DEF Install, DeployInv
    <3>5. manager.version \in Versions
      BY <3>1, <3>4 DEF Versions
    <3> QED
      BY <1>2, <2>2, <3>2, <3>3, <3>5 DEF Install
  <2> QED
    BY <1>2, <2>1, <2>2 DEF Install
<1>3. CASE Reap
  BY <1>3, ManagerMoves, ConstantTypes DEF Reap, ManagerPC, durable, packages
<1>4. CASE Backup
  <2>1. manager' \in ManagerType
    BY <1>4, ManagerMoves DEF Backup, ManagerPC
  <2> QED
    BY <1>4, <2>1 DEF Backup, CopiedData, packages
<1>5. CASE Journal
  <2>1. manager' \in ManagerType
    BY <1>5, ManagerMoves DEF Journal, ManagerPC
  <2>2. journal' \in JournalType
    <3>1. manager.old_version \in 0..MaxVersions /\ manager.was_running \in BOOLEAN
      BY DEF ManagerType
    <3>2. grants \in SUBSET Permissions
      OBVIOUS
    <3>3. [pending |-> TRUE, previousVersion |-> manager.old_version,
           previousGrants |-> grants, wasRunning |-> manager.was_running] \in JournalType
      BY <3>1, <3>2 DEF JournalType
    <3> QED
      BY <1>5, <3>3 DEF Journal
  <2> QED
    BY <1>5, <2>1, <2>2 DEF Journal, packages
<1>6. CASE Grant
  <2>1. manager' \in ManagerType
    BY <1>6, ManagerMoves DEF Grant, ManagerPC
  <2>2. grants' \subseteq Permissions
    BY <1>6 DEF Grant, ManagerType
  <2> QED
    BY <1>6, <2>1, <2>2 DEF Grant, packages
<1>7. CASE LaunchTrial
  <2>1. manager.version \in 0..MaxVersions
    BY DEF ManagerType
  <2> QED
    BY <1>7, <2>1, ManagerMoves, LaunchTypes DEF LaunchTrial, durable, packages
<1>8. CASE Confirm
  <2>1. manager' \in ManagerType
    BY <1>8, ManagerMoves DEF Confirm, ManagerPC
  <2>2. current' \in 0..MaxVersions /\ last_good' \in 0..MaxVersions
    BY <1>8 DEF Confirm, Activated, ManagerType
  <2> QED
    BY <1>8, <2>1, <2>2 DEF Confirm
<1>9. CASE Refresh
  <2>1. manager' \in ManagerType
    BY <1>9, ManagerMoves DEF Refresh, ManagerPC
  <2>2. plugin' \in PluginType
    BY <1>9, RefreshTypes DEF Refresh
  <2> QED
    BY <1>9, <2>1, <2>2 DEF Refresh, durable, packages
<1>10. CASE Commit
  <2>1. manager' \in ManagerType
    BY <1>10, ManagerMoves DEF Commit
  <2>2. journal' \in JournalType
    BY <1>10 DEF Commit, JournalType
  <2> QED
    BY <1>10, <2>1, <2>2 DEF Commit, packages
<1>11. CASE Restart
  BY <1>11, ManagerMoves, LaunchTypes DEF Restart, durable, packages
<1> QED
  BY <1>1, <1>2, <1>3, <1>4, <1>5, <1>6, <1>7, <1>8, <1>9, <1>10, <1>11 DEF DeployStep

LEMMA OwnerKeepsTypes ==
  ASSUME TypeInv, OwnerStep
  PROVE  TypeInv'
<1> USE DEF TypeInv
<1>1. CASE Start
  BY <1>1, ManagerMoves, LaunchTypes, ConstantTypes DEF Start, durable, packages
<1>2. CASE Stop
  BY <1>2, ManagerMoves, ConstantTypes DEF Stop, durable, packages
<1>3. CASE Activate
  BY <1>3, ManagerMoves, ConstantTypes DEF Activate, Activated
<1>4. CASE Rollback
  BY <1>4, ManagerMoves DEF Rollback, Activated
<1>5. CASE Permit
  <2>1. grants' \in SUBSET Permissions
    BY <1>5 DEF Permit
  <2>2. plugin' \in PluginType
    BY <1>5, <2>1, RefreshTypes DEF Permit
  <2> QED
    BY <1>5, <2>1, <2>2, ManagerMoves DEF Permit, packages
<1> QED
  BY <1>1, <1>2, <1>3, <1>4, <1>5 DEF OwnerStep

LEMMA TypeNext ==
  ASSUME TypeInv, DeployInv, [Next]_vars
  PROVE  TypeInv'
<1>1. CASE UNCHANGED vars
  BY <1>1 DEF TypeInv, vars, durable, packages
<1> QED
  BY <1>1, PluginKeepsTypes, RecoveryKeepsTypes, DeployKeepsTypes, OwnerKeepsTypes
     DEF Next

(***************************************************************************)
(* The inductive invariant                                                 *)
(***************************************************************************)
\* Where each move leads, and what the manager remembers over it
LEMMA Moves ==
  ASSUME manager \in ManagerType
  PROVE  /\ \A pc : Goto(pc) => /\ manager'.pc = pc
                                /\ manager'.from = manager.from
                                /\ manager'.version = manager.version
                                /\ manager'.old_version = manager.old_version
         /\ Return => manager'.pc = "idle" /\ manager'.version = 0
         /\ UndoTrial => manager'.pc = "recover" /\ manager'.version = manager.version
         /\ Abandon => /\ manager'.pc \in {"restart", "idle"}
                       /\ manager'.version \in {0, manager.version}
         /\ AfterRecovery => /\ manager'.pc \in Ops \cup {"idle"}
                             /\ manager'.version \in {0, manager.version}
<1>1. \A pc : Goto(pc) => /\ manager'.pc = pc
                          /\ manager'.from = manager.from
                          /\ manager'.version = manager.version
                          /\ manager'.old_version = manager.old_version
  BY DEF ManagerType, Goto
<1>2. Return => manager'.pc = "idle" /\ manager'.version = 0
  BY DEF Return, Idle
<1>3. UndoTrial => manager'.pc = "recover" /\ manager'.version = manager.version
  BY DEF UndoTrial, ManagerType
<1>4. Abandon => /\ manager'.pc \in {"restart", "idle"}
                 /\ manager'.version \in {0, manager.version}
  BY <1>1, <1>2 DEF Abandon
<1>5. manager.op \in Ops \cup {"none"}
  BY DEF ManagerType
<1>6. AfterRecovery => /\ manager'.pc \in Ops \cup {"idle"}
                       /\ manager'.version \in {0, manager.version}
  BY <1>1, <1>2, <1>5 DEF AfterRecovery
<1> QED
  BY <1>1, <1>2, <1>3, <1>4, <1>6

LEMMA Launched ==
  ASSUME TypeInv, NEW v, NEW mask, NEW from, Launch(v, mask, from)
  PROVE  /\ v # 0
         /\ plugin'.state = "starting" /\ plugin'.version = v
         /\ plugin'.permissions \subseteq mask
         /\ manager'.pc = "starting" /\ manager'.from = from
         /\ manager'.version = manager.version
<1>1. v # 0 /\ plugin'.state = "starting" /\ plugin'.version = v
  BY DEF Launch
<1>2. plugin'.permissions \subseteq mask
  BY DEF Launch
<1>3. /\ manager'.pc = "starting" /\ manager'.from = from
      /\ manager'.version = manager.version
  BY DEF Launch, TypeInv, ManagerType
<1> QED
  BY <1>1, <1>2, <1>3

LEMMA NumberTypes ==
  ASSUME TypeInv
  PROVE  /\ revision \in Nat /\ current \in Nat /\ last_good \in Nat
         /\ manager.version \in Nat /\ \A v \in installed : v \in Nat
BY DEF TypeInv, ManagerType, Versions

LEMMA TrialInit == Init => TrialInv
BY DEF Init, TrialInv, NumberInv, RollbackInv, DeployInv, UndoInv, SlotInv, RunsActive,
       TrialWithheld, Trying, Tried, Live, Idle, NoPlugin, NoJournal, Ops

LEMMA PluginKeeps ==
  ASSUME TypeInv, TrialInv, Write \/ PluginFails \/ Started \/ NotStarted \/ Crash
  PROVE  TrialInv'
<1> USE Moves, NumberTypes DEF TypeInv, TrialInv, NumberInv, RollbackInv, DeployInv, UndoInv, SlotInv,
                 RunsActive, TrialWithheld, Trying, Tried, Live, Ops, durable, packages
<1>1. CASE Write
  BY <1>1 DEF Write
<1>2. CASE PluginFails
  BY <1>2 DEF PluginFails, PluginType
<1>3. CASE Started
  BY <1>3 DEF Started, PluginType
<1>4. CASE NotStarted
  BY <1>4 DEF NotStarted, NoPlugin
<1>5. CASE Crash
  BY <1>5 DEF Crash, NoPlugin
<1> QED
  BY <1>1, <1>2, <1>3, <1>4, <1>5

LEMMA RecoveryKeeps ==
  ASSUME TypeInv, TrialInv, RecoveryStep \/ \E op \in Ops : Request(op)
  PROVE  TrialInv'
<1> USE Moves, NumberTypes DEF TypeInv, TrialInv, NumberInv, RollbackInv, DeployInv, UndoInv, SlotInv,
                 RunsActive, TrialWithheld, Trying, Tried, Live, Ops, durable, packages
<1>1. CASE \E op \in Ops : Request(op)
  BY <1>1 DEF Request, Idle
<1>2. CASE Recover
  BY <1>2 DEF Recover
<1>3. CASE UndoStop
  BY <1>3 DEF UndoStop, Stopped, NoPlugin
<1>4. CASE UndoData
  BY <1>4 DEF UndoData
<1>5. CASE UndoCode
  BY <1>5 DEF UndoCode, RestoredVersion
<1>6. CASE UndoGrants
  <2>1. At("undoGrants") /\ ~Live /\ UNCHANGED <<packages, data, backup, journal, plugin>>
    BY <1>6 DEF UndoGrants
  <2>2. CASE UNCHANGED manager
    BY <1>6, <2>1, <2>2
  <2>3. CASE grants = journal.previousGrants /\ Goto("undoJournal") /\ UNCHANGED grants
    BY <1>6, <2>1, <2>3 DEF UndoGrants
  <2>4. CASE UNCHANGED grants /\ Return
    BY <1>6, <2>1, <2>4 DEF UndoGrants
  <2>5. \/ UNCHANGED manager
        \/ grants = journal.previousGrants /\ Goto("undoJournal") /\ UNCHANGED grants
        \/ UNCHANGED grants /\ Return
    BY <1>6 DEF UndoGrants
  <2> QED
    BY <2>2, <2>3, <2>4, <2>5
<1>7. CASE UndoJournal
  BY <1>7 DEF UndoJournal, JournalType
<1>8. CASE UndoStart
  BY <1>8, Launched DEF UndoStart
<1> QED
  BY <1>1, <1>2, <1>3, <1>4, <1>5, <1>6, <1>7, <1>8 DEF RecoveryStep

LEMMA DeployKeeps ==
  ASSUME TypeInv, TrialInv, DeployStep
  PROVE  TrialInv'
<1> USE Moves, NumberTypes DEF TypeInv, TrialInv, NumberInv, RollbackInv, DeployInv, UndoInv, SlotInv,
                 RunsActive, TrialWithheld, Trying, Tried, Live, Ops, durable, packages
<1>1. CASE Deploy
  <2>1. CASE UNCHANGED revision /\ Return
    BY <1>1, <2>1 DEF Deploy, Return, Idle
  <2>2. CASE /\ revision' = revision + 1
             /\ \E request \in SUBSET Permissions :
                  manager' = [manager EXCEPT !.pc = "install", !.op = "none",
                    !.version = NewVersion, !.request = request,
                    !.old_version = current, !.was_running = plugin.state = "running"]
    <3>1. /\ manager'.pc = "install" /\ manager'.version = revision + 1
          /\ manager'.old_version = current
      BY <2>2 DEF ManagerType, NewVersion
    <3>2. At("deploy") /\ UNCHANGED <<current, last_good, installed, requested, data,
                                     backup, grants, journal, plugin>>
      BY <1>1 DEF Deploy
    <3>3. ~journal.pending /\ plugin.state # "starting"
      BY <3>2
    <3>4. manager'.version # current /\ manager'.version # 0
      BY <3>1
    <3>5. NumberInv'
      BY <2>2, <3>1, <3>2
    <3>6. (RollbackInv /\ DeployInv /\ UndoInv)'
      BY <3>1, <3>2, <3>3, <3>4
    <3>7. (SlotInv /\ RunsActive /\ TrialWithheld)'
      BY <3>1, <3>2, <3>3
    <3> QED
      BY <3>5, <3>6, <3>7
  <2> QED
    BY <1>1, <2>1, <2>2 DEF Deploy
<1>2. CASE Install
  BY <1>2 DEF Install
<1>3. CASE Reap
  BY <1>3 DEF Reap, NoPlugin
<1>4. CASE Backup
  BY <1>4 DEF Backup, CopiedData
<1>5. CASE Journal
  BY <1>5 DEF Journal
<1>6. CASE Grant
  BY <1>6 DEF Grant
<1>7. CASE LaunchTrial
  <2>1. CASE Launch(manager.version, TrialMask, "deploy")
    <3>1. plugin'.permissions \cap Mutating = {}
      BY <2>1, Launched DEF TrialMask
    <3> QED
      BY <1>7, <2>1, <3>1, Launched DEF LaunchTrial
  <2>2. CASE UNCHANGED plugin /\ UndoTrial
    BY <1>7, <2>2 DEF LaunchTrial
  <2> QED
    BY <1>7, <2>1, <2>2 DEF LaunchTrial
<1>8. CASE Confirm
  <2>1. CASE Activated(manager.version, TRUE) /\ Goto("refresh")
    <3>1. current = journal.previousVersion /\ manager.version # current
      BY <1>8 DEF Confirm
    <3>2. last_good' = IF current # 0 THEN current ELSE last_good
      BY <2>1, <3>1 DEF Activated
    <3> QED
      BY <1>8, <2>1, <3>1, <3>2 DEF Confirm, Activated
  <2>2. CASE UNCHANGED <<current, last_good>> /\ UndoTrial
    BY <1>8, <2>2 DEF Confirm
  <2> QED
    BY <1>8, <2>1, <2>2 DEF Confirm
<1>9. CASE Refresh
  BY <1>9 DEF Refresh, Refreshed, PluginType
<1>10. CASE Commit
  BY <1>10 DEF Commit, JournalType
<1>11. CASE Restart
  BY <1>11, Launched DEF Restart
<1> QED
  BY <1>1, <1>2, <1>3, <1>4, <1>5, <1>6, <1>7, <1>8, <1>9, <1>10, <1>11 DEF DeployStep

LEMMA OwnerKeeps ==
  ASSUME TypeInv, TrialInv, OwnerStep
  PROVE  TrialInv'
<1> USE Moves, NumberTypes DEF TypeInv, TrialInv, NumberInv, RollbackInv, DeployInv, UndoInv, SlotInv,
                 RunsActive, TrialWithheld, Trying, Tried, Live, Ops, durable, packages
<1>1. CASE Start
  BY <1>1, Launched DEF Start, NoPlugin
<1>2. CASE Stop
  BY <1>2 DEF Stop, NoPlugin
<1>3. CASE Activate
  BY <1>3 DEF Activate, Activated, NotRunning, PluginType
<1>4. CASE Rollback
  BY <1>4 DEF Rollback, Activated, NotRunning, PluginType
<1>5. CASE Permit
  BY <1>5 DEF Permit, Refreshed, PluginType
<1> QED
  BY <1>1, <1>2, <1>3, <1>4, <1>5 DEF OwnerStep

LEMMA TrialNext ==
  ASSUME TypeInv, TrialInv, [Next]_vars
  PROVE  TypeInv' /\ TrialInv'
<1>1. CASE UNCHANGED vars
  BY <1>1 DEF TypeInv, TrialInv, NumberInv, RollbackInv, DeployInv, UndoInv, SlotInv,
              RunsActive, TrialWithheld, Trying, Tried, Live, vars, durable, packages
<1>2. CASE Next
  <2>1. TrialInv'
    BY <1>2, PluginKeeps, RecoveryKeeps, DeployKeeps, OwnerKeeps DEF Next
  <2>2. TypeInv'
    BY TypeNext DEF TrialInv
  <2> QED
    BY <2>1, <2>2
<1> QED
  BY <1>1, <1>2

\* The variables keep their types: among others, no version is installed under
\* the number 0, which stands for no version (ny_author_deploy takes the number
\* from the revision of the policy before it installs).
THEOREM TypeCorrect == Spec => []TypeInv
<1>1. Init => TypeInv /\ TrialInv
  BY TypeInit, TrialInit
<1>2. TypeInv /\ TrialInv /\ [Next]_vars => (TypeInv /\ TrialInv)'
  BY TrialNext
<1> QED
  BY <1>1, <1>2, PTL DEF Spec

\* What the deployment and the recovery know at each of their steps is true,
\* whatever fails and wherever a crash strikes.
THEOREM TrialCorrect == Spec => []TrialInv
<1>1. Init => TypeInv /\ TrialInv
  BY TypeInit, TrialInit
<1>2. TypeInv /\ TrialInv /\ [Next]_vars => (TypeInv /\ TrialInv)'
  BY TrialNext
<1> QED
  BY <1>1, <1>2, PTL DEF Spec

\* Outside of a trial, the code that runs is the active version: a version whose
\* trial failed or was interrupted is stopped before the journal is closed.
THEOREM RunsActiveCorrect == Spec => []RunsActive
<1>1. TrialInv => RunsActive
  BY DEF TrialInv
<1> QED
  BY <1>1, TrialCorrect, PTL

\* A version that is not active never has the permissions nas.write and
\* nas.manage: the trial is started with a mask, which only a refresh after the
\* activation removes.
THEOREM TrialWithheldCorrect == Spec => []TrialWithheld
<1>1. TrialInv => TrialWithheld
  BY DEF TrialInv
<1> QED
  BY <1>1, TrialCorrect, PTL

\* The recovery closes the journal only with the code, the data and the grants
\* of before the trial in place.
THEOREM RecoveryRestoresCorrect == Spec => RecoveryRestores
<1>1. TrialInv /\ [Next]_vars =>
        [At("undoJournal") /\ journal.pending /\ ~journal'.pending =>
           /\ current' = journal.previousVersion
           /\ data' = backup
           /\ grants' = journal.previousGrants]_vars
  <2> SUFFICES ASSUME TrialInv, Next, At("undoJournal"), journal.pending, ~journal'.pending
               PROVE  /\ current' = journal.previousVersion
                      /\ data' = backup
                      /\ grants' = journal.previousGrants
    OBVIOUS
  <2>1. /\ data = backup /\ current = journal.previousVersion
        /\ grants = journal.previousGrants
    BY DEF TrialInv, UndoInv
  <2>2. UndoJournal
    BY DEF Next, Write, PluginFails, Started, NotStarted, Request, Crash, durable,
           RecoveryStep, Recover, UndoStop, UndoData, UndoCode, UndoGrants, UndoStart,
           DeployStep, Deploy, Install, Reap, Backup, Journal, Grant, LaunchTrial,
           Confirm, Refresh, Commit, Restart,
           OwnerStep, Start, Stop, Activate, Rollback, Permit
  <2> QED
    BY <2>1, <2>2 DEF UndoJournal, packages
<1> QED
  BY <1>1, TrialCorrect, PTL DEF Spec, RecoveryRestores

(***************************************************************************)
(* The refinement                                                          *)
(***************************************************************************)
\* Nothing that PluginVersions knows changes while the journal and what it
\* makes count stay the same.
LEMMA Stutters ==
  ASSUME journal'.pending = journal.pending,
         journal.pending => UNCHANGED <<backup, journal>>,
         ~journal.pending => UNCHANGED <<current, data, grants>>
  PROVE  UNCHANGED Released!vars
BY DEF Released!vars

LEMMA PluginImplements ==
  ASSUME TypeInv, TrialInv, Write \/ PluginFails \/ Started \/ NotStarted \/ Crash
  PROVE  [Released!Next]_(Released!vars)
<1>1. CASE Write /\ ~journal.pending
  <2>1. current # 0 /\ data' \in Data /\ UNCHANGED <<current, grants, journal>>
    BY <1>1 DEF Write, TrialInv, RunsActive, SlotInv, packages
  <2> QED
    BY <1>1, <2>1 DEF Released!Next, Released!Save
<1>2. CASE Write /\ journal.pending
  BY <1>2, Stutters DEF Write
<1>3. CASE PluginFails \/ Started \/ NotStarted \/ Crash
  BY <1>3, Stutters DEF PluginFails, Started, NotStarted, Crash, durable, packages
<1> QED
  BY <1>1, <1>2, <1>3

\* No step of a recovery changes what the owner has.
LEMMA RecoveryImplements ==
  ASSUME TypeInv, TrialInv, RecoveryStep \/ \E op \in Ops : Request(op)
  PROVE  UNCHANGED Released!vars
<1>1. CASE (\E op \in Ops : Request(op)) \/ Recover \/ UndoStop \/ UndoStart
  BY <1>1, Stutters DEF Request, Recover, UndoStop, UndoStart, durable, packages
<1>2. CASE UndoData \/ UndoCode \/ UndoGrants
  <2>1. journal.pending /\ UNCHANGED <<backup, journal>>
    BY <1>2 DEF UndoData, UndoCode, UndoGrants, TrialInv, UndoInv
  <2> QED
    BY <2>1, Stutters
<1>3. CASE UndoJournal
  <2>1. /\ journal.pending
        /\ data = backup /\ current = journal.previousVersion
        /\ grants = journal.previousGrants
        /\ UNCHANGED <<data, backup, current, grants>>
    BY <1>3 DEF UndoJournal, TrialInv, UndoInv, packages
  <2>2. /\ journal'.previousVersion = journal.previousVersion
        /\ journal'.previousGrants = journal.previousGrants
    BY <1>3 DEF UndoJournal, TypeInv, JournalType
  <2> QED
    BY <2>1, <2>2 DEF Released!vars
<1> QED
  BY <1>1, <1>2, <1>3 DEF RecoveryStep

LEMMA DeployImplements ==
  ASSUME TypeInv, TrialInv, DeployStep
  PROVE  [Released!Next]_(Released!vars)
<1>1. CASE Deploy \/ Install \/ Reap \/ LaunchTrial \/ Refresh \/ Restart
  BY <1>1, Stutters
     DEF Deploy, Install, Reap, LaunchTrial, Refresh, Restart, durable, packages
<1>2. CASE Backup
  BY <1>2, Stutters DEF Backup, TrialInv, DeployInv, packages
<1>3. CASE Journal /\ ~UNCHANGED journal
  <2>1. /\ ~journal.pending /\ manager.old_version = current /\ backup = data
        /\ UNCHANGED <<data, backup, current, grants>>
    BY <1>3 DEF Journal, TrialInv, DeployInv, packages
  <2>2. /\ journal'.pending /\ journal'.previousVersion = manager.old_version
        /\ journal'.previousGrants = grants
    BY <1>3 DEF Journal
  <2> QED
    BY <2>1, <2>2 DEF Released!vars
<1>4. CASE Journal /\ UNCHANGED journal
  BY <1>4, Stutters DEF Journal, packages
<1>5. CASE Grant \/ Confirm
  <2>1. journal.pending /\ UNCHANGED <<backup, journal>>
    BY <1>5 DEF Grant, Confirm, TrialInv, DeployInv, Trying
  <2> QED
    BY <2>1, Stutters
<1>6. CASE Commit /\ journal'.pending # journal.pending
  <2>1. /\ current = manager.version /\ manager.version # 0
        /\ manager.version # journal.previousVersion
        /\ journal.pending /\ journal.previousGrants \subseteq grants
    BY <1>6 DEF Commit, TrialInv, DeployInv, Tried
  <2>2. ~journal'.pending /\ UNCHANGED <<current, data, grants>>
    BY <1>6 DEF Commit, TypeInv, JournalType, packages
  <2>3. current \in 1..MaxVersions /\ data \in Data /\ grants \in SUBSET Permissions
    BY <2>1 DEF TypeInv
  <2> QED
    BY <2>1, <2>2, <2>3 DEF Released!Next, Released!Deploy
<1>7. CASE Commit /\ journal'.pending = journal.pending
  <2>1. UNCHANGED journal
    BY <1>7 DEF Commit, TypeInv, JournalType, TrialInv, DeployInv, Tried
  <2> QED
    BY <1>7, <2>1, Stutters DEF Commit, packages
<1> QED
  BY <1>1, <1>2, <1>3, <1>4, <1>5, <1>6, <1>7 DEF DeployStep

LEMMA OwnerImplements ==
  ASSUME TypeInv, TrialInv, OwnerStep
  PROVE  [Released!Next]_(Released!vars)
<1>1. CASE Start \/ Stop
  BY <1>1, Stutters DEF Start, Stop, durable, packages
<1>2. CASE Activate \/ Rollback
  <2>1. ~journal.pending /\ UNCHANGED <<data, grants, journal>>
    BY <1>2 DEF Activate, Rollback, TrialInv, SlotInv, Ops
  <2>2. current' = current \/ current' \in 1..MaxVersions
    BY <1>2 DEF Activate, Rollback, Activated, TypeInv, Versions
  <2>3. CASE current' = current
    BY <2>1, <2>3, Stutters
  <2>4. CASE current' \in 1..MaxVersions
    BY <2>1, <2>4 DEF Released!Next, Released!Select
  <2> QED
    BY <2>2, <2>3, <2>4
<1>3. CASE Permit
  <2>1. ~journal.pending /\ UNCHANGED <<current, data, journal>>
    BY <1>3 DEF Permit, TrialInv, SlotInv, Ops, packages
  <2>2. \/ UNCHANGED grants
        \/ \E p \in Permissions : grants' \in {grants \cup {p}, grants \ {p}}
    BY <1>3 DEF Permit, TypeInv
  <2>3. CASE UNCHANGED grants
    BY <2>1, <2>3, Stutters
  <2>4. CASE \E p \in Permissions : grants' \in {grants \cup {p}, grants \ {p}}
    BY <2>1, <2>4 DEF Released!Next, Released!Permit
  <2> QED
    BY <2>2, <2>3, <2>4
<1> QED
  BY <1>1, <1>2, <1>3 DEF OwnerStep

\* A deployment takes effect as a whole or not at all: seen through the journal
\* and the backup, every step is one of PluginVersions or changes nothing.
THEOREM VersionsCorrect == Spec => ImplementsVersions
<1>1. Init => Released!Init
  BY DEF Init, Released!Init, NoJournal
<1>2. TypeInv /\ TrialInv /\ [Next]_vars => [Released!Next]_(Released!vars)
  <2>1. CASE UNCHANGED vars
    BY <2>1 DEF vars, durable, packages, Released!vars
  <2>2. ASSUME TypeInv, TrialInv, Next PROVE [Released!Next]_(Released!vars)
    BY <2>2, PluginImplements, RecoveryImplements, DeployImplements, OwnerImplements
       DEF Next
  <2> QED
    BY <2>1, <2>2
<1> QED
  BY <1>1, <1>2, TypeCorrect, TrialCorrect, PTL DEF Spec, ImplementsVersions, Released!Spec

================================================================================
